---------------------------- MODULE EdgeGenerator ----------------------------
(***************************************************************************)
(* gen.c, which runs on the master's and on the slave's station: it raises *)
(* DTR whenever the station's own clock passes a multiple of the period,   *)
(* and looks at that clock at every tick of SYS_CLOCK.                     *)
(***************************************************************************)
EXTENDS Integers

CONSTANTS
  Period,      \* DTR_PERIOD_NS
  TickLength   \* CLOCK_PERIOD_NS

ASSUME GeneratorAssumption ==
  /\ TickLength \in Nat \ {0}
  /\ Period \in Nat /\ Period > TickLength

Stations == {"master", "slave"}

VARIABLES
  off,       \* how far each station's clock is ahead of the time since launch
  phase,     \* when, within the length of a tick, each station's ticks come
  next,      \* next_rising_edge_at of each station; -1 before the start signal
  first      \* history: that of the first edge

generators == <<off, phase, next, first>>

GeneratorInit(offsets) ==
  /\ off \in [Stations -> offsets]
  /\ phase \in [Stations -> 0..(TickLength - 1)]
  /\ next = [g \in Stations |-> -1]
  /\ first = next

RoundedUp(t) == ((t + (Period - 1)) \div Period) * Period

\* A byte arrives at COM1: the first edge is due at the next multiple.
StartSignal(g, now) ==
  /\ next[g] = -1
  /\ next' = [next EXCEPT ![g] = RoundedUp(now + off[g])]
  /\ first' = [first EXCEPT ![g] = next'[g]]
  /\ UNCHANGED <<off, phase>>

\* The stations whose tick at this time finds their edge due.
Due(now) ==
  {g \in Stations :
     now % TickLength = phase[g] /\ next[g] # -1 /\ next[g] <= now + off[g]}

\* Faulty variant: the next edge is reckoned from the clock.
RescheduledFromClock(now) ==
  [g \in Stations |-> IF g \in Due(now) THEN RoundedUp(now + off[g] + 1) ELSE next[g]]

\* The next edge after this tick.
Rescheduled(now) ==
  [g \in Stations |-> IF g \in Due(now) THEN next[g] + Period ELSE next[g]]

\* The daemon sets the station's clock.
Jump(g, by, now) ==
  /\ now + off[g] + by >= 0
  /\ off' = [off EXCEPT ![g] = @ + by]
  /\ UNCHANGED <<phase, next, first>>
=============================================================================
