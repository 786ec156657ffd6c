--------------------------- MODULE EdgeMeasurement ---------------------------
(***************************************************************************)
(* The measurement of how well the clocks agree: a generator of edges on   *)
(* each station (EdgeGenerator), the acceptor of both (EdgeAcceptor) and   *)
(* the collector gen_stats.py, which undoes the wraps of the counter and   *)
(* subtracts.  The slave's clock is set while the measurement runs.        *)
(***************************************************************************)
EXTENDS EdgeAcceptor, FiniteSets

CONSTANTS
  Offsets,     \* how far the stations' clocks are ahead in the beginning
  Jumps,       \* by how much the slave's clock is set
  MaxJumps,    \* bound: how often
  StartFrom,   \* bound: the cycles at which the start signals come
  StartBy

ASSUME MeasurementAssumption ==
  /\ Offsets \subseteq Nat /\ Jumps \subseteq Int
  /\ {MaxJumps, StartFrom, StartBy} \subseteq Nat

\* A routine has read the counter within so many cycles of the edge: those of the
\* counter and of the other line may come before it.
Latency == 3 * RoutineCycles

\* The routines are over long before a station's next tick and the counter's next
\* overflow: a tick is 40 us (gen.c:78), or 295 cycles (main.c:120).
ASSUME RoutinesAreShort == Latency < TickLength /\ Latency < Wrap

VARIABLES jumps   \* history: how often the slave's clock was set

vars == <<generators, now, acceptor, jumps>>

Init ==
  /\ GeneratorInit(Offsets)
  /\ AcceptorInit
  /\ jumps = 0

\* A start signal comes; none is missing at StartBy.
Start(g) ==
  /\ now \in StartFrom..StartBy
  /\ StartSignal(g, now)
  /\ UNCHANGED <<now, acceptor, jumps>>

Pass ==
  /\ now = StartBy => \A g \in Stations : next[g] # -1
  /\ CyclePasses(Due(now + 1))
  /\ next' = Rescheduled(now + 1)
  /\ UNCHANGED <<off, phase, first, jumps>>

Set ==
  /\ ~printed /\ jumps < MaxJumps
  /\ \E by \in Jumps : Jump("slave", by, now)
  /\ jumps' = jumps + 1
  /\ UNCHANGED <<now, acceptor>>

Serve ==
  /\ Overflowed \/ isr_timera1 \/ Printing \/ \E g \in Stations : Called(g) \/ Stored(g)
  /\ UNCHANGED <<generators, jumps>>

Next ==
  \/ \E g \in Stations : Start(g)
  \/ Pass
  \/ Set
  \/ Serve

\* Time passes, the start signals come, and the microcontroller works.
Spec ==
  /\ Init /\ [][Next]_vars
  /\ WF_vars(Pass) /\ WF_vars(Serve) /\ \A g \in Stations : WF_vars(Start(g))

-----------------------------------------------------------------------------
(* The collector *)

\* How many values of the counter's 32 bits there are.
Values == Wrap * Words

\* The printed lines in which a station's value is below the one before.
Drops(g, i) == {j \in 2..i : Lines[j][g] < Lines[j - 1][g]}

\* Faulty variant: the wraps of both lines are counted together.
UnwrappedTogether(g, i) ==
  Cardinality(UNION {Drops(h, i) : h \in Stations}) * Values + Lines[i][g]

\* A line's value with the wraps of the counter undone: one wherever a value is
\* below the one before.
Unwrapped(g, i) == Cardinality(Drops(g, i)) * Values + Lines[i][g]

\* The difference of the lines, the measured offset of the slave's clock.
Difference(i) == Unwrapped("slave", i) - Unwrapped("master", i)

-----------------------------------------------------------------------------
(* Properties *)

TypeOK ==
  /\ off \in [Stations -> Int] /\ phase \in [Stations -> 0..(TickLength - 1)]
  /\ next \in [Stations -> Nat \cup {-1}] /\ first \in [Stations -> Nat \cup {-1}]
  /\ now \in Nat /\ woken \in Nat
  /\ TAIFG \in BOOLEAN /\ printed \in BOOLEAN
  /\ IFG \subseteq Stations
  /\ cpu \in Stations \cup {"main", "timer"}
  /\ ran \in 0..RoutineCycles
  /\ COUNTER32_LOWER \in 0..(Words - 1)
  /\ raised \in [Stations -> Nat]
  /\ stamps \in [Stations -> Seq(0..(Values - 1))] /\ came \in [Stations -> Seq(Nat)]
  /\ \A g \in Stations :
       Len(stamps[g]) <= MEASUREMENTS /\ Len(stamps[g]) = Len(came[g])
  /\ state \in {"RUNNING", "FINISHED"}
  /\ jumps \in 0..MaxJumps

Off(a, b) == (a - b) % Values

\* Every stored stamp is that of its edge, or a wrap of TAR less where TAR ran over
\* while the routine ran: the routines of main.c never do worse.
StampsOffByAWrap ==
  \A g \in Stations : \A i \in DOMAIN stamps[g] :
    \/ Off(stamps[g][i], came[g][i]) <= Latency
    \/ /\ Off(stamps[g][i] + Wrap, came[g][i]) <= Latency
       /\ stamps[g][i] % Wrap < RoutineCycles

\* Neither a clock that is set nor an interrupt that waits loses an edge: the ith
\* stamp of a line is that of the ith multiple of the period by the station's clock
\* (gen.c:283-285, main.c:78-99).
NoEdgeLost ==
  state = "RUNNING" =>
    \A g \in Stations :
      LET seen == Len(stamps[g]) + (IF g \in IFG THEN 1 ELSE 0) + (IF cpu = g THEN 1 ELSE 0)
      IN next[g] = first[g] + Period * seen

\* The counter does not wrap between the first edges, nor while they are read.
FirstTogether ==
  \A g, h \in Stations :
    came[g][1] \div Values = (came[h][1] + Latency) \div Values

\* The first i edges of a line are neither so close that a stamp may be below the
\* one before nor so far apart that the counter's wrap may go unseen.
Apart(g, i) ==
  \A j \in 2..i :
    came[g][j] - came[g][j - 1] \in (Wrap + Latency)..(Values - Wrap - Latency - 1)

\* The difference the collector reports for a pair of edges is the time between
\* them, but for the latencies and a wrap of TAR (gen_stats.py:64-88).
DifferencesMeasured ==
  printed =>
    \A i \in DOMAIN stamps["master"] \cap DOMAIN stamps["slave"] :
      FirstTogether /\ (\A g \in Stations : Apart(g, i)) =>
        LET error == Difference(i) - (came["slave"][i] - came["master"][i])
        IN error \in -(Wrap + Latency)..(Wrap + Latency)

\* The measurement comes to its end.
Finishes == <>printed

\* "Measure N-times clock tics count from program launch to currently catched RS232
\* DTR rising edge." (main.c:103-104)
CountsTicksFromLaunch ==
  \A g \in Stations : \A i \in DOMAIN stamps[g] :
    Off(stamps[g][i], came[g][i]) <= Latency
=============================================================================
