---------------------------- MODULE EdgeAcceptor ----------------------------
(***************************************************************************)
(* main.c of the microcontroller: a free running counter extended by the   *)
(* overflow interrupt to twice its width, read by the interrupt of each    *)
(* station's DTR line.  Interrupt routines are not interrupted; among      *)
(* those pending the counter's comes first, then the slave's line (PORT2). *)
(* A routine takes some cycles, at the end of which it reads or counts.    *)
(*                                                                         *)
(* The cycle at which the counter started is 0, so that TAR is now % Wrap. *)
(* The compiler reads state in every turn of main()'s loop, although it is *)
(* not volatile.                                                           *)
(***************************************************************************)
EXTENDS Integers, Sequences, EdgeGenerator

CONSTANTS
  Wrap,          \* COUNTER_MAX + 1, 2^16
  Words,         \* how many values COUNTER32_LOWER has, 2^16
  MEASUREMENTS,
  RoutineCycles  \* how many cycles a routine takes at most

ASSUME AcceptorAssumption ==
  {Wrap, Words, MEASUREMENTS, RoutineCycles} \subseteq Nat \ {0}

VARIABLES
  now,              \* cycles since the launch
  TAIFG,            \* an overflow of TAR is pending
  IFG,              \* the lines whose edge is pending
  cpu,              \* "main", "timer" or the line whose routine runs
  ran,              \* how many cycles that routine has taken
  COUNTER32_LOWER,  \* how often TAR has overflown
  stamps,           \* the arrays master and slave, as far as they are filled
  state,            \* "RUNNING" or "FINISHED"
  printed,          \* whether main() has left its loop and printed the arrays
  came,             \* history: the cycles of the stored edges
  raised,           \* history: the cycle of the last edge of each line
  woken             \* history: the cycle in which main() was last interrupted

acceptor ==
  <<TAIFG, IFG, cpu, ran, COUNTER32_LOWER, stamps, state, printed, came, raised, woken>>

AcceptorInit ==
  /\ now = 0
  /\ TAIFG = FALSE
  /\ IFG = {}
  /\ cpu = "main"
  /\ ran = 0
  /\ COUNTER32_LOWER = 0
  /\ stamps = [g \in Stations |-> <<>>]
  /\ state = "RUNNING"
  /\ printed = FALSE
  /\ came = [g \in Stations |-> <<>>]
  /\ raised = [g \in Stations |-> 0]
  /\ woken = 0

TAR == now % Wrap

\* Faulty variant: the upper half is shifted before it is widened.
COUNTER32Narrow == TAR

COUNTER32 == COUNTER32_LOWER * Wrap + TAR

Pending == TAIFG \/ IFG # {}

\* isr_timera1() is called and clears its flag ...
Overflowed ==
  /\ ~printed /\ cpu = "main" /\ TAIFG
  /\ TAIFG' = FALSE
  /\ cpu' = "timer"
  /\ UNCHANGED <<now, IFG, ran, COUNTER32_LOWER, stamps, state, printed, came, raised, woken>>

\* ... and counts the overflow.
isr_timera1 ==
  /\ cpu = "timer"
  /\ COUNTER32_LOWER' = (COUNTER32_LOWER + 1) % Words
  /\ cpu' = "main" /\ ran' = 0
  /\ UNCHANGED <<now, TAIFG, IFG, stamps, state, printed, came, raised, woken>>

\* isr_port1() or isr_port2() is called.
Called(g) ==
  /\ ~printed /\ cpu = "main" /\ ~TAIFG
  /\ g \in IFG /\ (g = "master" => "slave" \notin IFG)
  /\ IFG' = IFG \ {g}
  /\ cpu' = g
  /\ UNCHANGED <<now, TAIFG, ran, COUNTER32_LOWER, stamps, state, printed, came, raised, woken>>

\* It reads the counter and returns.
Stored(g) ==
  /\ cpu = g
  /\ IF Len(stamps[g]) < MEASUREMENTS
     THEN /\ stamps' = [stamps EXCEPT ![g] = Append(@, COUNTER32)]
          /\ came' = [came EXCEPT ![g] = Append(@, raised[g])]
          /\ UNCHANGED state
     ELSE state' = "FINISHED" /\ UNCHANGED <<stamps, came>>
  /\ cpu' = "main" /\ ran' = 0
  /\ UNCHANGED <<now, TAIFG, IFG, COUNTER32_LOWER, printed, raised, woken>>

\* Faulty variant: main() waits for both arrays.
PrintingWhenFull ==
  /\ ~printed /\ cpu = "main" /\ state = "FINISHED"
  /\ \A g \in Stations : Len(stamps[g]) = MEASUREMENTS
  /\ printed' = TRUE
  /\ UNCHANGED <<now, TAIFG, IFG, cpu, ran, COUNTER32_LOWER, stamps, state, came, raised, woken>>

\* main() sees the end, stops the interrupts and the counter, and prints.
Printing ==
  /\ ~printed /\ cpu = "main" /\ state = "FINISHED"
  /\ printed' = TRUE
  /\ UNCHANGED <<now, TAIFG, IFG, cpu, ran, COUNTER32_LOWER, stamps, state, came, raised, woken>>

\* A cycle passes at whose end the edges of these lines come.  Pending interrupts
\* are served before, and main() sees that it is finished, unless a routine runs.
CyclePasses(edges) ==
  /\ ~printed
  /\ IF cpu = "main" THEN ~Pending /\ state = "RUNNING" ELSE ran < RoutineCycles
  /\ now' = now + 1
  /\ ran' = IF cpu = "main" THEN 0 ELSE ran + 1
  /\ woken' = IF cpu = "main" THEN now' ELSE woken
  /\ TAIFG' = (TAIFG \/ now' % Wrap = 0)
  /\ IFG' = IFG \cup edges
  /\ raised' = [g \in Stations |-> IF g \in edges THEN now' ELSE raised[g]]
  /\ UNCHANGED <<cpu, COUNTER32_LOWER, stamps, state, printed, came>>

\* What main() prints: the arrays, zero where they are not filled.
Lines ==
  [i \in 1..MEASUREMENTS |->
     [g \in Stations |-> IF i \in DOMAIN stamps[g] THEN stamps[g][i] ELSE 0]]
=============================================================================
