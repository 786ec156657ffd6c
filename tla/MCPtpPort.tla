----------------------------- MODULE MCPtpPort -----------------------------
(***************************************************************************)
(* Clocks for small instances of PtpPort: what the port under test is, and *)
(* which Announce messages the others may send.                            *)
(***************************************************************************)
EXTENDS PtpPort

Id(c) == [clock |-> c, port |-> 1]

\* An ordinary clock announcing itself as grandmaster, differing in priority1.
Clock(c, p1) ==
  [src |-> Id(c), leap59 |-> FALSE, leap61 |-> FALSE, gm |-> c,
   priority1 |-> p1, clockClass |-> 13, clockAccuracy |-> 0, variance |-> 0,
   priority2 |-> 128, stepsRemoved |-> 0]

MCSelf == Id(2)

\* copyD0(): the own data set, by the clock class the options give it: that of
\* ptpd.c, or that of option -G.
OwnOfClass(c) == [Clock(2, 128) EXCEPT !.clockClass = c]
OwnOrdinary == OwnOfClass(248)
OwnPrecise == OwnOfClass(13)

Better == Clock(1, 100)
Worse == Clock(3, 200)

BothMasters == {Better, Worse}

\* One better master, which may fall behind, and one worse.
TwoMasters == {Better, [Better EXCEPT !.priority1 = 210], Worse}

\* A better master that raises both leap second flags, and one worse.
LeapMasters == {Better, [Better EXCEPT !.leap59 = TRUE, !.leap61 = TRUE], Worse}

\* Three masters, for a table of two records.
ThreeMasters == {Better, Worse, Clock(4, 110)}
=============================================================================
