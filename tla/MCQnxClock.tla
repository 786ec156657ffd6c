----------------------------- MODULE MCQnxClock -----------------------------
(* Small instances of QnxClock: the numbers that a cfg cannot write. *)
EXTENDS QnxClock

BothWays(n) == {-n, n}
AdjustBoth == BothWays(20)
JumpBoth == BothWays(150)
=============================================================================
