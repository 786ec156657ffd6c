-------------------------- MODULE MCEdgeMeasurement --------------------------
(* A small instance of EdgeMeasurement: the numbers that a cfg cannot write. *)
EXTENDS EdgeMeasurement

JumpSet == {-3, 2, 14}
=============================================================================
