---------------------------- MODULE MCManagement ----------------------------
(* Small instances of Management: the ports are interchangeable. *)
EXTENDS Management, TLC

PortSymmetry == Permutations(Ports)
=============================================================================
