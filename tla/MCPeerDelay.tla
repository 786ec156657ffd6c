---------------------------- MODULE MCPeerDelay ----------------------------
(* Small instances of PeerDelay: the ports are interchangeable. *)
EXTENDS PeerDelay, TLC

PortSymmetry == Permutations(Ports)
=============================================================================
