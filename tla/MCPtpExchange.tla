--------------------------- MODULE MCPtpExchange ---------------------------
(* Small instances of PtpExchange: the masters are interchangeable. *)
EXTENDS PtpExchange, TLC

MasterSymmetry == Permutations(Masters)
=============================================================================
