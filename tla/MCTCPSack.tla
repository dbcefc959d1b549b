----------------------------- MODULE MCTCPSack ------------------------------
(* The constants are numbers: the configurations give them *)
EXTENDS TCPSack
=============================================================================
