---------------------------- MODULE MCTCPDemux ----------------------------
(* Connection objects and remote sockets are interchangeable *)
EXTENDS TCPDemux, TLC

Symmetry == Permutations(Conns) \cup Permutations(Remote)
=============================================================================
