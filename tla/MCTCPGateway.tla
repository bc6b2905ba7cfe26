----------------------------- MODULE MCTCPGateway -----------------------------
(***************************************************************************)
(* TCPGateway with up to four connections from up to three addresses.      *)
(***************************************************************************)
EXTENDS TCPGateway, TLC

CONSTANTS k1, k2, k3, k4, a1, a2, a3

Symmetry == Permutations(Conns) \cup Permutations(Addrs)
==============================================================================
