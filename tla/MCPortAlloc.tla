---------------------------- MODULE MCPortAlloc ------------------------------
(* PortAlloc for TLC.                                                       *)
EXTENDS PortAlloc, TLC

Symmetry == Permutations(Names) \cup Permutations(Clients)
=============================================================================
