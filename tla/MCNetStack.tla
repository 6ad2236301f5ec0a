----------------------------- MODULE MCNetStack -----------------------------
(* Small instances of NetStack.                                             *)
EXTENDS NetStack, TLC

Symmetry == Permutations(Peers) \cup Permutations(Macs)
=============================================================================
