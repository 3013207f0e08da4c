----------------------------- MODULE MCPairing ------------------------------
(* Pairing on a small instance: two processes that may overlap. *)
EXTENDS Pairing, TLC

Symmetry == Permutations(Proc) \cup Permutations(Token) \cup Permutations(Device)
=============================================================================
