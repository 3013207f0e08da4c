----------------------------- MODULE MCAutosync -----------------------------
(* Two agents and a hub. *)
EXTENDS Autosync, TLC

Symmetry == Permutations(Agent)
=============================================================================
