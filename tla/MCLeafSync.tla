----------------------------- MODULE MCLeafSync -----------------------------
(* Two leaves and a bridge; one of the leaves may serve as well. *)
EXTENDS LeafSync
=============================================================================
