-------------------------- MODULE MCNotifyMessages --------------------------
(* NotifyMessages with a daemon and two commands at a time: two projects, one thread. *)
EXTENDS NotifyMessages

Symmetry == Permutations(Project) \cup Permutations(Command)
=============================================================================
