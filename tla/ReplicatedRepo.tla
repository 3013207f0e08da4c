--------------------------- MODULE ReplicatedRepo ---------------------------
(***************************************************************************)
(* What a set of hubs that share a project promises about their repos:     *)
(* a commit enters the system once, at one hub; every other copy of it is  *)
(* taken from a hub that has it; and no hub ever drops a commit.           *)
(***************************************************************************)
CONSTANTS Hub, Commit

VARIABLES authored, repo

Init ==
  /\ authored = {}
  /\ repo = [h \in Hub |-> {}]

Author(h, c) ==
  /\ c \in Commit \ authored
  /\ authored' = authored \cup {c}
  /\ repo' = [repo EXCEPT ![h] = @ \cup {c}]

Copy(h, p) ==
  /\ \E S \in SUBSET repo[p] : repo' = [repo EXCEPT ![h] = @ \cup S]
  /\ UNCHANGED authored

Next ==
  \/ \E h \in Hub, c \in Commit : Author(h, c)
  \/ \E h, p \in Hub : Copy(h, p)

Spec == Init /\ [][Next]_<<authored, repo>>
=============================================================================
