------------------------------ MODULE HubMesh -------------------------------
(***************************************************************************)
(* Several hubs of one project on one NATS mesh (hub/hub.go).              *)
(*                                                                         *)
(* A hub that runs publishNewCommits puts one notification per new commit  *)
(* on the .commit subject.  A hub that receives one pulls from the hub the *)
(* notification names, over that hub's own .sync.<peer-id> subject.  Leaf  *)
(* agents push over the broadcast .sync subject, which a queue group gives *)
(* to one hub.  Core NATS delivers at most once, hubs crash and restart,   *)
(* and a pull can break off.                                               *)
(*                                                                         *)
(* publishNewCommits is the scan, then a publish and a save of the         *)
(* watermark per commit.  HubPublish looks at its callers, its failures    *)
(* and the order of the rids; the order is left open here.                 *)
(***************************************************************************)
EXTENDS Naturals, Sequences

CONSTANTS
  Hub,
  Commit,
  Named,        \* hubs with a Config.ServerName; the others get a new one per start
  NoNote,       \* an idle .commit subscription
  MaxLosses,    \* bound on deliveries NATS drops and on pulls that break off
  MaxCrashes    \* bound on crashes of hubs

ASSUME MeshAssumption ==
  /\ MaxLosses \in Nat
  /\ MaxCrashes \in Nat
  /\ Named \subseteq Hub
  /\ NoNote \notin [peer : Hub, id : Nat, uuid : Commit]

VARIABLES
  repo,        \* repo[h]: the commits in h's repo file
  published,   \* published[h]: those at or below h's publishedRID
  persisted,   \* persisted[h]: those at or below the watermark in h's config table
  scanDue,     \* scanDue[h]: a caller of publishNewCommits is on its way
  newRIDs,     \* newRIDs[h]: the commits the running scan has still to publish
  saving,      \* saving[h]: the running scan is about to call SetConfig
  inbox,       \* inbox[h]: notifications queued on h's .commit subscription
  pulling,     \* pulling[h]: the notification whose handler runs, or NoNote
  up,          \* up[h]: the hub process runs
  id,          \* id[h]: which of h's NATS server names is in use
  authored,    \* commits that were ever made
  losses,
  crashes

repoVars == <<repo, persisted, authored>>
scanVars == <<published, newRIDs, saving>>
procVars == <<up, id, crashes>>
vars == <<repoVars, scanVars, scanDue, inbox, pulling, procVars, losses>>

\* commitNotification; peer and id make up PeerID, the uuid stands for the
\* commit, rid is only logged.
Note == [peer : Hub, id : Nat, uuid : Commit]

TypeOK ==
  /\ repo \in [Hub -> SUBSET Commit]
  /\ published \in [Hub -> SUBSET Commit]
  /\ persisted \in [Hub -> SUBSET Commit]
  /\ scanDue \in [Hub -> BOOLEAN]
  /\ newRIDs \in [Hub -> SUBSET Commit]
  /\ saving \in [Hub -> BOOLEAN]
  /\ inbox \in [Hub -> Seq(Note)]
  /\ pulling \in [Hub -> Note \cup {NoNote}]
  /\ up \in [Hub -> BOOLEAN]
  /\ id \in [Hub -> 0..MaxCrashes]
  /\ authored \subseteq Commit
  /\ losses \in 0..MaxLosses
  /\ crashes \in 0..MaxCrashes

Init ==
  /\ repo = [h \in Hub |-> {}]
  /\ published = [h \in Hub |-> {}]
  /\ persisted = [h \in Hub |-> {}]
  /\ scanDue = [h \in Hub |-> FALSE]
  /\ newRIDs = [h \in Hub |-> {}]
  /\ saving = [h \in Hub |-> FALSE]
  /\ inbox = [h \in Hub |-> <<>>]
  /\ pulling = [h \in Hub |-> NoNote]
  /\ up = [h \in Hub |-> TRUE]
  /\ id = [h \in Hub |-> 0]
  /\ authored = {}
  /\ losses = 0
  /\ crashes = 0

-----------------------------------------------------------------------------
\* Repo.Commit, or an HTTP push: the commit lands and a scan follows.
Land(h, c) ==
  /\ up[h]
  /\ c \notin authored
  /\ authored' = authored \cup {c}
  /\ repo' = [repo EXCEPT ![h] = @ \cup {c}]
  /\ scanDue' = [scanDue EXCEPT ![h] = TRUE]
  /\ UNCHANGED <<persisted, scanVars, inbox, pulling, procVars, losses>>

\* A leaf agent's push on the broadcast .sync subject: the queue group picks
\* h, HandleSync lands the commit, no scan follows.
LeafPush(h, c) ==
  /\ up[h]
  /\ c \notin authored
  /\ authored' = authored \cup {c}
  /\ repo' = [repo EXCEPT ![h] = @ \cup {c}]
  /\ UNCHANGED <<persisted, scanVars, scanDue, inbox, pulling, procVars, losses>>

\* The query of publishNewCommits, once the previous caller has released the
\* lock.
Scan(h) ==
  /\ up[h]
  /\ scanDue[h]
  /\ newRIDs[h] = {} /\ ~saving[h]
  /\ scanDue' = [scanDue EXCEPT ![h] = FALSE]
  /\ newRIDs' = [newRIDs EXCEPT ![h] = repo[h] \ published[h]]
  /\ UNCHANGED <<repoVars, published, saving, inbox, pulling, procVars, losses>>

\* n reaches the subscriptions of the hubs in D.
Deliver(n, D) ==
  inbox' = [g \in Hub |-> IF g \in D THEN Append(inbox[g], n) ELSE inbox[g]]

\* r.publish and the advance of publishedRID: a notification reaches the hubs
\* D that are connected.  NoEcho keeps it from h, unless it comes back through
\* an upstream leaf.
Publish(h) ==
  /\ up[h]
  /\ ~saving[h]
  /\ \E c \in newRIDs[h], D \in SUBSET {g \in Hub : up[g]} :
       /\ newRIDs' = [newRIDs EXCEPT ![h] = @ \ {c}]
       /\ published' = [published EXCEPT ![h] = @ \cup {c}]
       /\ losses' = losses + (IF {g \in Hub \ {h} : up[g]} \subseteq D THEN 0 ELSE 1)
       /\ losses' <= MaxLosses
       /\ Deliver([peer |-> h, id |-> id[h], uuid |-> c], D)
  /\ saving' = [saving EXCEPT ![h] = TRUE]
  /\ UNCHANGED <<repoVars, scanDue, pulling, procVars>>

\* SetConfig with the watermark; its failure is only logged.
Persist(h) ==
  /\ up[h]
  /\ saving[h]
  /\ \/ persisted' = [persisted EXCEPT ![h] = published[h]]
     \/ UNCHANGED persisted
  /\ saving' = [saving EXCEPT ![h] = FALSE]
  /\ UNCHANGED <<repo, authored, published, newRIDs, scanDue, inbox, pulling, procVars,
                 losses>>

-----------------------------------------------------------------------------
\* Fault: the test on the notification's peer is the wrong way round.
ReceiveInverted(h) ==
  /\ up[h]
  /\ pulling[h] = NoNote
  /\ inbox[h] # <<>>
  /\ inbox' = [inbox EXCEPT ![h] = Tail(@)]
  /\ UNCHANGED <<repoVars, scanVars, scanDue, pulling, procVars, losses>>

\* The .commit handler.  nats.go runs one callback of a subscription at a
\* time, so the next notification waits for the pull of this one.
Receive(h) ==
  /\ up[h]
  /\ pulling[h] = NoNote
  /\ inbox[h] # <<>>
  /\ inbox' = [inbox EXCEPT ![h] = Tail(@)]
  /\ pulling' = [pulling EXCEPT ![h] =
                   IF Head(inbox[h]).peer = h /\ Head(inbox[h]).id = id[h]
                     THEN NoNote
                     ELSE Head(inbox[h])]
  /\ UNCHANGED <<repoVars, scanVars, scanDue, procVars, losses>>

\* The hub that answers h's pull: the subscription on .sync.<peer-id>, whose
\* name is gone when an unnamed hub has restarted.  It has a goroutine of its
\* own, so p answers while a pull of p's is running.
Serves(h, p) == up[p] /\ p = pulling[h].peer /\ id[p] = pulling[h].id

\* Fault: p answers only between its own pulls.
PullBlocked(h) ==
  /\ up[h]
  /\ pulling[h] # NoNote
  /\ \E p \in Hub :
       /\ Serves(h, p)
       /\ pulling[p] = NoNote
       /\ repo' = [repo EXCEPT ![h] = @ \cup repo[p]]
  /\ pulling' = [pulling EXCEPT ![h] = NoNote]
  /\ UNCHANGED <<persisted, authored, scanVars, scanDue, inbox, procVars, losses>>

\* Fault: the pull replaces the repo by a clone of the peer's.
PullReplaces(h) ==
  /\ up[h]
  /\ pulling[h] # NoNote
  /\ \E p \in Hub :
       /\ Serves(h, p)
       /\ repo' = [repo EXCEPT ![h] = repo[p]]
  /\ pulling' = [pulling EXCEPT ![h] = NoNote]
  /\ UNCHANGED <<persisted, authored, scanVars, scanDue, inbox, procVars, losses>>

\* Fault: the pull fetches the announced commit alone.
PullOne(h) ==
  /\ up[h]
  /\ pulling[h] # NoNote
  /\ \E p \in Hub : Serves(h, p)
  /\ repo' = [repo EXCEPT ![h] = @ \cup {pulling[h].uuid}]
  /\ pulling' = [pulling EXCEPT ![h] = NoNote]
  /\ UNCHANGED <<persisted, authored, scanVars, scanDue, inbox, procVars, losses>>

\* Fault: the handler announces the commit it pulled through the publish hook
\* itself, without a look at the watermark.
PullForwards(h) ==
  /\ up[h]
  /\ pulling[h] # NoNote
  /\ \E p \in Hub :
       /\ Serves(h, p)
       /\ repo' = [repo EXCEPT ![h] = @ \cup repo[p]]
  /\ Deliver([pulling[h] EXCEPT !.peer = h, !.id = id[h]], {g \in Hub \ {h} : up[g]})
  /\ published' = [published EXCEPT ![h] = @ \cup {pulling[h].uuid}]
  /\ pulling' = [pulling EXCEPT ![h] = NoNote]
  /\ UNCHANGED <<persisted, authored, newRIDs, saving, scanDue, procVars, losses>>

\* handle.Sync with Pull runs to its end: h has all the commits of p.  No
\* publishNewCommits follows; they wait above h's watermark.
Pull(h) ==
  /\ up[h]
  /\ pulling[h] # NoNote
  /\ \E p \in Hub :
       /\ Serves(h, p)
       /\ repo' = [repo EXCEPT ![h] = @ \cup repo[p]]
  /\ pulling' = [pulling EXCEPT ![h] = NoNote]
  /\ UNCHANGED <<persisted, authored, scanVars, scanDue, inbox, procVars, losses>>

\* The pull breaks off: an empty reply, a timeout, or nobody on the subject.
\* What arrived in earlier rounds stays; the error is only logged.
PullFails(h) ==
  /\ up[h]
  /\ pulling[h] # NoNote
  /\ LET p == pulling[h].peer IN
       /\ losses' = losses + (IF Serves(h, p) THEN 1 ELSE 0)
       /\ losses' <= MaxLosses
       /\ \E S \in SUBSET repo[p] : repo' = [repo EXCEPT ![h] = @ \cup S]
  /\ pulling' = [pulling EXCEPT ![h] = NoNote]
  /\ UNCHANGED <<persisted, authored, scanVars, scanDue, inbox, procVars>>

-----------------------------------------------------------------------------
\* The process dies with its queues and its in-memory watermark; the repo
\* file, watermark row included, stays.
Crash(h) ==
  /\ up[h]
  /\ crashes < MaxCrashes
  /\ crashes' = crashes + 1
  /\ up' = [up EXCEPT ![h] = FALSE]
  /\ published' = [published EXCEPT ![h] = {}]
  /\ scanDue' = [scanDue EXCEPT ![h] = FALSE]
  /\ newRIDs' = [newRIDs EXCEPT ![h] = {}]
  /\ saving' = [saving EXCEPT ![h] = FALSE]
  /\ inbox' = [inbox EXCEPT ![h] = <<>>]
  /\ pulling' = [pulling EXCEPT ![h] = NoNote]
  /\ UNCHANGED <<repoVars, id, losses>>

\* Fault: no catchup after a restart.
RestartQuietly(h) ==
  /\ ~up[h]
  /\ up' = [up EXCEPT ![h] = TRUE]
  /\ id' = [id EXCEPT ![h] = IF h \in Named THEN @ ELSE @ + 1]
  /\ published' = [published EXCEPT ![h] = persisted[h]]
  /\ UNCHANGED <<repoVars, newRIDs, saving, scanDue, inbox, pulling, crashes, losses>>

\* NewHub on the same repo: warm start, and the startup catchup will scan.
Restart(h) ==
  /\ ~up[h]
  /\ up' = [up EXCEPT ![h] = TRUE]
  /\ id' = [id EXCEPT ![h] = IF h \in Named THEN @ ELSE @ + 1]
  /\ published' = [published EXCEPT ![h] = persisted[h]]
  /\ scanDue' = [scanDue EXCEPT ![h] = TRUE]
  /\ UNCHANGED <<repoVars, newRIDs, saving, inbox, pulling, crashes, losses>>

-----------------------------------------------------------------------------
Next ==
  \E h \in Hub :
    \/ \E c \in Commit : Land(h, c) \/ LeafPush(h, c)
    \/ Scan(h)
    \/ Publish(h)
    \/ Persist(h)
    \/ Receive(h)
    \/ Pull(h)
    \/ PullFails(h)
    \/ Crash(h)
    \/ Restart(h)

Spec == Init /\ [][Next]_vars

(***************************************************************************)
(* A running hub finishes its scans and handlers.  A pull needs no         *)
(* timeout to end: it ends when the peer answers, or at once when nobody   *)
(* listens on the subject.  Crashed hubs need not come back.               *)
(***************************************************************************)
Fairness ==
  \A h \in Hub :
    /\ WF_vars(Scan(h))
    /\ WF_vars(Publish(h))
    /\ WF_vars(Persist(h))
    /\ WF_vars(Receive(h))
    /\ WF_vars(Pull(h))
    /\ WF_vars(pulling[h] # NoNote /\ ~Serves(h, pulling[h].peer) /\ PullFails(h))

FairSpec == Spec /\ Fairness

-----------------------------------------------------------------------------
(* Properties *)

\* n's hub holds n's commit and has counted it as announced, or will again.
Backed(n) ==
  /\ n.uuid \in repo[n.peer]
  /\ \/ ~up[n.peer]
     \/ scanDue[n.peer]
     \/ n.uuid \in published[n.peer] \cup newRIDs[n.peer]

\* A notification never outruns its commit, and a crash between the publish
\* and SetConfig forgets none: whenever one is queued or being handled, the
\* hub it names holds the commit and counts it as announced, or is down, or
\* is about to announce it again.
NoteBacked ==
  \A h \in Hub :
    /\ \A i \in DOMAIN inbox[h] : Backed(inbox[h][i])
    /\ pulling[h] # NoNote => Backed(pulling[h])

\* The pull of a notification that does not fail leaves the hub with the
\* announced commit and with everything older notifications of that peer,
\* lost or not, were about ("triggers a pull that idempotently catches the
\* backlog up"), whatever other hubs listen on the broadcast subject.
PullCatchesUp ==
  [][\A h \in Hub :
       (pulling[h] # NoNote /\ pulling'[h] = NoNote /\ losses' = losses
          /\ up'[h] /\ up[pulling[h].peer] /\ id[pulling[h].peer] = pulling[h].id)
       => published[pulling[h].peer] \subseteq repo'[h]]_vars

\* The commits of all hubs behave like one grow-only replicated set: nothing
\* is invented, nothing is lost, every copy comes from a hub that has it.
Abstract == INSTANCE ReplicatedRepo
            WITH Hub <- Hub, Commit <- Commit, authored <- authored, repo <- repo
Replicates == Abstract!Spec

\* Two hubs that pull from each other do not wait for each other: every pull
\* ends without its 60 s timeout.
PullEnds == \A h \in Hub : pulling[h] # NoNote ~> pulling[h] = NoNote

\* Pulled commits are announced again by the hub that pulled them, but the
\* echo dies out: with finitely many commits the mesh falls silent.
GossipEnds ==
  <>[](\A h \in Hub : /\ inbox[h] = <<>> /\ pulling[h] = NoNote
                      /\ ~scanDue[h] /\ newRIDs[h] = {} /\ ~saving[h])

\* While no hub crashes and nothing is dropped, a commit that a hub announced
\* reaches every hub.
Converges ==
  \A c \in Commit :
    (\E h \in Hub : c \in published[h])
      ~> (losses > 0 \/ crashes > 0 \/ \A g \in Hub : c \in repo[g])
=============================================================================
