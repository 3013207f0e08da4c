--------------------------- MODULE HubMeshProofs ----------------------------
(***************************************************************************)
(* HubMesh implements ReplicatedRepo, and its notifications are backed by  *)
(* the repo of the hub they name, for any hubs, commits and bounds.        *)
(***************************************************************************)
EXTENDS HubMesh, TLAPS

\* Queues hold notifications, one by one and in their types.
QueueType ==
  /\ inbox \in [Hub -> Seq(Note)]
  /\ pulling \in [Hub -> Note \cup {NoNote}]
  /\ published \in [Hub -> SUBSET Commit]
  /\ persisted \in [Hub -> SUBSET Commit]
  /\ newRIDs \in [Hub -> SUBSET Commit]
  /\ scanDue \in [Hub -> BOOLEAN]
  /\ id \in [Hub -> Nat]
  /\ repo \in [Hub -> SUBSET Commit]
  /\ authored \subseteq Commit
  /\ losses \in Nat
  /\ up \in [Hub -> BOOLEAN]

\* Initially nothing is queued.
LEMMA InitQueueType == Init => QueueType
  <1> SUFFICES ASSUME Init PROVE QueueType
    OBVIOUS
  <1>1. inbox \in [Hub -> Seq(Note)]
    BY DEF Init
  <1>2. pulling \in [Hub -> Note \cup {NoNote}]
    BY DEF Init
  <1>3. /\ published \in [Hub -> SUBSET Commit] /\ persisted \in [Hub -> SUBSET Commit]
        /\ newRIDs \in [Hub -> SUBSET Commit] /\ repo \in [Hub -> SUBSET Commit]
    BY DEF Init
  <1>4. QED
    BY <1>1, <1>2, <1>3 DEF Init, QueueType

\* Every step keeps the queues and the repos in their types.
LEMMA QueueTypeStep == QueueType /\ [Next]_vars => QueueType'
  <1> SUFFICES ASSUME QueueType, [Next]_vars PROVE QueueType'
    OBVIOUS
  <1> USE DEF QueueType
  <1>1. ASSUME NEW h \in Hub, NEW c \in Commit, Land(h, c) \/ LeafPush(h, c)
        PROVE  QueueType'
    <2>1. /\ repo' = [repo EXCEPT ![h] = @ \cup {c}] /\ authored' = authored \cup {c}
          /\ UNCHANGED <<published, persisted, newRIDs, inbox, pulling, losses, up, id>>
          /\ scanDue' \in [Hub -> BOOLEAN]
      BY <1>1 DEF Land, LeafPush, scanVars, procVars
    <2> QED
      BY <2>1
  <1>2. ASSUME NEW h \in Hub, Publish(h) PROVE QueueType'
    <2>1. PICK c \in newRIDs[h], D \in SUBSET Hub :
            /\ newRIDs' = [newRIDs EXCEPT ![h] = @ \ {c}]
            /\ published' = [published EXCEPT ![h] = @ \cup {c}]
            /\ Deliver([peer |-> h, id |-> id[h], uuid |-> c], D)
      BY <1>2 DEF Publish
    <2>2. [peer |-> h, id |-> id[h], uuid |-> c] \in Note
      BY <2>1 DEF Note
    <2>3. inbox' \in [Hub -> Seq(Note)]
      BY <2>1, <2>2 DEF Deliver
    <2>4. published' \in [Hub -> SUBSET Commit] /\ newRIDs' \in [Hub -> SUBSET Commit]
      BY <2>1
    <2>5. losses' \in Nat
      BY <1>2 DEF Publish
    <2>6. QED
      BY <1>2, <2>3, <2>4, <2>5 DEF Publish, repoVars, procVars
  <1>3. ASSUME NEW h \in Hub, Scan(h) \/ Persist(h) PROVE QueueType'
    <2>1. UNCHANGED <<repo, authored, published, inbox, pulling, up, id, losses>>
      BY <1>3 DEF Scan, Persist, repoVars, procVars
    <2>2. scanDue' \in [Hub -> BOOLEAN]
      BY <1>3 DEF Scan, Persist
    <2>3. newRIDs' \in [Hub -> SUBSET Commit]
      <3>1. repo[h] \ published[h] \subseteq Commit
        OBVIOUS
      <3>2. CASE Scan(h)
        BY <3>1, <3>2 DEF Scan
      <3>3. CASE Persist(h)
        BY <3>3 DEF Persist
      <3>4. QED
        BY <1>3, <3>2, <3>3
    <2>4. persisted' \in [Hub -> SUBSET Commit]
      BY <1>3 DEF Scan, Persist, repoVars
    <2>5. QED
      BY <2>1, <2>2, <2>3, <2>4
  <1>4. ASSUME NEW h \in Hub, Restart(h) PROVE QueueType'
    BY <1>4 DEF Restart, repoVars
  <1>5. ASSUME NEW h \in Hub, Receive(h) PROVE QueueType'
    <2>1. Head(inbox[h]) \in Note /\ Tail(inbox[h]) \in Seq(Note)
      BY <1>5 DEF Receive
    <2>2. QED
      BY <1>5, <2>1 DEF Receive, repoVars, scanVars, procVars
  <1>6. ASSUME NEW h \in Hub, Pull(h) PROVE QueueType'
    BY <1>6 DEF Pull, scanVars, procVars
  <1>7. ASSUME NEW h \in Hub, PullFails(h) PROVE QueueType'
    <2>1. pulling[h].peer \in Hub
      BY <1>7 DEF PullFails, Note
    <2>2. QED
      BY <1>7, <2>1 DEF PullFails, scanVars, procVars
  <1>8. ASSUME NEW h \in Hub, Crash(h) PROVE QueueType'
    BY <1>8 DEF Crash, repoVars
  <1>9. CASE UNCHANGED vars
    BY <1>9 DEF vars, repoVars, scanVars, procVars
  <1>10. QED
    BY <1>1, <1>2, <1>3, <1>5, <1>6, <1>7, <1>8, <1>9, <1>4 DEF Next

-----------------------------------------------------------------------------
\* What a hub announced, or is to announce, is in its repo.
ListHeld ==
  \A p \in Hub : published[p] \cup persisted[p] \cup newRIDs[p] \subseteq repo[p]

\* Initially nothing is announced.
LEMMA InitHeld == Init => ListHeld
  BY DEF Init, ListHeld

\* A hub announces only what it holds, and repos only grow.
LEMMA ListHeldStep == QueueType /\ ListHeld /\ [Next]_vars => ListHeld'
  <1> SUFFICES ASSUME QueueType, ListHeld, [Next]_vars PROVE ListHeld'
    OBVIOUS
  <1> USE DEF QueueType, ListHeld
  <1>1. ASSUME NEW h \in Hub, NEW c \in Commit, Land(h, c) \/ LeafPush(h, c)
        PROVE  ListHeld'
    <2>1. /\ repo' = [repo EXCEPT ![h] = @ \cup {c}]
          /\ UNCHANGED <<published, persisted, newRIDs>>
      BY <1>1 DEF Land, LeafPush, scanVars
    <2>2. \A p \in Hub : repo[p] \subseteq repo'[p]
      BY <2>1
    <2>3. QED
      BY <2>1, <2>2
  <1>2. ASSUME NEW h \in Hub, Publish(h) PROVE ListHeld'
    BY <1>2 DEF Publish, repoVars
  <1>3. ASSUME NEW h \in Hub, Scan(h) PROVE ListHeld'
    BY <1>3 DEF Scan, repoVars
  <1>4. ASSUME NEW h \in Hub, Persist(h) PROVE ListHeld'
    BY <1>4 DEF Persist
  <1>5. ASSUME NEW h \in Hub, Restart(h) \/ Crash(h) PROVE ListHeld'
    BY <1>5 DEF Restart, Crash, repoVars
  <1>6. ASSUME NEW h \in Hub, Receive(h) PROVE ListHeld'
    BY <1>6 DEF Receive, repoVars, scanVars
  <1>7. ASSUME NEW h \in Hub, Pull(h) \/ PullFails(h) PROVE ListHeld'
    <2>1. PICK S : repo' = [repo EXCEPT ![h] = @ \cup S]
      BY <1>7 DEF Pull, PullFails
    <2>2. UNCHANGED <<published, persisted, newRIDs>>
      BY <1>7 DEF Pull, PullFails, scanVars
    <2>3. \A p \in Hub : repo[p] \subseteq repo'[p]
      BY <2>1
    <2>4. QED
      BY <2>2, <2>3
  <1>8. CASE UNCHANGED vars
    BY <1>8 DEF vars, repoVars, scanVars
  <1>9. QED
    BY <1>1, <1>2, <1>3, <1>4, <1>5, <1>6, <1>7, <1>8 DEF Next

\* Repos only grow; a hub forgets that it announced a commit only in a crash,
\* and the scan that follows the restart takes the commit up again.
LEMMA BackedStays ==
  ASSUME QueueType, [Next]_vars, NEW n \in Note, Backed(n)
  PROVE  Backed(n)'
  <1> USE DEF Backed, QueueType, Note
  <1>1. ASSUME NEW h \in Hub, NEW c \in Commit, Land(h, c) \/ LeafPush(h, c)
        PROVE  Backed(n)'
    <2>1. /\ repo' = [repo EXCEPT ![h] = @ \cup {c}]
          /\ UNCHANGED <<published, newRIDs, up>>
      BY <1>1 DEF Land, LeafPush, scanVars, procVars
    <2>2. scanDue' = scanDue \/ scanDue' = [scanDue EXCEPT ![h] = TRUE]
      BY <1>1 DEF Land, LeafPush
    <2>3. n.peer \in Hub
      OBVIOUS
    <2>4. repo[n.peer] \subseteq repo'[n.peer]
      BY <2>1, <2>3
    <2>5. scanDue[n.peer] => scanDue'[n.peer]
      BY <2>2, <2>3
    <2>6. QED
      BY <2>1, <2>4, <2>5
  <1>2. ASSUME NEW h \in Hub, Publish(h) PROVE Backed(n)'
    BY <1>2 DEF Publish, repoVars, procVars
  <1>3. ASSUME NEW h \in Hub, Scan(h) PROVE Backed(n)'
    BY <1>3 DEF Scan, repoVars, procVars
  <1>4. ASSUME NEW h \in Hub, Pull(h) PROVE Backed(n)'
    BY <1>4 DEF Pull, scanVars, procVars
  <1>5. ASSUME NEW h \in Hub, PullFails(h) PROVE Backed(n)'
    BY <1>5 DEF PullFails, scanVars, procVars
  <1>6. ASSUME NEW h \in Hub, Persist(h) \/ Receive(h) PROVE Backed(n)'
    BY <1>6 DEF Persist, Receive, repoVars, scanVars, procVars
  <1>7. ASSUME NEW h \in Hub, Crash(h) \/ Restart(h) PROVE Backed(n)'
    <2>1. n.peer \in Hub /\ repo' = repo
      BY <1>7 DEF Crash, Restart, repoVars
    <2>2. CASE Crash(h)
      <3>1. CASE n.peer = h
        BY <2>1, <2>2, <3>1 DEF Crash
      <3>2. CASE n.peer # h
        BY <2>1, <2>2, <3>2 DEF Crash
      <3>3. QED
        BY <3>1, <3>2
    <2>3. CASE Restart(h)
      <3>1. CASE n.peer = h
        BY <2>1, <2>3, <3>1 DEF Restart
      <3>2. CASE n.peer # h
        BY <2>1, <2>3, <3>2 DEF Restart
      <3>3. QED
        BY <3>1, <3>2
    <2>4. QED
      BY <1>7, <2>2, <2>3
  <1>8. CASE UNCHANGED vars
    BY <1>8 DEF vars, repoVars, scanVars, procVars
  <1>9. QED
    BY <1>1, <1>2, <1>3, <1>4, <1>5, <1>6, <1>7, <1>8 DEF Next

\* New notes are backed by the hub that publishes them; old ones stay backed.
LEMMA NoteBackedStep == QueueType /\ ListHeld /\ NoteBacked /\ [Next]_vars => NoteBacked'
  <1> SUFFICES ASSUME QueueType, ListHeld, NoteBacked, [Next]_vars PROVE NoteBacked'
    OBVIOUS
  <1> USE DEF QueueType, NoteBacked
  <1>1. \A n \in Note : Backed(n) => Backed(n)'
    BY BackedStays
  <1>2. /\ \A h \in Hub : \A i \in DOMAIN inbox[h] : inbox[h][i] \in Note
        /\ \A h \in Hub : pulling[h] # NoNote => pulling[h] \in Note
    OBVIOUS
  <1>3. CASE UNCHANGED <<inbox, pulling>>
    BY <1>1, <1>2, <1>3
  <1>4. ASSUME NEW h \in Hub, Publish(h) PROVE NoteBacked'
    <2>1. PICK c \in newRIDs[h], D \in SUBSET Hub :
            /\ published' = [published EXCEPT ![h] = @ \cup {c}]
            /\ Deliver([peer |-> h, id |-> id[h], uuid |-> c], D)
      BY <1>4 DEF Publish
    <2> DEFINE new == [peer |-> h, id |-> id[h], uuid |-> c]
    <2>2. new.uuid \in repo'[new.peer] /\ new.uuid \in published'[new.peer]
      BY <1>4, <2>1 DEF Publish, repoVars, ListHeld
    <2>3. \A g \in Hub : pulling'[g] # NoNote => Backed(pulling[g])'
      <3>1. pulling' = pulling
        BY <1>4 DEF Publish
      <3>2. QED
        BY <1>1, <1>2, <3>1 DEF Backed
    <2>4. ASSUME NEW g \in Hub, NEW i \in DOMAIN inbox'[g] PROVE Backed(inbox[g][i])'
      <3>1. inbox'[g] = inbox[g] \/ inbox'[g] = Append(inbox[g], new)
        BY <2>1 DEF Deliver
      <3>2. inbox[g] \in Seq(Note) /\ new \in Note
        BY DEF Note
      <3>3. ASSUME inbox'[g] = Append(inbox[g], new)
            PROVE  inbox'[g][i] = new \/ (i \in DOMAIN inbox[g] /\ inbox'[g][i] = inbox[g][i])
        <4> HIDE DEF new
        <4> QED
          BY <3>2, <3>3
      <3>4. inbox'[g][i] = new \/ (i \in DOMAIN inbox[g] /\ inbox'[g][i] = inbox[g][i])
        BY <3>1, <3>3
      <3>5. CASE inbox'[g][i] = new
        BY <2>2, <3>5 DEF Backed
      <3>6. CASE i \in DOMAIN inbox[g] /\ inbox'[g][i] = inbox[g][i]
        BY <1>1, <1>2, <3>6 DEF Backed
      <3>7. QED
        BY <3>4, <3>5, <3>6
    <2>5. QED
      BY <2>3, <2>4
  <1>5. ASSUME NEW h \in Hub, Receive(h) PROVE NoteBacked'
    <2>1. /\ inbox' = [inbox EXCEPT ![h] = Tail(@)]
          /\ inbox[h] # <<>>
      BY <1>5 DEF Receive
    <2>2. pulling'[h] # NoNote => pulling'[h] = inbox[h][1]
      BY <1>5 DEF Receive
    <2>3. 1 \in DOMAIN inbox[h]
      BY <2>1
    <2>4. \A g \in Hub : pulling'[g] # NoNote => Backed(pulling[g])'
      BY <1>1, <1>2, <1>5, <2>2, <2>3 DEF Receive, Backed
    <2>5. \A g \in Hub : \A i \in DOMAIN inbox'[g] :
            \E j \in DOMAIN inbox[g] : inbox'[g][i] = inbox[g][j]
      BY <2>1
    <2>6. ASSUME NEW g \in Hub, NEW i \in DOMAIN inbox'[g] PROVE Backed(inbox[g][i])'
      <3>1. PICK j \in DOMAIN inbox[g] : inbox'[g][i] = inbox[g][j]
        BY <2>5
      <3>2. Backed(inbox[g][j]) /\ inbox[g][j] \in Note
        BY <1>2
      <3>3. QED
        BY <1>1, <3>1, <3>2 DEF Backed
    <2>7. QED
      BY <2>4, <2>6
  <1>6. ASSUME NEW h \in Hub, Pull(h) \/ PullFails(h) \/ Crash(h) PROVE NoteBacked'
    <2>1. /\ pulling' = [pulling EXCEPT ![h] = NoNote]
          /\ UNCHANGED inbox \/ inbox' = [inbox EXCEPT ![h] = <<>>]
      BY <1>6 DEF Pull, PullFails, Crash
    <2>2. \A g \in Hub : pulling'[g] # NoNote => Backed(pulling[g])'
      BY <1>1, <1>2, <2>1 DEF Backed
    <2>3. \A g \in Hub : inbox'[g] = inbox[g] \/ inbox'[g] = <<>>
      BY <2>1
    <2>4. ASSUME NEW g \in Hub, NEW i \in DOMAIN inbox'[g] PROVE Backed(inbox[g][i])'
      <3>1. inbox'[g] = inbox[g]
        BY <2>3
      <3>2. Backed(inbox[g][i]) /\ inbox[g][i] \in Note
        BY <1>2, <3>1
      <3>3. QED
        BY <1>1, <3>1, <3>2 DEF Backed
    <2>5. QED
      BY <2>2, <2>4
  <1>7. ASSUME NEW h \in Hub, NEW c \in Commit, Land(h, c) \/ LeafPush(h, c)
        PROVE  NoteBacked'
    BY <1>3, <1>7 DEF Land, LeafPush
  <1>8. ASSUME NEW h \in Hub, Scan(h) \/ Persist(h) \/ Restart(h) PROVE NoteBacked'
    BY <1>3, <1>8 DEF Scan, Persist, Restart
  <1>9. QED
    BY <1>3, <1>4, <1>5, <1>6, <1>7, <1>8 DEF Next, vars

\* No notification outruns its commit, and none is forgotten by a crash before
\* SetConfig, for any mesh (NoteBacked).
THEOREM NotesAreBacked == Spec => []NoteBacked
  <1>1. Init => NoteBacked
    <2> SUFFICES ASSUME Init, NEW h \in Hub
                 PROVE  /\ \A i \in DOMAIN inbox[h] : Backed(inbox[h][i])
                        /\ pulling[h] # NoNote => Backed(pulling[h])
      BY DEF NoteBacked
    <2>1. inbox[h] = <<>> /\ pulling[h] = NoNote
      BY DEF Init
    <2>2. QED
      BY <2>1
  <1>2. QED
    BY <1>1, InitQueueType, InitHeld, QueueTypeStep, ListHeldStep, NoteBackedStep, PTL
    DEF Spec

-----------------------------------------------------------------------------
\* The pull that ends without a loss copied all that its peer announced.
LEMMA PullStep ==
  ASSUME QueueType, ListHeld, [Next]_vars, NEW h \in Hub,
         pulling[h] # NoNote, pulling'[h] = NoNote, losses' = losses,
         up'[h], up[pulling[h].peer], id[pulling[h].peer] = pulling[h].id
  PROVE  published[pulling[h].peer] \subseteq repo'[h]
  <1> USE DEF QueueType, ListHeld
  <1>1. pulling[h].peer \in Hub
    BY DEF Note
  <1>2. ASSUME NEW g \in Hub, Pull(g)
        PROVE  published[pulling[h].peer] \subseteq repo'[h]
    <2>1. g = h
      BY <1>2 DEF Pull
    <2>2. QED
      BY <1>1, <1>2, <2>1 DEF Pull, Serves
  <1>3. ASSUME NEW g \in Hub, PullFails(g) PROVE FALSE
    <2>1. g = h
      BY <1>3 DEF PullFails
    <2>2. QED
      BY <1>3, <2>1 DEF PullFails, Serves
  <1>4. ASSUME NEW g \in Hub, Receive(g) PROVE FALSE
    BY <1>4 DEF Receive
  <1>5. ASSUME NEW g \in Hub, Crash(g) PROVE FALSE
    <2>1. pulling' = [pulling EXCEPT ![g] = NoNote] /\ up' = [up EXCEPT ![g] = FALSE]
      BY <1>5 DEF Crash
    <2>2. g = h
      BY <2>1
    <2>3. QED
      BY <2>1, <2>2
  <1>6. ASSUME NEW g \in Hub, Publish(g) \/ Scan(g) \/ Persist(g) \/ Restart(g) PROVE FALSE
    BY <1>6 DEF Publish, Scan, Persist, Restart
  <1>7. ASSUME NEW g \in Hub, NEW c \in Commit, Land(g, c) \/ LeafPush(g, c)
        PROVE  FALSE
    BY <1>7 DEF Land, LeafPush
  <1>8. CASE UNCHANGED vars
    BY <1>8 DEF vars
  <1>9. QED
    BY <1>2, <1>3, <1>4, <1>5, <1>6, <1>7, <1>8 DEF Next

\* A pull that is not cut off catches up everything its peer ever announced,
\* for any mesh (PullCatchesUp).
THEOREM PullsCatchUp == Spec => PullCatchesUp
  <1>1. QueueType /\ ListHeld /\ [Next]_vars =>
          [\A h \in Hub :
             (pulling[h] # NoNote /\ pulling'[h] = NoNote /\ losses' = losses
                /\ up'[h] /\ up[pulling[h].peer] /\ id[pulling[h].peer] = pulling[h].id)
             => published[pulling[h].peer] \subseteq repo'[h]]_vars
    BY PullStep
  <1>2. QED
    BY <1>1, InitHeld, InitQueueType, QueueTypeStep, ListHeldStep, PTL
    DEF Spec, PullCatchesUp

-----------------------------------------------------------------------------
\* Every step of the mesh is a step of the replicated set or leaves it alone.
LEMMA StepReplicates ==
  QueueType /\ [Next]_vars => [Abstract!Next]_<<authored, repo>>
  <1> SUFFICES ASSUME QueueType, [Next]_vars
               PROVE  [Abstract!Next]_<<authored, repo>>
    OBVIOUS
  <1> USE DEF QueueType
  <1>1. ASSUME NEW h \in Hub, NEW c \in Commit, Land(h, c) \/ LeafPush(h, c)
        PROVE  Abstract!Author(h, c)
    BY <1>1 DEF Land, LeafPush, Abstract!Author
  <1>2. ASSUME NEW h \in Hub, Pull(h) PROVE \E p \in Hub : Abstract!Copy(h, p)
    BY <1>2 DEF Pull, Abstract!Copy
  <1>3. ASSUME NEW h \in Hub, PullFails(h) PROVE Abstract!Copy(h, pulling[h].peer)
    BY <1>3 DEF PullFails, Abstract!Copy
  <1>4. ASSUME NEW h \in Hub, PullFails(h) PROVE pulling[h].peer \in Hub
    BY <1>4 DEF PullFails, Note
  <1>5. ASSUME NEW h \in Hub,
               \/ Publish(h) \/ Scan(h) \/ Persist(h) \/ Receive(h)
               \/ Crash(h) \/ Restart(h)
        PROVE  UNCHANGED <<authored, repo>>
    BY <1>5 DEF Publish, Scan, Persist, Receive, Crash, Restart, repoVars
  <1>6. CASE UNCHANGED vars
    BY <1>6 DEF vars, repoVars
  <1>7. QED
    BY <1>1, <1>2, <1>3, <1>4, <1>5, <1>6 DEF Next, Abstract!Next

\* The mesh of hubs implements the grow-only replicated set (Replicates).
THEOREM MeshReplicates == Spec => Replicates
  <1>1. Init => Abstract!Init
    BY DEF Init, Abstract!Init
  <1>2. QED
    BY <1>1, InitQueueType, QueueTypeStep, StepReplicates, PTL
    DEF Spec, Replicates, Abstract!Spec
=============================================================================
