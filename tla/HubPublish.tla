----------------------------- MODULE HubPublish -----------------------------
(***************************************************************************)
(* One hub daemon and the .commit notifications it owes its peers          *)
(* (hub/repo.go, hub/hub.go).                                              *)
(*                                                                         *)
(* Every commit that lands in the hub's fossil repo gets a check-in event  *)
(* with a rid.  publishNewCommits scans the events above the watermark     *)
(* publishedRID, hands each one to the publish hook, moves the watermark   *)
(* and writes it to the repo's config table.  Repo.Commit, the HTTP xfer   *)
(* wrapper and the startup catchup all call it, from goroutines of their   *)
(* own; the hub can crash between any two of its steps, be stopped while   *)
(* it runs, and be started again on the same repo file.                    *)
(*                                                                         *)
(* libfossil is external: a blob takes the next free rid, so a commit made *)
(* here lies above every other (gaps are the rids of file blobs); a blob   *)
(* that a sync session names before its content arrives, or that waits for *)
(* its baseline, takes its rid then and gets its check-in event later; and *)
(* each database call may fail.                                            *)
(***************************************************************************)
EXTENDS Integers, Sequences

CONSTANTS
  Committer,   \* goroutines that call Repo.Commit
  Pusher,      \* HTTP connections that reach the xfer wrapper
  Catchup,     \* the goroutine startPublishCatchup starts
  MaxRid,      \* bound on the rids the repo hands out
  MaxFaults,   \* bound on failing database calls
  MaxStarts    \* bound on NewHub calls on this repo

ASSUME CallerAssumption ==
  /\ Committer \cap Pusher = {}
  /\ Catchup \notin Committer \cup Pusher

ASSUME BoundAssumption ==
  /\ MaxRid \in Nat
  /\ MaxFaults \in Nat
  /\ MaxStarts \in Nat

VARIABLES
  stage,          \* where the hub process is between NewHub and the end of Stop
  wired,          \* the publish hook is set (DisableFossilSyncOverNATS is false)
  events,         \* rids of the 'ci' rows of the event table
  phantoms,       \* rids of check-ins known by name, their events still to come
  diskRID,        \* config row edgesync:hub-published-rid
  publishedRID,   \* Repo.publishedRID
  pc,             \* where each caller is
  newRIDs,        \* publishNewCommits' local list, as a set (ORDER BY objid)
  starts,         \* NewHub calls so far
  faults          \* database calls that failed so far

(***************************************************************************)
(* Observer variables: they record what happened to each rid and no        *)
(* action's guard reads them.                                              *)
(***************************************************************************)
VARIABLES
  sessionLog,     \* rids given to the publish hook since NewHub, in order
  handed,         \* rids ever given to the publish hook
  onWire,         \* rids given to it while the NATS client was open
  skipped,        \* rids UUIDFromRID failed for
  grandfathered,  \* rids a max-rid snapshot declared known to peers
  missed,         \* rids whose event-table scan failed
  owed,           \* rids landed by a path that is followed by a scan
  late            \* phantoms filled when a watermark or a list had overtaken them

hubVars == <<stage, wired, starts>>
repoVars == <<events, phantoms, diskRID>>
scanVars == <<publishedRID, pc, newRIDs>>
obsVars == <<sessionLog, handed, onWire, skipped, grandfathered, missed, owed,
             late>>
vars == <<hubVars, repoVars, scanVars, faults, obsVars>>

Rid == 1..MaxRid
NoRow == -1
Caller == Committer \cup Pusher \cup {Catchup}

Stage == {"down", "up", "httpStopped", "natsClosed", "catchupStopped"}
PC == {"idle", "delay", "serving", "waiting", "holding", "emitting", "persisting"}
HoldsLock(c) == pc[c] \in {"holding", "emitting", "persisting"}

\* What became of a rid that the watermark may pass.
Settled == handed \cup skipped \cup grandfathered

TypeOK ==
  /\ stage \in Stage
  /\ wired \in BOOLEAN
  /\ starts \in 0..MaxStarts
  /\ events \subseteq Rid
  /\ phantoms \subseteq Rid
  /\ diskRID \in {NoRow, 0} \cup Rid
  /\ publishedRID \in {0} \cup Rid
  /\ pc \in [Caller -> PC]
  /\ newRIDs \in [Caller -> SUBSET Rid]
  /\ faults \in 0..MaxFaults
  /\ sessionLog \in Seq(Rid)
  /\ handed \subseteq Rid
  /\ onWire \subseteq Rid
  /\ skipped \subseteq Rid
  /\ grandfathered \subseteq Rid
  /\ missed \subseteq Rid
  /\ owed \subseteq Rid
  /\ late \subseteq Rid

Init ==
  /\ stage = "down"
  /\ wired = FALSE
  /\ starts = 0
  /\ events = {}
  /\ phantoms = {}
  /\ diskRID = NoRow
  /\ publishedRID = 0
  /\ pc = [c \in Caller |-> "idle"]
  /\ newRIDs = [c \in Caller |-> {}]
  /\ faults = 0
  /\ sessionLog = <<>>
  /\ handed = {}
  /\ onWire = {}
  /\ skipped = {}
  /\ grandfathered = {}
  /\ missed = {}
  /\ owed = {}
  /\ late = {}

-----------------------------------------------------------------------------
(* Commits landing in the repo *)

\* The rid of a blob nobody has named before.
NewRid(r) == \A e \in events \cup phantoms : e < r

\* A watermark has passed r, or will when the list of a running scan is done.
Overtaken(r) ==
  \/ r <= publishedRID \/ r <= diskRID
  \/ \E c \in Caller : \E q \in newRIDs[c] : r < q

\* r gets its row in the event table.
Land(r) ==
  /\ events' = events \cup {r}
  /\ phantoms' = phantoms \ {r}
  /\ late' = IF Overtaken(r) THEN late \cup {r} ELSE late

\* A sync session brings a new check-in or the content of a phantom.
Receives(r) == (NewRid(r) \/ r \in phantoms) /\ Land(r)

\* A sync session, of a running hub or of an offline tool, names a check-in
\* whose content has not come: a cluster member, or a delta manifest without
\* its baseline.
Phantom ==
  /\ \E r \in Rid : NewRid(r) /\ phantoms' = phantoms \cup {r}
  /\ UNCHANGED <<hubVars, events, diskRID, scanVars, faults, obsVars>>

\* n database calls of this step fail.
Faults(n) == faults + n <= MaxFaults /\ faults' = faults + n

\* An offline tool, or the seeding clone, writes the repo file of a hub that
\* is not running.
OfflineCommit ==
  /\ stage = "down"
  /\ \E r \in Rid : Receives(r) /\ owed' = owed \cup {r}
  /\ UNCHANGED <<hubVars, diskRID, scanVars, faults, sessionLog, handed, onWire,
                 skipped, grandfathered, missed>>

\* Repo.Commit up to the return of handle.Commit; a failing handle.Commit
\* returns its error and changes nothing.
Commit(c) ==
  /\ stage # "down"
  /\ pc[c] = "idle"
  /\ \E r \in Rid :
       /\ NewRid(r)
       /\ Land(r)
       /\ owed' = owed \cup {r}
  /\ pc' = [pc EXCEPT ![c] = "waiting"]
  /\ UNCHANGED <<hubVars, diskRID, publishedRID, newRIDs, faults, sessionLog,
                 handed, onWire, skipped, grandfathered, missed>>

\* The HTTP wrapper: xfer.ServeHTTP lands any number of commits (none for a
\* pull or a clone) and returns to the call of publishNewCommits.
PushBegin(c) ==
  /\ stage = "up"
  /\ pc[c] = "idle"
  /\ pc' = [pc EXCEPT ![c] = "serving"]
  /\ UNCHANGED <<hubVars, repoVars, publishedRID, newRIDs, faults, obsVars>>

PushLand(c) ==
  /\ stage # "down"
  /\ pc[c] = "serving"
  /\ \E r \in Rid : Receives(r) /\ owed' = owed \cup {r}
  /\ UNCHANGED <<hubVars, diskRID, scanVars, faults, sessionLog, handed, onWire,
                 skipped, grandfathered, missed>>

\* Fault: the xfer handler mounted without the wrapper, as before issue #160.
PushReturnUnwrapped(c) ==
  /\ stage # "down"
  /\ pc[c] = "serving"
  /\ pc' = [pc EXCEPT ![c] = "idle"]
  /\ UNCHANGED <<hubVars, repoVars, publishedRID, newRIDs, faults, obsVars>>

PushReturn(c) ==
  /\ stage # "down"
  /\ pc[c] = "serving"
  /\ pc' = [pc EXCEPT ![c] = "waiting"]
  /\ UNCHANGED <<hubVars, repoVars, publishedRID, newRIDs, faults, obsVars>>

\* The .sync handler (HandleSync) and the pull of the .commit subscriber
\* write the repo and return without a scan.
NatsLand ==
  /\ stage # "down"
  /\ wired
  /\ \E r \in Rid : Receives(r)
  /\ UNCHANGED <<hubVars, diskRID, scanVars, faults, sessionLog, handed, onWire,
                 skipped, grandfathered, missed, owed>>

-----------------------------------------------------------------------------
(* publishNewCommits *)

\* Fault: publishNewCommits without publishMu.
AcquireUnlocked(c) ==
  /\ stage # "down"
  /\ pc[c] = "waiting"
  /\ pc' = [pc EXCEPT ![c] = IF wired THEN "holding" ELSE "idle"]
  /\ UNCHANGED <<hubVars, repoVars, publishedRID, newRIDs, faults, obsVars>>

\* publishMu.Lock(), then the early return of a repo without a hook.
Acquire(c) ==
  /\ stage # "down"
  /\ pc[c] = "waiting"
  /\ \A d \in Caller : ~HoldsLock(d)
  /\ pc' = [pc EXCEPT ![c] = IF wired THEN "holding" ELSE "idle"]
  /\ UNCHANGED <<hubVars, repoVars, publishedRID, newRIDs, faults, obsVars>>

\* SELECT objid ... WHERE objid > publishedRID ORDER BY objid.
NewRIDs == {e \in events : e > publishedRID}

Scan(c) ==
  /\ stage # "down"
  /\ pc[c] = "holding"
  /\ newRIDs' = [newRIDs EXCEPT ![c] = NewRIDs]
  /\ pc' = [pc EXCEPT ![c] = "emitting"]
  /\ UNCHANGED <<hubVars, repoVars, publishedRID, faults, obsVars>>

\* Query, Scan or rows.Err fails: return with the watermark where it was.
ScanFails(c) ==
  /\ stage # "down"
  /\ pc[c] = "holding"
  /\ Faults(1)
  /\ pc' = [pc EXCEPT ![c] = "idle"]
  /\ missed' = missed \cup NewRIDs
  /\ UNCHANGED <<hubVars, repoVars, publishedRID, newRIDs, sessionLog, handed,
                 onWire, skipped, grandfathered, owed, late>>

\* Fault: ORDER BY objid DESC.
IsNextDescending(c, r) == r \in newRIDs[c] /\ \A q \in newRIDs[c] : r >= q

IsNext(c, r) == r \in newRIDs[c] /\ \A q \in newRIDs[c] : r <= q

NatsOpen == wired /\ stage \in {"up", "httpStopped"}

\* r.publish(rid, uuid); r.publishedRID = rid.  The hook's errors are only
\* logged, so a closed NATS client still moves the watermark.
Emit(c) ==
  /\ stage # "down"
  /\ pc[c] = "emitting"
  /\ \E r \in newRIDs[c] :
       /\ IsNext(c, r)
       /\ newRIDs' = [newRIDs EXCEPT ![c] = @ \ {r}]
       /\ publishedRID' = r
       /\ sessionLog' = Append(sessionLog, r)
       /\ handed' = handed \cup {r}
       /\ onWire' = IF NatsOpen THEN onWire \cup {r} ELSE onWire
  /\ pc' = [pc EXCEPT ![c] = "persisting"]
  /\ UNCHANGED <<hubVars, repoVars, faults, skipped, grandfathered, missed, owed,
                 late>>

\* UUIDFromRID fails: log and continue with the next rid.
SkipRid(c) ==
  /\ stage # "down"
  /\ pc[c] = "emitting"
  /\ Faults(1)
  /\ \E r \in newRIDs[c] :
       /\ IsNext(c, r)
       /\ newRIDs' = [newRIDs EXCEPT ![c] = @ \ {r}]
       /\ skipped' = skipped \cup {r}
  /\ UNCHANGED <<hubVars, repoVars, publishedRID, pc, sessionLog, handed, onWire,
                 grandfathered, missed, owed, late>>

\* SetConfig(publishedRIDConfigKey, rid); its failure is only logged.
Persist(c) ==
  /\ stage # "down"
  /\ pc[c] = "persisting"
  /\ \/ diskRID' = publishedRID /\ Faults(0)
     \/ diskRID' = diskRID /\ Faults(1)
  /\ pc' = [pc EXCEPT ![c] = "emitting"]
  /\ UNCHANGED <<hubVars, events, phantoms, publishedRID, newRIDs, obsVars>>

Release(c) ==
  /\ stage # "down"
  /\ pc[c] = "emitting"
  /\ newRIDs[c] = {}
  /\ pc' = [pc EXCEPT ![c] = "idle"]
  /\ UNCHANGED <<hubVars, repoVars, publishedRID, newRIDs, faults, obsVars>>

-----------------------------------------------------------------------------
(* NewHub, the catchup, Stop and crashes *)

\* SELECT COALESCE(MAX(objid), 0) FROM event WHERE type='ci'.
IsMaxRid(m) == m \in events \cup {0} /\ \A e \in events : e <= m

\* initPublishWatermark: the persisted value when it can be read, else a
\* snapshot of the largest rid; a failing snapshot leaves the zero value.
WarmStart ==
  /\ diskRID # NoRow
  /\ Faults(0)
  /\ publishedRID' = diskRID
  /\ UNCHANGED <<diskRID, grandfathered>>

\* Only a failing read falls back when there is a row.
ReadFaults == IF diskRID = NoRow THEN 0 ELSE 1

Snapshot ==
  \E m \in {0} \cup Rid :
    /\ IsMaxRid(m)
    /\ publishedRID' = m
    /\ grandfathered' = grandfathered \cup (events \ Settled)
    /\ \/ diskRID' = m /\ Faults(ReadFaults)
       \/ diskRID' = diskRID /\ Faults(ReadFaults + 1)

SnapshotFails ==
  /\ Faults(ReadFaults + 1)
  /\ publishedRID' = 0
  /\ UNCHANGED <<diskRID, grandfathered>>

\* NewHub with FossilSyncOverNATS: hook, watermark, delayed catchup.
Start ==
  /\ stage = "down"
  /\ starts < MaxStarts
  /\ starts' = starts + 1
  /\ stage' = "up"
  /\ wired' = TRUE
  /\ WarmStart \/ Snapshot \/ SnapshotFails
  /\ pc' = [pc EXCEPT ![Catchup] = "delay"]
  /\ UNCHANGED <<events, phantoms, newRIDs, sessionLog, handed, onWire, skipped,
                 missed, owed, late>>

\* NewHub with Config.DisableFossilSyncOverNATS.
StartUnwired ==
  /\ stage = "down"
  /\ starts < MaxStarts
  /\ starts' = starts + 1
  /\ stage' = "up"
  /\ UNCHANGED <<wired, repoVars, scanVars, faults, obsVars>>

\* Fault: the catchup's select waits for Stop and not for its timer.
CatchupFiresOnStop ==
  /\ stage \in {"httpStopped", "natsClosed"}
  /\ pc[Catchup] = "delay"
  /\ pc' = [pc EXCEPT ![Catchup] = "waiting"]
  /\ UNCHANGED <<hubVars, repoVars, publishedRID, newRIDs, faults, obsVars>>

\* publishCatchupDelay elapses before catchupStop is closed.
CatchupFires ==
  /\ stage \in {"up", "httpStopped", "natsClosed"}
  /\ pc[Catchup] = "delay"
  /\ pc' = [pc EXCEPT ![Catchup] = "waiting"]
  /\ UNCHANGED <<hubVars, repoVars, publishedRID, newRIDs, faults, obsVars>>

\* Stop: HTTP first (Shutdown waits for handlers, but only 5 s), then the
\* NATS client and server, then the catchup, then the repo.
StopHTTP ==
  /\ stage = "up"
  /\ stage' = "httpStopped"
  /\ UNCHANGED <<wired, starts, repoVars, scanVars, faults, obsVars>>

StopNATS ==
  /\ stage = "httpStopped"
  /\ stage' = "natsClosed"
  /\ UNCHANGED <<wired, starts, repoVars, scanVars, faults, obsVars>>

StopCatchup ==
  /\ stage = "natsClosed"
  /\ pc[Catchup] \in {"idle", "delay"}
  /\ stage' = "catchupStopped"
  /\ pc' = [pc EXCEPT ![Catchup] = "idle"]
  /\ UNCHANGED <<wired, starts, repoVars, publishedRID, newRIDs, faults, obsVars>>

\* The Repo is gone: nothing a goroutine still does reaches the file.
Forget ==
  /\ stage' = "down"
  /\ wired' = FALSE
  /\ publishedRID' = 0
  /\ pc' = [c \in Caller |-> "idle"]
  /\ newRIDs' = [c \in Caller |-> {}]
  /\ sessionLog' = <<>>
  /\ UNCHANGED <<starts, repoVars, faults, handed, onWire, skipped, grandfathered,
                 missed, owed, late>>

CloseRepo == stage = "catchupStopped" /\ Forget

Crash == stage # "down" /\ Forget

-----------------------------------------------------------------------------
PublishNewCommits(c) ==
  \/ Acquire(c)
  \/ Scan(c)
  \/ ScanFails(c)
  \/ Emit(c)
  \/ SkipRid(c)
  \/ Persist(c)
  \/ Release(c)

Push(c) == PushBegin(c) \/ PushLand(c) \/ PushReturn(c)

Stop == StopHTTP \/ StopNATS \/ StopCatchup \/ CloseRepo

Next ==
  \/ \E c \in Committer : Commit(c)
  \/ \E c \in Pusher : Push(c)
  \/ \E c \in Caller : PublishNewCommits(c)
  \/ NatsLand
  \/ Phantom
  \/ OfflineCommit
  \/ Start
  \/ StartUnwired
  \/ CatchupFires
  \/ Stop
  \/ Crash

Spec == Init /\ [][Next]_vars

(***************************************************************************)
(* A goroutine in publishNewCommits keeps running, sync.Mutex hands itself *)
(* to a starving waiter, an HTTP handler returns and the catchup's timer   *)
(* fires.  Nobody has to commit, push, stop or restart anything.           *)
(***************************************************************************)
Fairness ==
  /\ \A c \in Caller :
       /\ SF_vars(Acquire(c))
       /\ WF_vars(Scan(c) \/ ScanFails(c))
       /\ WF_vars(Emit(c) \/ SkipRid(c))
       /\ WF_vars(Persist(c))
       /\ WF_vars(Release(c))
  /\ \A c \in Pusher : WF_vars(PushReturn(c))
  /\ WF_vars(CatchupFires)

FairSpec == Spec /\ Fairness

-----------------------------------------------------------------------------
(* Properties *)

\* Within one hub session the publish hook gets every rid at most once and in
\* rising order, whichever goroutines run publishNewCommits ("in rid order",
\* "concurrent callers cannot republish the same rid").
InRidOrder ==
  \A i, j \in DOMAIN sessionLog : i < j => sessionLog[i] < sessionLog[j]

\* Crash safety of the watermark: a commit at or below the watermark in
\* memory or on disk was handed to the hook in some session, or a snapshot
\* declared it known, or its uuid lookup failed, or it is a phantom whose
\* content came when it was already overtaken.  So neither the interleavings
\* of publishNewCommits nor a restart that resumes from the disk value pass
\* over a commit that was in the event table and still to be announced.
WatermarkSettled ==
  \A e \in events :
    e <= publishedRID \/ e <= diskRID => e \in Settled \cup late

\* No wake-up is lost: while a wired hub runs, a commit that landed through
\* Repo.Commit, an HTTP push or an offline tool and is not settled has a
\* goroutine ahead of it that will scan the event table or holds the rid in
\* its list; the only exceptions are a commit whose scan failed, a phantom
\* filled when it was overtaken, and the last stage of Stop, which has
\* cancelled the catchup.
NoLostCommit ==
  wired /\ stage # "catchupStopped" =>
    \A e \in owed \ (Settled \cup missed \cup late) :
      \E c \in Caller :
        \/ pc[c] \in {"delay", "serving", "waiting", "holding"}
        \/ HoldsLock(c) /\ e \in newRIDs[c]

\* A hub that stays up announces every commit that landed by a scanned path,
\* however it was interrupted before: publishNewCommits' callers and the
\* startup catchup together leave no backlog but overtaken phantoms.
BacklogDrains ==
  \A r \in Rid :
    <>[](stage = "up" /\ wired) =>
      [](r \in owed => <>(r \in Settled \cup missed \cup late))

-----------------------------------------------------------------------------
(***************************************************************************)
(* The inductive invariant behind the safety properties.                   *)
(***************************************************************************)

\* publishMu: one goroutine at a time is inside publishNewCommits.
MutualExclusion ==
  \A c, d \in Caller : HoldsLock(c) /\ HoldsLock(d) => c = d

\* Both watermarks name a check-in event or nothing.
WatermarkIsEvent ==
  /\ publishedRID \in events \cup {0}
  /\ diskRID \in events \cup {0, NoRow}
  /\ owed \subseteq events

\* A list lies above the watermark and leaves out no unsettled event below
\* one of its rids that was not late, so moving the watermark along it passes over nothing.
ListComplete ==
  \A c \in Caller :
    /\ newRIDs[c] \subseteq events
    /\ pc[c] \notin {"emitting", "persisting"} => newRIDs[c] = {}
    /\ \A r \in newRIDs[c] :
         /\ r > publishedRID
         /\ \A e \in events \ (Settled \cup late) : e < r => e \in newRIDs[c]

\* The session log ends at or below the watermark.
LogBelowWatermark == \A i \in DOMAIN sessionLog : sessionLog[i] <= publishedRID

\* A hub that is down has no goroutines.
DownIsEmpty ==
  stage = "down" =>
    /\ ~wired
    /\ sessionLog = <<>>
    /\ \A c \in Caller : pc[c] = "idle"

IInv ==
  /\ TypeOK
  /\ MutualExclusion
  /\ WatermarkIsEvent
  /\ ListComplete
  /\ LogBelowWatermark
  /\ DownIsEmpty
  /\ InRidOrder
  /\ WatermarkSettled
  /\ NoLostCommit
=============================================================================
