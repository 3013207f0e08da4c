-------------------------- MODULE HubPublishProofs --------------------------
(***************************************************************************)
(* The safety properties of HubPublish for every number of goroutines and  *)
(* every bound.                                                            *)
(***************************************************************************)
EXTENDS HubPublish, TLAPS

\* The values a hub starts from, and returns to when its Repo is gone, are of
\* their types.
LEMMA EmptyTypes ==
  /\ <<>> \in Seq(Rid)
  /\ [c \in Caller |-> "idle"] \in [Caller -> PC]
  /\ [c \in Caller |-> {}] \in [Caller -> SUBSET Rid]
  <1>1. <<>> \in Seq(Rid)
    OBVIOUS
  <1>2. [c \in Caller |-> "idle"] \in [Caller -> PC]
    BY DEF PC
  <1>3. [c \in Caller |-> {}] \in [Caller -> SUBSET Rid]
    OBVIOUS
  <1>4. QED
    BY <1>1, <1>2, <1>3

\* The initial state of an empty repo satisfies the invariant.
LEMMA InitIInv == Init => IInv
  <1> SUFFICES ASSUME Init PROVE IInv
    OBVIOUS
  <1> USE DEF Init
  <1>1. TypeOK
    <2>1. stage \in Stage /\ wired \in BOOLEAN
      BY DEF Stage
    <2>2. starts \in 0..MaxStarts /\ faults \in 0..MaxFaults
      BY BoundAssumption
    <2>3. QED
      BY <2>1, <2>2, EmptyTypes DEF TypeOK
  <1>2. MutualExclusion
    BY DEF MutualExclusion, HoldsLock
  <1>3. WatermarkIsEvent
    BY DEF WatermarkIsEvent
  <1>4. ListComplete
    BY DEF ListComplete
  <1>5. LogBelowWatermark /\ InRidOrder
    BY DEF LogBelowWatermark, InRidOrder
  <1>6. DownIsEmpty /\ WatermarkSettled /\ NoLostCommit
    BY DEF DownIsEmpty, WatermarkSettled, NoLostCommit
  <1>7. QED
    BY <1>1, <1>2, <1>3, <1>4, <1>5, <1>6 DEF IInv

\* Losing the Repo keeps the types.
LEMMA ForgetType == TypeOK /\ Forget => TypeOK'
  <1> SUFFICES ASSUME TypeOK, Forget PROVE TypeOK'
    OBVIOUS
  <1>1. stage' \in Stage /\ wired' \in BOOLEAN
    BY DEF Forget, Stage
  <1>2. /\ sessionLog' \in Seq(Rid)
        /\ pc' \in [Caller -> PC]
        /\ newRIDs' \in [Caller -> SUBSET Rid]
    BY EmptyTypes DEF Forget
  <1>3. QED
    BY <1>1, <1>2 DEF TypeOK, Forget, repoVars

\* Every action keeps the variables in their types.
LEMMA TypeStep == TypeOK /\ [Next]_vars => TypeOK'
  <1> SUFFICES ASSUME TypeOK, [Next]_vars PROVE TypeOK'
    OBVIOUS
  <1> USE CallerAssumption, BoundAssumption DEF TypeOK, Rid, Caller, Stage, PC
  <1>1. ASSUME NEW c \in Committer, Commit(c) PROVE TypeOK'
    BY <1>1 DEF Commit, Land, hubVars
  <1>2. ASSUME NEW c \in Pusher, Push(c) PROVE TypeOK'
    BY <1>2 DEF Push, PushBegin, PushLand, PushReturn, Receives, Land, hubVars, repoVars, scanVars, obsVars
  <1>3. ASSUME NEW c \in Caller, PublishNewCommits(c) PROVE TypeOK'
    <2>1. CASE Acquire(c)
      <3>1. PICK v \in {"holding", "idle"} : pc' = [pc EXCEPT ![c] = v]
        BY <2>1 DEF Acquire
      <3>2. pc' \in [Caller -> PC]
        BY <3>1
      <3>3. QED
        BY <2>1, <3>2 DEF Acquire, hubVars, repoVars, obsVars
    <2>2. CASE Scan(c)
      BY <2>2 DEF Scan, NewRIDs, hubVars, repoVars, obsVars
    <2>3. CASE ScanFails(c)
      <3>1. NewRIDs \subseteq Rid
        BY DEF NewRIDs
      <3>2. QED
        BY <2>3, <3>1 DEF ScanFails, Faults, hubVars, repoVars
    <2>4. CASE Emit(c)
      BY <2>4 DEF Emit, hubVars, repoVars
    <2>5. CASE SkipRid(c)
      BY <2>5 DEF SkipRid, Faults, hubVars, repoVars
    <2>6. CASE Persist(c)
      BY <2>6 DEF Persist, Faults, hubVars, obsVars
    <2>7. CASE Release(c)
      BY <2>7 DEF Release, hubVars, repoVars, obsVars
    <2>8. QED
      BY <1>3, <2>1, <2>2, <2>3, <2>4, <2>5, <2>6, <2>7 DEF PublishNewCommits
  <1>4. CASE NatsLand
    BY <1>4 DEF NatsLand, Receives, Land, hubVars, scanVars
  <1>5. CASE OfflineCommit
    BY <1>5 DEF OfflineCommit, Receives, Land, hubVars, scanVars
  <1>6. CASE Phantom
    BY <1>6 DEF Phantom, hubVars, scanVars, obsVars
  <1>7. CASE Start
    <2>1. wired' \in BOOLEAN /\ stage' \in Stage
      BY <1>7 DEF Start
    <2>2. pc' \in [Caller -> PC]
      BY <1>7 DEF Start
    <2>3. starts' \in 0..MaxStarts
      BY <1>7 DEF Start
    <2>4. ReadFaults \in {0, 1}
      BY DEF ReadFaults
    <2>5. /\ diskRID' \in {NoRow, 0} \cup Rid
          /\ publishedRID' \in {0} \cup Rid
          /\ faults' \in 0..MaxFaults
          /\ grandfathered' \subseteq Rid
      <3>1. CASE WarmStart
        BY <3>1 DEF WarmStart, Faults
      <3>2. CASE Snapshot
        <4>1. faults' \in 0..MaxFaults
          BY <2>4, <3>2 DEF Snapshot, Faults
        <4>2. publishedRID' \in {0} \cup Rid /\ diskRID' \in {NoRow, 0} \cup Rid
          BY <3>2 DEF Snapshot
        <4>3. grandfathered' \subseteq Rid
          BY <3>2 DEF Snapshot
        <4>4. QED
          BY <4>1, <4>2, <4>3
      <3>3. CASE SnapshotFails
        BY <2>4, <3>3 DEF SnapshotFails, Faults
      <3>4. QED
        BY <1>7, <3>1, <3>2, <3>3 DEF Start
    <2>6. QED
      BY <1>7, <2>1, <2>2, <2>3, <2>5 DEF Start
  <1>8. CASE StartUnwired
    BY <1>8 DEF StartUnwired, repoVars, scanVars, obsVars
  <1>9. CASE CatchupFires
    BY <1>9 DEF CatchupFires, hubVars, repoVars, obsVars
  <1>10. CASE Stop
    <2>1. CASE StopHTTP \/ StopNATS
      BY <2>1 DEF StopHTTP, StopNATS, repoVars, scanVars, obsVars
    <2>2. CASE StopCatchup
      BY <2>2 DEF StopCatchup, repoVars, obsVars
    <2>3. CASE CloseRepo
      BY <2>3, ForgetType DEF CloseRepo
    <2>4. QED
      BY <1>10, <2>1, <2>2, <2>3 DEF Stop
  <1>11. CASE Crash
    BY <1>11, ForgetType DEF Crash
  <1>12. CASE UNCHANGED vars
    BY <1>12 DEF vars, hubVars, repoVars, scanVars, obsVars
  <1>13. QED
    BY <1>1, <1>2, <1>3, <1>4, <1>5, <1>7, <1>8, <1>9, <1>10, <1>11, <1>12, <1>6 DEF Next

\* The specification keeps every variable in its type, for any set of
\* goroutines and any bounds (HubPublish!TypeOK).
THEOREM TypeCorrect == Spec => []TypeOK
  <1>1. Init => TypeOK
    BY InitIInv DEF IInv
  <1>2. QED
    BY <1>1, TypeStep, PTL DEF Spec
-----------------------------------------------------------------------------
\* A goroutine gets the lock only through Acquire, when nobody holds it.
LEMMA MutexStep == IInv /\ [Next]_vars => MutualExclusion'
  <1> SUFFICES ASSUME IInv, [Next]_vars PROVE MutualExclusion'
    OBVIOUS
  <1> USE CallerAssumption, BoundAssumption DEF IInv, TypeOK, MutualExclusion, HoldsLock, Caller
  <1>1. ASSUME NEW c \in Committer, Commit(c) PROVE MutualExclusion'
    BY <1>1 DEF Commit, Land, hubVars
  <1>2. ASSUME NEW c \in Pusher, PushBegin(c) PROVE MutualExclusion'
    BY <1>2 DEF PushBegin, hubVars, repoVars, obsVars
  <1>3. ASSUME NEW c \in Pusher, PushLand(c) PROVE MutualExclusion'
    BY <1>3 DEF PushLand, Receives, Land, hubVars, scanVars
  <1>4. ASSUME NEW c \in Pusher, PushReturn(c) PROVE MutualExclusion'
    BY <1>4 DEF PushReturn, hubVars, repoVars, obsVars
  <1>5. ASSUME NEW c \in Caller, Acquire(c) PROVE MutualExclusion'
    BY <1>5 DEF Acquire, hubVars, repoVars, obsVars
  <1>6. ASSUME NEW c \in Caller, Scan(c) PROVE MutualExclusion'
    BY <1>6 DEF Scan, NewRIDs, hubVars, repoVars, obsVars
  <1>7. ASSUME NEW c \in Caller, ScanFails(c) PROVE MutualExclusion'
    BY <1>7 DEF ScanFails, NewRIDs, hubVars, repoVars
  <1>8. ASSUME NEW c \in Caller, Emit(c) PROVE MutualExclusion'
    BY <1>8 DEF Emit, IsNext, hubVars, repoVars
  <1>9. ASSUME NEW c \in Caller, SkipRid(c) PROVE MutualExclusion'
    BY <1>9 DEF SkipRid, IsNext, hubVars, repoVars
  <1>10. ASSUME NEW c \in Caller, Persist(c) PROVE MutualExclusion'
    BY <1>10 DEF Persist, hubVars, obsVars
  <1>11. ASSUME NEW c \in Caller, Release(c) PROVE MutualExclusion'
    BY <1>11 DEF Release, hubVars, repoVars, obsVars
  <1>12. CASE NatsLand
    BY <1>12 DEF NatsLand, Receives, Land, hubVars, scanVars
  <1>13. CASE OfflineCommit
    BY <1>13 DEF OfflineCommit, Receives, Land, hubVars, scanVars
  <1>14. CASE Phantom
    BY <1>14 DEF Phantom, hubVars, scanVars, obsVars
  <1>15. CASE Start
    BY <1>15 DEF Start, WarmStart, Snapshot, SnapshotFails, IsMaxRid
  <1>16. CASE StartUnwired
    BY <1>16 DEF StartUnwired, repoVars, scanVars, obsVars
  <1>17. CASE CatchupFires
    BY <1>17 DEF CatchupFires, hubVars, repoVars, obsVars
  <1>18. CASE StopHTTP \/ StopNATS
    BY <1>18 DEF StopHTTP, StopNATS, repoVars, scanVars, obsVars
  <1>19. CASE StopCatchup
    BY <1>19 DEF StopCatchup, repoVars, obsVars
  <1>20. CASE CloseRepo \/ Crash
    BY <1>20 DEF CloseRepo, Crash, Forget, repoVars
  <1>21. CASE UNCHANGED vars
    BY <1>21 DEF vars, hubVars, repoVars, scanVars, obsVars
  <1>22. QED
    BY <1>1, <1>2, <1>3, <1>4, <1>5, <1>6, <1>7, <1>8, <1>9, <1>10, <1>11, <1>12, <1>13, <1>15, <1>16, <1>17, <1>18, <1>19, <1>20, <1>21, <1>14
    DEF Next, Push, PublishNewCommits, Stop

\* The watermarks move only to rids of the event table, which only grows.
LEMMA EventStep == IInv /\ [Next]_vars => WatermarkIsEvent'
  <1> SUFFICES ASSUME IInv, [Next]_vars PROVE WatermarkIsEvent'
    OBVIOUS
  <1> USE CallerAssumption, BoundAssumption DEF IInv, TypeOK, WatermarkIsEvent, NoRow, Rid
  <1>1. ASSUME NEW c \in Committer, Commit(c) PROVE WatermarkIsEvent'
    BY <1>1 DEF Commit, Land, hubVars
  <1>2. ASSUME NEW c \in Pusher, PushBegin(c) PROVE WatermarkIsEvent'
    BY <1>2 DEF PushBegin, hubVars, repoVars, obsVars
  <1>3. ASSUME NEW c \in Pusher, PushLand(c) PROVE WatermarkIsEvent'
    BY <1>3 DEF PushLand, Receives, Land, hubVars, scanVars
  <1>4. ASSUME NEW c \in Pusher, PushReturn(c) PROVE WatermarkIsEvent'
    BY <1>4 DEF PushReturn, hubVars, repoVars, obsVars
  <1>5. ASSUME NEW c \in Caller, Acquire(c) PROVE WatermarkIsEvent'
    BY <1>5 DEF Acquire, hubVars, repoVars, obsVars
  <1>6. ASSUME NEW c \in Caller, Scan(c) PROVE WatermarkIsEvent'
    BY <1>6 DEF Scan, NewRIDs, hubVars, repoVars, obsVars
  <1>7. ASSUME NEW c \in Caller, ScanFails(c) PROVE WatermarkIsEvent'
    BY <1>7 DEF ScanFails, NewRIDs, hubVars, repoVars
  <1>8. ASSUME NEW c \in Caller, Emit(c) PROVE WatermarkIsEvent'
    BY <1>8 DEF Emit, ListComplete, hubVars, repoVars
  <1>9. ASSUME NEW c \in Caller, SkipRid(c) PROVE WatermarkIsEvent'
    BY <1>9 DEF SkipRid, IsNext, hubVars, repoVars
  <1>10. ASSUME NEW c \in Caller, Persist(c) PROVE WatermarkIsEvent'
    BY <1>10 DEF Persist, hubVars, obsVars
  <1>11. ASSUME NEW c \in Caller, Release(c) PROVE WatermarkIsEvent'
    BY <1>11 DEF Release, hubVars, repoVars, obsVars
  <1>12. CASE NatsLand
    BY <1>12 DEF NatsLand, Receives, Land, hubVars, scanVars
  <1>13. CASE OfflineCommit
    BY <1>13 DEF OfflineCommit, Receives, Land, hubVars, scanVars
  <1>14. CASE Phantom
    BY <1>14 DEF Phantom, hubVars, scanVars, obsVars
  <1>15. CASE Start
    BY <1>15 DEF Start, WarmStart, Snapshot, SnapshotFails, IsMaxRid
  <1>16. CASE StartUnwired
    BY <1>16 DEF StartUnwired, repoVars, scanVars, obsVars
  <1>17. CASE CatchupFires
    BY <1>17 DEF CatchupFires, hubVars, repoVars, obsVars
  <1>18. CASE StopHTTP \/ StopNATS
    BY <1>18 DEF StopHTTP, StopNATS, repoVars, scanVars, obsVars
  <1>19. CASE StopCatchup
    BY <1>19 DEF StopCatchup, repoVars, obsVars
  <1>20. CASE CloseRepo \/ Crash
    BY <1>20 DEF CloseRepo, Crash, Forget, repoVars
  <1>21. CASE UNCHANGED vars
    BY <1>21 DEF vars, hubVars, repoVars, scanVars, obsVars
  <1>22. QED
    BY <1>1, <1>2, <1>3, <1>4, <1>5, <1>6, <1>7, <1>8, <1>9, <1>10, <1>11, <1>12, <1>13, <1>15, <1>16, <1>17, <1>18, <1>19, <1>20, <1>21, <1>14
    DEF Next, Push, PublishNewCommits, Stop

\* A scan takes every event above the watermark, a landing commit lies above
\* every list or is late, and a rid leaves a list only when it is settled.
LEMMA ListStep == IInv /\ [Next]_vars => ListComplete'
  <1> SUFFICES ASSUME IInv, [Next]_vars PROVE ListComplete'
    OBVIOUS
  <1> USE CallerAssumption, BoundAssumption DEF IInv, TypeOK, MutualExclusion, HoldsLock, WatermarkIsEvent, WatermarkSettled, DownIsEmpty, ListComplete, Settled, NewRid, Land, Receives, Overtaken, Caller, Rid
  <1>1. ASSUME NEW c \in Committer, Commit(c) PROVE ListComplete'
    BY <1>1 DEF Commit, Land, hubVars
  <1>2. ASSUME NEW c \in Pusher, PushBegin(c) PROVE ListComplete'
    BY <1>2 DEF PushBegin, hubVars, repoVars, obsVars
  <1>3. ASSUME NEW c \in Pusher, PushLand(c) PROVE ListComplete'
    BY <1>3 DEF PushLand, Receives, Land, hubVars, scanVars
  <1>4. ASSUME NEW c \in Pusher, PushReturn(c) PROVE ListComplete'
    BY <1>4 DEF PushReturn, hubVars, repoVars, obsVars
  <1>5. ASSUME NEW c \in Caller, Acquire(c) PROVE ListComplete'
    BY <1>5 DEF Acquire, hubVars, repoVars, obsVars
  <1>6. ASSUME NEW c \in Caller, Scan(c) PROVE ListComplete'
    BY <1>6 DEF Scan, NewRIDs, hubVars, repoVars, obsVars
  <1>7. ASSUME NEW c \in Caller, ScanFails(c) PROVE ListComplete'
    BY <1>7 DEF ScanFails, NewRIDs, hubVars, repoVars
  <1>8. ASSUME NEW c \in Caller, Emit(c) PROVE ListComplete'
    BY <1>8 DEF Emit, IsNext, hubVars, repoVars
  <1>9. ASSUME NEW c \in Caller, SkipRid(c) PROVE ListComplete'
    BY <1>9 DEF SkipRid, IsNext, hubVars, repoVars
  <1>10. ASSUME NEW c \in Caller, Persist(c) PROVE ListComplete'
    BY <1>10 DEF Persist, hubVars, obsVars
  <1>11. ASSUME NEW c \in Caller, Release(c) PROVE ListComplete'
    BY <1>11 DEF Release, hubVars, repoVars, obsVars
  <1>12. CASE NatsLand
    BY <1>12 DEF NatsLand, Receives, Land, hubVars, scanVars
  <1>13. CASE OfflineCommit
    BY <1>13 DEF OfflineCommit, Receives, Land, hubVars, scanVars
  <1>14. CASE Phantom
    BY <1>14 DEF Phantom, hubVars, scanVars, obsVars
  <1>15. CASE Start
    BY <1>15 DEF Start, WarmStart, Snapshot, SnapshotFails, IsMaxRid
  <1>16. CASE StartUnwired
    BY <1>16 DEF StartUnwired, repoVars, scanVars, obsVars
  <1>17. CASE CatchupFires
    BY <1>17 DEF CatchupFires, hubVars, repoVars, obsVars
  <1>18. CASE StopHTTP \/ StopNATS
    <2>1. UNCHANGED <<events, pc, newRIDs, publishedRID, handed, skipped,
                     grandfathered, late>>
      BY <1>18 DEF StopHTTP, StopNATS, repoVars, scanVars, obsVars
    <2>2. QED
      BY <2>1
  <1>19. CASE StopCatchup
    BY <1>19 DEF StopCatchup, repoVars, obsVars
  <1>20. CASE CloseRepo \/ Crash
    BY <1>20 DEF CloseRepo, Crash, Forget, repoVars
  <1>21. CASE UNCHANGED vars
    BY <1>21 DEF vars, hubVars, repoVars, scanVars, obsVars
  <1>22. QED
    BY <1>1, <1>2, <1>3, <1>4, <1>5, <1>6, <1>7, <1>8, <1>9, <1>10, <1>11, <1>12, <1>13, <1>15, <1>16, <1>17, <1>18, <1>19, <1>20, <1>21, <1>14
    DEF Next, Push, PublishNewCommits, Stop

\* A list lies above the watermark, which bounds the log: the next rid is the
\* largest so far.
LEMMA LogStep == IInv /\ [Next]_vars => (LogBelowWatermark /\ InRidOrder)'
  <1> SUFFICES ASSUME IInv, [Next]_vars PROVE (LogBelowWatermark /\ InRidOrder)'
    OBVIOUS
  <1> USE CallerAssumption, BoundAssumption DEF IInv, TypeOK, LogBelowWatermark, InRidOrder, DownIsEmpty, ListComplete, Rid
  <1>1. ASSUME NEW c \in Committer, Commit(c) PROVE (LogBelowWatermark /\ InRidOrder)'
    BY <1>1 DEF Commit, Land, hubVars
  <1>2. ASSUME NEW c \in Pusher, PushBegin(c) PROVE (LogBelowWatermark /\ InRidOrder)'
    BY <1>2 DEF PushBegin, hubVars, repoVars, obsVars
  <1>3. ASSUME NEW c \in Pusher, PushLand(c) PROVE (LogBelowWatermark /\ InRidOrder)'
    BY <1>3 DEF PushLand, Receives, Land, hubVars, scanVars
  <1>4. ASSUME NEW c \in Pusher, PushReturn(c) PROVE (LogBelowWatermark /\ InRidOrder)'
    BY <1>4 DEF PushReturn, hubVars, repoVars, obsVars
  <1>5. ASSUME NEW c \in Caller, Acquire(c) PROVE (LogBelowWatermark /\ InRidOrder)'
    BY <1>5 DEF Acquire, hubVars, repoVars, obsVars
  <1>6. ASSUME NEW c \in Caller, Scan(c) PROVE (LogBelowWatermark /\ InRidOrder)'
    BY <1>6 DEF Scan, NewRIDs, hubVars, repoVars, obsVars
  <1>7. ASSUME NEW c \in Caller, ScanFails(c) PROVE (LogBelowWatermark /\ InRidOrder)'
    BY <1>7 DEF ScanFails, NewRIDs, hubVars, repoVars
  <1>8. ASSUME NEW c \in Caller, Emit(c) PROVE (LogBelowWatermark /\ InRidOrder)'
    <2>1. PICK r \in newRIDs[c] : publishedRID' = r /\ sessionLog' = Append(sessionLog, r)
      BY <1>8 DEF Emit
    <2>2. r \in Nat /\ r > publishedRID /\ publishedRID \in Nat
      BY <1>8 DEF Emit
    <2>3. \A i \in DOMAIN sessionLog : sessionLog[i] \in Nat /\ sessionLog[i] < r
      BY <2>2
    <2>4. LogBelowWatermark'
      BY <2>1, <2>2, <2>3
    <2>5. InRidOrder'
      BY <2>1, <2>2, <2>3
    <2>6. QED
      BY <2>4, <2>5
  <1>9. ASSUME NEW c \in Caller, SkipRid(c) PROVE (LogBelowWatermark /\ InRidOrder)'
    BY <1>9 DEF SkipRid, IsNext, hubVars, repoVars
  <1>10. ASSUME NEW c \in Caller, Persist(c) PROVE (LogBelowWatermark /\ InRidOrder)'
    BY <1>10 DEF Persist, hubVars, obsVars
  <1>11. ASSUME NEW c \in Caller, Release(c) PROVE (LogBelowWatermark /\ InRidOrder)'
    BY <1>11 DEF Release, hubVars, repoVars, obsVars
  <1>12. CASE NatsLand
    BY <1>12 DEF NatsLand, Receives, Land, hubVars, scanVars
  <1>13. CASE OfflineCommit
    BY <1>13 DEF OfflineCommit, Receives, Land, hubVars, scanVars
  <1>14. CASE Phantom
    BY <1>14 DEF Phantom, hubVars, scanVars, obsVars
  <1>15. CASE Start
    BY <1>15 DEF Start, WarmStart, Snapshot, SnapshotFails, IsMaxRid
  <1>16. CASE StartUnwired
    BY <1>16 DEF StartUnwired, repoVars, scanVars, obsVars
  <1>17. CASE CatchupFires
    BY <1>17 DEF CatchupFires, hubVars, repoVars, obsVars
  <1>18. CASE StopHTTP \/ StopNATS
    BY <1>18 DEF StopHTTP, StopNATS, repoVars, scanVars, obsVars
  <1>19. CASE StopCatchup
    BY <1>19 DEF StopCatchup, repoVars, obsVars
  <1>20. CASE CloseRepo \/ Crash
    BY <1>20 DEF CloseRepo, Crash, Forget, repoVars
  <1>21. CASE UNCHANGED vars
    BY <1>21 DEF vars, hubVars, repoVars, scanVars, obsVars
  <1>22. QED
    BY <1>1, <1>2, <1>3, <1>4, <1>5, <1>6, <1>7, <1>8, <1>9, <1>10, <1>11, <1>12, <1>13, <1>15, <1>16, <1>17, <1>18, <1>19, <1>20, <1>21, <1>14
    DEF Next, Push, PublishNewCommits, Stop

\* Only Start leaves the down stage, and every way back to it is Forget.
LEMMA DownStep == IInv /\ [Next]_vars => DownIsEmpty'
  <1> SUFFICES ASSUME IInv, [Next]_vars PROVE DownIsEmpty'
    OBVIOUS
  <1> USE CallerAssumption, BoundAssumption DEF IInv, TypeOK, DownIsEmpty
  <1>1. ASSUME NEW c \in Committer, Commit(c) PROVE DownIsEmpty'
    BY <1>1 DEF Commit, Land, hubVars
  <1>2. ASSUME NEW c \in Pusher, PushBegin(c) PROVE DownIsEmpty'
    BY <1>2 DEF PushBegin, hubVars, repoVars, obsVars
  <1>3. ASSUME NEW c \in Pusher, PushLand(c) PROVE DownIsEmpty'
    BY <1>3 DEF PushLand, Receives, Land, hubVars, scanVars
  <1>4. ASSUME NEW c \in Pusher, PushReturn(c) PROVE DownIsEmpty'
    BY <1>4 DEF PushReturn, hubVars, repoVars, obsVars
  <1>5. ASSUME NEW c \in Caller, Acquire(c) PROVE DownIsEmpty'
    BY <1>5 DEF Acquire, hubVars, repoVars, obsVars
  <1>6. ASSUME NEW c \in Caller, Scan(c) PROVE DownIsEmpty'
    BY <1>6 DEF Scan, NewRIDs, hubVars, repoVars, obsVars
  <1>7. ASSUME NEW c \in Caller, ScanFails(c) PROVE DownIsEmpty'
    BY <1>7 DEF ScanFails, NewRIDs, hubVars, repoVars
  <1>8. ASSUME NEW c \in Caller, Emit(c) PROVE DownIsEmpty'
    BY <1>8 DEF Emit, IsNext, hubVars, repoVars
  <1>9. ASSUME NEW c \in Caller, SkipRid(c) PROVE DownIsEmpty'
    BY <1>9 DEF SkipRid, IsNext, hubVars, repoVars
  <1>10. ASSUME NEW c \in Caller, Persist(c) PROVE DownIsEmpty'
    BY <1>10 DEF Persist, hubVars, obsVars
  <1>11. ASSUME NEW c \in Caller, Release(c) PROVE DownIsEmpty'
    BY <1>11 DEF Release, hubVars, repoVars, obsVars
  <1>12. CASE NatsLand
    BY <1>12 DEF NatsLand, Receives, Land, hubVars, scanVars
  <1>13. CASE OfflineCommit
    BY <1>13 DEF OfflineCommit, Receives, Land, hubVars, scanVars
  <1>14. CASE Phantom
    BY <1>14 DEF Phantom, hubVars, scanVars, obsVars
  <1>15. CASE Start
    BY <1>15 DEF Start, WarmStart, Snapshot, SnapshotFails, IsMaxRid
  <1>16. CASE StartUnwired
    BY <1>16 DEF StartUnwired, repoVars, scanVars, obsVars
  <1>17. CASE CatchupFires
    BY <1>17 DEF CatchupFires, hubVars, repoVars, obsVars
  <1>18. CASE StopHTTP \/ StopNATS
    BY <1>18 DEF StopHTTP, StopNATS, repoVars, scanVars, obsVars
  <1>19. CASE StopCatchup
    BY <1>19 DEF StopCatchup, repoVars, obsVars
  <1>20. CASE CloseRepo \/ Crash
    BY <1>20 DEF CloseRepo, Crash, Forget, repoVars
  <1>21. CASE UNCHANGED vars
    BY <1>21 DEF vars, hubVars, repoVars, scanVars, obsVars
  <1>22. QED
    BY <1>1, <1>2, <1>3, <1>4, <1>5, <1>6, <1>7, <1>8, <1>9, <1>10, <1>11, <1>12, <1>13, <1>15, <1>16, <1>17, <1>18, <1>19, <1>20, <1>21, <1>14
    DEF Next, Push, PublishNewCommits, Stop

\* The watermark moves to the least rid of a complete list, to the disk value,
\* to a snapshot that settles everything, or to 0.
LEMMA SettledStep == IInv /\ [Next]_vars => WatermarkSettled'
  <1> SUFFICES ASSUME IInv, [Next]_vars PROVE WatermarkSettled'
    OBVIOUS
  <1> USE CallerAssumption, BoundAssumption DEF IInv, TypeOK, WatermarkIsEvent, ListComplete, WatermarkSettled, Settled, NewRid, Land, Receives, Overtaken, Rid, NoRow
  <1>1. ASSUME NEW c \in Committer, Commit(c) PROVE WatermarkSettled'
    BY <1>1 DEF Commit, Land, hubVars
  <1>2. ASSUME NEW c \in Pusher, PushBegin(c) PROVE WatermarkSettled'
    BY <1>2 DEF PushBegin, hubVars, repoVars, obsVars
  <1>3. ASSUME NEW c \in Pusher, PushLand(c) PROVE WatermarkSettled'
    BY <1>3 DEF PushLand, Receives, Land, hubVars, scanVars
  <1>4. ASSUME NEW c \in Pusher, PushReturn(c) PROVE WatermarkSettled'
    BY <1>4 DEF PushReturn, hubVars, repoVars, obsVars
  <1>5. ASSUME NEW c \in Caller, Acquire(c) PROVE WatermarkSettled'
    BY <1>5 DEF Acquire, hubVars, repoVars, obsVars
  <1>6. ASSUME NEW c \in Caller, Scan(c) PROVE WatermarkSettled'
    BY <1>6 DEF Scan, NewRIDs, hubVars, repoVars, obsVars
  <1>7. ASSUME NEW c \in Caller, ScanFails(c) PROVE WatermarkSettled'
    BY <1>7 DEF ScanFails, NewRIDs, hubVars, repoVars
  <1>8. ASSUME NEW c \in Caller, Emit(c) PROVE WatermarkSettled'
    BY <1>8 DEF Emit, IsNext, hubVars, repoVars
  <1>9. ASSUME NEW c \in Caller, SkipRid(c) PROVE WatermarkSettled'
    BY <1>9 DEF SkipRid, IsNext, hubVars, repoVars
  <1>10. ASSUME NEW c \in Caller, Persist(c) PROVE WatermarkSettled'
    BY <1>10 DEF Persist, hubVars, obsVars
  <1>11. ASSUME NEW c \in Caller, Release(c) PROVE WatermarkSettled'
    BY <1>11 DEF Release, hubVars, repoVars, obsVars
  <1>12. CASE NatsLand
    BY <1>12 DEF NatsLand, Receives, Land, hubVars, scanVars
  <1>13. CASE OfflineCommit
    BY <1>13 DEF OfflineCommit, Receives, Land, hubVars, scanVars
  <1>14. CASE Phantom
    BY <1>14 DEF Phantom, hubVars, scanVars, obsVars
  <1>15. CASE Start
    BY <1>15 DEF Start, WarmStart, Snapshot, SnapshotFails, IsMaxRid
  <1>16. CASE StartUnwired
    BY <1>16 DEF StartUnwired, repoVars, scanVars, obsVars
  <1>17. CASE CatchupFires
    BY <1>17 DEF CatchupFires, hubVars, repoVars, obsVars
  <1>18. CASE StopHTTP \/ StopNATS
    BY <1>18 DEF StopHTTP, StopNATS, repoVars, scanVars, obsVars
  <1>19. CASE StopCatchup
    BY <1>19 DEF StopCatchup, repoVars, obsVars
  <1>20. CASE CloseRepo \/ Crash
    <2>1. publishedRID' = 0 /\ UNCHANGED <<events, diskRID, handed, skipped,
                                           grandfathered, late>>
      BY <1>20 DEF CloseRepo, Crash, Forget, repoVars
    <2>2. QED
      BY <2>1
  <1>21. CASE UNCHANGED vars
    BY <1>21 DEF vars, hubVars, repoVars, scanVars, obsVars
  <1>22. QED
    BY <1>1, <1>2, <1>3, <1>4, <1>5, <1>6, <1>7, <1>8, <1>9, <1>10, <1>11, <1>12, <1>13, <1>15, <1>16, <1>17, <1>18, <1>19, <1>20, <1>21, <1>14
    DEF Next, Push, PublishNewCommits, Stop

\* A commit lands together with a goroutine that will scan, and the scan
\* takes over every unsettled commit because it is late or lies above the
\* watermark.
LEMMA LostStep == IInv /\ [Next]_vars => NoLostCommit'
  <1> SUFFICES ASSUME IInv, [Next]_vars PROVE NoLostCommit'
    OBVIOUS
  <1> USE CallerAssumption, BoundAssumption DEF IInv, TypeOK, NoLostCommit, WatermarkIsEvent, WatermarkSettled, DownIsEmpty, Settled, HoldsLock, NewRid, Land, Receives, Overtaken, Caller, Rid
  <1>1. ASSUME NEW c \in Committer, Commit(c) PROVE NoLostCommit'
    BY <1>1 DEF Commit, Land, hubVars
  <1>2. ASSUME NEW c \in Pusher, PushBegin(c) PROVE NoLostCommit'
    BY <1>2 DEF PushBegin, hubVars, repoVars, obsVars
  <1>3. ASSUME NEW c \in Pusher, PushLand(c) PROVE NoLostCommit'
    BY <1>3 DEF PushLand, Receives, Land, hubVars, scanVars
  <1>4. ASSUME NEW c \in Pusher, PushReturn(c) PROVE NoLostCommit'
    BY <1>4 DEF PushReturn, hubVars, repoVars, obsVars
  <1>5. ASSUME NEW c \in Caller, Acquire(c) PROVE NoLostCommit'
    BY <1>5 DEF Acquire, hubVars, repoVars, obsVars
  <1>6. ASSUME NEW c \in Caller, Scan(c) PROVE NoLostCommit'
    BY <1>6 DEF Scan, NewRIDs, hubVars, repoVars, obsVars
  <1>7. ASSUME NEW c \in Caller, ScanFails(c) PROVE NoLostCommit'
    BY <1>7 DEF ScanFails, NewRIDs, hubVars, repoVars
  <1>8. ASSUME NEW c \in Caller, Emit(c) PROVE NoLostCommit'
    <2>1. PICK r \in newRIDs[c] :
            /\ newRIDs' = [newRIDs EXCEPT ![c] = @ \ {r}]
            /\ handed' = handed \cup {r}
      BY <1>8 DEF Emit
    <2>2. /\ pc[c] = "emitting"
          /\ pc' = [pc EXCEPT ![c] = "persisting"]
          /\ UNCHANGED <<stage, wired, skipped, grandfathered, missed, owed, late>>
      BY <1>8 DEF Emit, hubVars
    <2>3. QED
      BY <2>1, <2>2
  <1>9. ASSUME NEW c \in Caller, SkipRid(c) PROVE NoLostCommit'
    BY <1>9 DEF SkipRid, IsNext, hubVars, repoVars
  <1>10. ASSUME NEW c \in Caller, Persist(c) PROVE NoLostCommit'
    BY <1>10 DEF Persist, hubVars, obsVars
  <1>11. ASSUME NEW c \in Caller, Release(c) PROVE NoLostCommit'
    BY <1>11 DEF Release, hubVars, repoVars, obsVars
  <1>12. CASE NatsLand
    BY <1>12 DEF NatsLand, Receives, Land, hubVars, scanVars
  <1>13. CASE OfflineCommit
    BY <1>13 DEF OfflineCommit, Receives, Land, hubVars, scanVars
  <1>14. CASE Phantom
    BY <1>14 DEF Phantom, hubVars, scanVars, obsVars
  <1>15. CASE Start
    BY <1>15 DEF Start, WarmStart, Snapshot, SnapshotFails, IsMaxRid
  <1>16. CASE StartUnwired
    BY <1>16 DEF StartUnwired, repoVars, scanVars, obsVars
  <1>17. CASE CatchupFires
    BY <1>17 DEF CatchupFires, hubVars, repoVars, obsVars
  <1>18. CASE StopHTTP \/ StopNATS
    BY <1>18 DEF StopHTTP, StopNATS, repoVars, scanVars, obsVars
  <1>19. CASE StopCatchup
    BY <1>19 DEF StopCatchup, repoVars, obsVars
  <1>20. CASE CloseRepo \/ Crash
    BY <1>20 DEF CloseRepo, Crash, Forget, repoVars
  <1>21. CASE UNCHANGED vars
    BY <1>21 DEF vars, hubVars, repoVars, scanVars, obsVars
  <1>22. QED
    BY <1>1, <1>2, <1>3, <1>4, <1>5, <1>6, <1>7, <1>8, <1>9, <1>10, <1>11, <1>12, <1>13, <1>15, <1>16, <1>17, <1>18, <1>19, <1>20, <1>21, <1>14
    DEF Next, Push, PublishNewCommits, Stop

-----------------------------------------------------------------------------
\* The inductive invariant holds in every reachable state.
THEOREM Invariance == Spec => []IInv
  <1>1. IInv /\ [Next]_vars => IInv'
    <2> SUFFICES ASSUME IInv, [Next]_vars PROVE IInv'
      OBVIOUS
    <2>1. TypeOK'
      BY TypeStep DEF IInv
    <2>2. QED
      BY <2>1, MutexStep, EventStep, ListStep, LogStep, DownStep, SettledStep, LostStep
      DEF IInv
  <1>2. QED
    BY <1>1, InitIInv, PTL DEF Spec

\* In one hub session the publish hook sees rids in rising order and none of
\* them twice, however many goroutines call publishNewCommits.
THEOREM OrderedPublish == Spec => []InRidOrder
  <1>1. IInv => InRidOrder
    BY DEF IInv
  <1>2. QED
    BY <1>1, Invariance, PTL

\* No crash, failing database call, stop or restart lets a watermark pass a
\* commit that was neither handed to the hook, nor snapshotted, nor unreadable,
\* nor a phantom whose content came too late for every scan.
THEOREM CrashSafeWatermark == Spec => []WatermarkSettled
  <1>1. IInv => WatermarkSettled
    BY DEF IInv
  <1>2. QED
    BY <1>1, Invariance, PTL

\* Every commit of a scanned path that is still to be announced, and was not
\* overtaken as a phantom, has a goroutine that will announce it.
THEOREM NoCommitLost == Spec => []NoLostCommit
  <1>1. IInv => NoLostCommit
    BY DEF IInv
  <1>2. QED
    BY <1>1, Invariance, PTL
=============================================================================
