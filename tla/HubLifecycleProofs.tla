------------------------- MODULE HubLifecycleProofs -------------------------
(***************************************************************************)
(* The safety properties of a hub's life, for any number of callers of     *)
(* Stop, requests, project-codes and processes.  They rest on one          *)
(* invariant that goes stage by stage: what the process holds follows from *)
(* how far NewHub and then Stop have got, and so does who may still use    *)
(* the repo.                                                               *)
(***************************************************************************)
EXTENDS HubLifecycle, TLAPS

\* The steps of NewHub that acquire a resource or release them all.
AcquireStep ==
    \/ ApplyNobodyCaps \/ Listen \/ StartNATS \/ ConnectClient \/ SubscribeSync

\* The steps of NewHub before the repo is open.
SeedStep == Clone \/ CheckClone \/ OpenRepo \/ CreateRepo

\* The background goroutines.
LoopStep == CatchupFires \/ CatchupEnds \/ CheckpointTick \/ CheckpointEnds

\* ServeHTTP, the signal and the requests.
HttpStep ==
    \/ ServeHTTP \/ ServeReturns \/ Cancel \/ ShutdownOnCancel
    \/ \E r \in Request : RequestArrives(r) \/ RequestEnds(r)

\* The stages of Stop that release something, and those that only wait.
ReleaseStep == ShutdownHTTP \/ CloseNATS \/ CloseRepo
WaitStep == StopCatchup \/ StopCheckpoint \/ CheckpointStopped

\* Every step of the hub is one of these.
LEMMA NextSteps ==
    Next <=> \/ SeedStep \/ AcquireStep \/ SubscribeCommits \/ NewHubReturns
             \/ LoopStep \/ HttpStep \/ ReleaseStep \/ WaitStep
             \/ \E s \in Stopper : CallStop(s) \/ StopReturns(s)
             \/ Restart
BY DEF Next, NewHub, StopBody, SeedStep, AcquireStep, LoopStep, HttpStep, ReleaseStep,
       WaitStep

LEMMA InitIInv == Init => IInv
<1> SUFFICES ASSUME Init PROVE IInv
  OBVIOUS
<1> USE LifecycleAssumption DEF Init
<1>1. BootTypeOK
  <2>1. lives \in 1..MaxLives
    OBVIOUS
  <2>2. open \subseteq Held
    OBVIOUS
  <2> QED
    BY <2>1, <2>2 DEF BootTypeOK, Boot
<1>2. LoopTypeOK /\ HttpTypeOK /\ StopTypeOK
  BY DEF LoopTypeOK, HttpTypeOK, StopTypeOK
<1>3. HoldsByStage
  BY DEF HoldsByStage, Acquired, Boot
<1>4. LoopsByStage /\ HandlersByStage /\ ReturnedWhenDone /\ CheckedCode
  BY DEF LoopsByStage, HandlersByStage, ReturnedWhenDone, CheckedCode, Returned
<1> QED
  BY <1>1, <1>2, <1>3, <1>4 DEF IInv, TypeOK

-----------------------------------------------------------------------------
\* What each group of steps leaves alone.
LEMMA Frames ==
    /\ SeedStep => UNCHANGED <<loopVars, httpVars, stopVars, cfg, upstream, lives>>
    /\ AcquireStep => UNCHANGED <<loopVars, httpVars, stopVars, cfg, upstream, disk, lives>>
    /\ SubscribeCommits \/ NewHubReturns
         => UNCHANGED <<httpVars, stopVars, cfg, upstream, disk, lives>>
    /\ LoopStep => UNCHANGED <<bootVars, httpVars, stopVars>>
    /\ HttpStep => UNCHANGED <<bootVars, loopVars, stopVars>>
    /\ ReleaseStep => UNCHANGED <<loopVars, httpVars, stopper, cfg, upstream, disk, at, lives>>
    /\ WaitStep => UNCHANGED <<bootVars, loopVars, httpVars, stopper, firstErr>>
    /\ \A s \in Stopper : CallStop(s) \/ StopReturns(s)
         => UNCHANGED <<bootVars, loopVars, serve, cancelled, request, firstErr>>
<1> USE DEF bootVars, loopVars, httpVars, stopVars
<1>1. SeedStep => UNCHANGED <<loopVars, httpVars, stopVars, cfg, upstream, lives>>
  BY DEF SeedStep, Clone, CheckClone, OpenRepo, CreateRepo
<1>2. AcquireStep => UNCHANGED <<loopVars, httpVars, stopVars, cfg, upstream, disk, lives>>
  BY DEF AcquireStep, ApplyNobodyCaps, Listen, StartNATS, ConnectClient, SubscribeSync,
         Acquire
<1>3. SubscribeCommits \/ NewHubReturns
         => UNCHANGED <<httpVars, stopVars, cfg, upstream, disk, lives>>
  BY DEF SubscribeCommits, NewHubReturns, Acquire
<1>4. LoopStep => UNCHANGED <<bootVars, httpVars, stopVars>>
  BY DEF LoopStep, CatchupFires, CatchupEnds, CheckpointTick, CheckpointEnds
<1>5. HttpStep => UNCHANGED <<bootVars, loopVars, stopVars>>
  BY DEF HttpStep, ServeHTTP, ServeReturns, Cancel, ShutdownOnCancel, RequestArrives,
         RequestEnds
<1>6. ReleaseStep => UNCHANGED <<loopVars, httpVars, stopper, cfg, upstream, disk, at, lives>>
  BY DEF ReleaseStep, ShutdownHTTP, CloseNATS, CloseRepo
<1>7. WaitStep => UNCHANGED <<bootVars, loopVars, httpVars, stopper, firstErr>>
  BY DEF WaitStep, StopCatchup, StopCheckpoint, CheckpointStopped
<1>8. \A s \in Stopper : CallStop(s) \/ StopReturns(s)
         => UNCHANGED <<bootVars, loopVars, serve, cancelled, request, firstErr>>
  BY DEF CallStop, StopReturns
<1> QED
  BY <1>1, <1>2, <1>3, <1>4, <1>5, <1>6, <1>7, <1>8

LEMMA NextTypeOK == TypeOK /\ [Next]_vars => TypeOK'
<1> SUFFICES ASSUME TypeOK, [Next]_vars PROVE TypeOK'
  OBVIOUS
<1> USE DEF TypeOK
<1>a. UNCHANGED bootVars => BootTypeOK'
  BY DEF bootVars, BootTypeOK
<1>b. UNCHANGED loopVars => LoopTypeOK'
  BY DEF loopVars, LoopTypeOK
<1>c. UNCHANGED httpVars => HttpTypeOK'
  BY DEF httpVars, HttpTypeOK
<1>d. UNCHANGED stopVars => StopTypeOK'
  BY DEF stopVars, StopTypeOK
<1>1. CASE SeedStep
  <2>1. BootTypeOK'
    BY <1>1, Frames DEF BootTypeOK, Config, Boot, Held, SeedStep, Clone, CheckClone, OpenRepo,
       CreateRepo, Opens, OpenFails
  <2> QED
    BY <1>1, <2>1, <1>b, <1>c, <1>d, Frames
<1>2. CASE AcquireStep
  <2>1. BootTypeOK'
    BY <1>2, Frames DEF BootTypeOK, Boot, Held, AcquireStep, ApplyNobodyCaps, Listen,
       StartNATS, ConnectClient, SubscribeSync, Acquire
  <2> QED
    BY <1>2, <2>1, <1>b, <1>c, <1>d, Frames
<1>3. CASE SubscribeCommits \/ NewHubReturns
  <2>1. BootTypeOK'
    BY <1>3, Frames DEF BootTypeOK, Boot, Held, SubscribeCommits, NewHubReturns, Acquire
  <2>2. LoopTypeOK'
    BY <1>3 DEF LoopTypeOK, SubscribeCommits, NewHubReturns
  <2> QED
    BY <1>3, <2>1, <2>2, <1>c, <1>d, Frames
<1>4. CASE LoopStep
  <2>1. LoopTypeOK'
    BY <1>4 DEF LoopTypeOK, LoopStep, CatchupFires, CatchupEnds, CheckpointTick,
       CheckpointEnds
  <2> QED
    BY <1>4, <2>1, <1>a, <1>c, <1>d, Frames
<1>5. CASE HttpStep
  <2>1. HttpTypeOK'
    BY <1>5 DEF HttpTypeOK, HttpStep, ServeHTTP, ServeReturns, Cancel, ShutdownOnCancel,
       RequestArrives, RequestEnds
  <2> QED
    BY <1>5, <2>1, <1>a, <1>b, <1>d, Frames
<1>6. CASE ReleaseStep
  <2>1. BootTypeOK'
    BY <1>6, Frames DEF BootTypeOK, Held, ReleaseStep, ShutdownHTTP, CloseNATS, CloseRepo
  <2>2. StopTypeOK'
    BY <1>6 DEF StopTypeOK, ReleaseStep, ShutdownHTTP, CloseNATS, CloseRepo
  <2> QED
    BY <1>6, <2>1, <2>2, <1>b, <1>c, Frames
<1>7. CASE WaitStep
  <2>1. StopTypeOK'
    BY <1>7 DEF StopTypeOK, WaitStep, StopCatchup, StopCheckpoint, CheckpointStopped
  <2> QED
    BY <1>7, <2>1, <1>a, <1>b, <1>c, Frames
<1>8. ASSUME NEW s \in Stopper, CallStop(s) \/ StopReturns(s) PROVE TypeOK'
  <2>1. StopTypeOK' /\ HttpTypeOK'
    BY <1>8 DEF StopTypeOK, HttpTypeOK, CallStop, StopReturns, httpVars
  <2> QED
    BY <1>8, <2>1, <1>a, <1>b, Frames
<1>9. CASE Restart
  <2>1. BootTypeOK'
    BY <1>9, LifecycleAssumption DEF BootTypeOK, Config, Boot, Restart
  <2>2. LoopTypeOK' /\ HttpTypeOK' /\ StopTypeOK'
    BY <1>9 DEF LoopTypeOK, HttpTypeOK, StopTypeOK, Restart
  <2> QED
    BY <2>1, <2>2
<1>10. CASE UNCHANGED vars
  BY <1>10, <1>a, <1>b, <1>c, <1>d DEF vars
<1> QED
  BY <1>1, <1>2, <1>3, <1>4, <1>5, <1>6, <1>7, <1>8, <1>9, <1>10, NextSteps

-----------------------------------------------------------------------------
\* Every step of NewHub acquires what Acquired lists and every failure
\* releases exactly that; every stage of Stop releases its share.
LEMMA NextHolds == IInv /\ [Next]_vars => HoldsByStage'
<1> SUFFICES ASSUME IInv, [Next]_vars PROVE HoldsByStage'
  OBVIOUS
<1> USE DEF IInv, TypeOK, HoldsByStage, bootVars, loopVars, httpVars, stopVars
<1>a. /\ \A b \in {"down", "cloned", "seeded", "failed", "up"} : Acquired[b] = {}
      /\ Acquired["opened"] = {"repo"} /\ Acquired["tuned"] = {"repo"}
      /\ Acquired["listening"] = {"repo", "listener"}
      /\ Acquired["nats"] = {"repo", "listener", "server"}
      /\ Acquired["connected"] = {"repo", "listener", "server", "client"}
      /\ Acquired["synced"] = Held \ {"commitSub"}
      /\ Acquired["wired"] = Held
  BY DEF Acquired, Boot, Held
<1>1. CASE SeedStep
  BY <1>1, <1>a DEF SeedStep, Clone, CheckClone, OpenRepo, CreateRepo, Opens, OpenFails
<1>2. CASE AcquireStep
  <2>1. CASE ApplyNobodyCaps
    BY <2>1, <1>a DEF ApplyNobodyCaps, Acquire
  <2>2. CASE Listen
    BY <2>2, <1>a DEF Listen, Acquire
  <2>3. CASE StartNATS
    BY <2>3, <1>a DEF StartNATS, Acquire
  <2>4. CASE ConnectClient
    BY <2>4, <1>a DEF ConnectClient, Acquire
  <2>5. CASE SubscribeSync
    BY <2>5, <1>a DEF SubscribeSync, Acquire, Held
  <2> QED
    BY <1>2, <2>1, <2>2, <2>3, <2>4, <2>5 DEF AcquireStep
<1>3. CASE SubscribeCommits \/ NewHubReturns
  BY <1>3, <1>a DEF SubscribeCommits, NewHubReturns, Acquire, Held
<1>4. CASE LoopStep
  BY <1>4 DEF LoopStep, CatchupFires, CatchupEnds, CheckpointTick, CheckpointEnds
<1>5. CASE HttpStep
  BY <1>5 DEF HttpStep, ServeHTTP, ServeReturns, Cancel, ShutdownOnCancel,
              RequestArrives, RequestEnds
<1>6. CASE ReleaseStep
  <2>1. at = "up" /\ at' = "up"
    BY <1>6, Frames DEF ReleaseStep, ShutdownHTTP, CloseNATS, CloseRepo
  <2>2. CASE ShutdownHTTP
    BY <2>1, <2>2 DEF ShutdownHTTP
  <2>3. CASE CloseNATS
    BY <2>1, <2>3 DEF CloseNATS, BootTypeOK, Held
  <2>4. CASE CloseRepo
    BY <2>1, <2>4 DEF CloseRepo
  <2> QED
    BY <1>6, <2>2, <2>3, <2>4 DEF ReleaseStep
<1>7. CASE WaitStep
  BY <1>7 DEF WaitStep, StopCatchup, StopCheckpoint, CheckpointStopped
<1>8. ASSUME NEW s \in Stopper, CallStop(s) \/ StopReturns(s) PROVE HoldsByStage'
  BY <1>8 DEF CallStop, StopReturns
<1>9. CASE Restart
  BY <1>9, <1>a DEF Restart
<1>10. CASE UNCHANGED vars
  BY <1>10 DEF vars
<1> QED
  BY <1>1, <1>2, <1>3, <1>4, <1>5, <1>6, <1>7, <1>8, <1>9, <1>10, NextSteps

\* A goroutine that has ended does not begin again within a process, and Stop
\* leaves a stage only when the goroutine of that stage has ended.
LEMMA NextLoops == IInv /\ [Next]_vars => LoopsByStage'
<1> SUFFICES ASSUME IInv, [Next]_vars PROVE LoopsByStage'
  OBVIOUS
<1> USE DEF IInv, TypeOK, HoldsByStage, LoopsByStage, bootVars, loopVars, httpVars, stopVars
<1>1. CASE SeedStep
  BY <1>1 DEF SeedStep, Clone, CheckClone, OpenRepo, CreateRepo, Opens, OpenFails
<1>2. CASE AcquireStep
  BY <1>2 DEF AcquireStep, ApplyNobodyCaps, Listen, StartNATS, ConnectClient,
              SubscribeSync, Acquire
<1>3. CASE SubscribeCommits \/ NewHubReturns
  BY <1>3 DEF SubscribeCommits, NewHubReturns, Acquire
<1>4. CASE LoopStep
  BY <1>4 DEF LoopStep, CatchupFires, CatchupEnds, CheckpointTick, CheckpointEnds
<1>5. CASE HttpStep
  BY <1>5 DEF HttpStep, ServeHTTP, ServeReturns, Cancel, ShutdownOnCancel,
              RequestArrives, RequestEnds
<1>6. CASE ReleaseStep
  BY <1>6 DEF ReleaseStep, ShutdownHTTP, CloseNATS, CloseRepo
<1>7. CASE WaitStep
  BY <1>7 DEF WaitStep, StopCatchup, StopCheckpoint, CheckpointStopped
<1>8. ASSUME NEW s \in Stopper, CallStop(s) \/ StopReturns(s) PROVE LoopsByStage'
  BY <1>8 DEF CallStop, StopReturns
<1>9. CASE Restart
  BY <1>9 DEF Restart
<1>10. CASE UNCHANGED vars
  BY <1>10 DEF vars
<1> QED
  BY <1>1, <1>2, <1>3, <1>4, <1>5, <1>6, <1>7, <1>8, <1>9, <1>10, NextSteps

\* The server takes no request after Shutdown has begun.
LEMMA NextHandlers == IInv /\ [Next]_vars => HandlersByStage'
<1> SUFFICES ASSUME IInv, [Next]_vars PROVE HandlersByStage'
  OBVIOUS
<1> USE DEF IInv, TypeOK, HandlersByStage, bootVars, loopVars, httpVars, stopVars
<1>1. CASE UNCHANGED <<httpVars, stopVars>>
  BY <1>1
<1>2. CASE HttpStep
  BY <1>2 DEF HttpStep, ServeHTTP, ServeReturns, Cancel, ShutdownOnCancel,
              RequestArrives, RequestEnds
<1>3. CASE ReleaseStep
  BY <1>3 DEF ReleaseStep, ShutdownHTTP, CloseNATS, CloseRepo
<1>4. CASE WaitStep
  BY <1>4 DEF WaitStep, StopCatchup, StopCheckpoint, CheckpointStopped
<1>5. ASSUME NEW s \in Stopper, CallStop(s) \/ StopReturns(s) PROVE HandlersByStage'
  BY <1>5 DEF CallStop, StopReturns
<1>6. CASE Restart
  BY <1>6 DEF Restart
<1>7. SeedStep \/ AcquireStep \/ SubscribeCommits \/ NewHubReturns \/ LoopStep
        => UNCHANGED <<httpVars, stopVars>>
  BY Frames
<1> QED
  BY <1>1, <1>2, <1>3, <1>4, <1>5, <1>6, <1>7, NextSteps DEF vars

\* sync.Once: no caller of Stop returns before the body has run to its end.
LEMMA NextReturned == IInv /\ [Next]_vars => ReturnedWhenDone'
<1> SUFFICES ASSUME IInv, [Next]_vars PROVE ReturnedWhenDone'
  OBVIOUS
<1> USE DEF IInv, TypeOK, ReturnedWhenDone, Returned, bootVars, loopVars, httpVars, stopVars
<1>1. CASE UNCHANGED stopVars
  BY <1>1
<1>2. CASE ReleaseStep
  BY <1>2 DEF ReleaseStep, ShutdownHTTP, CloseNATS, CloseRepo
<1>3. CASE WaitStep
  BY <1>3 DEF WaitStep, StopCatchup, StopCheckpoint, CheckpointStopped
<1>4. ASSUME NEW s \in Stopper, CallStop(s) \/ StopReturns(s) PROVE ReturnedWhenDone'
  BY <1>4 DEF CallStop, StopReturns, StopTypeOK
<1>5. CASE Restart
  BY <1>5 DEF Restart
<1>6. SeedStep \/ AcquireStep \/ SubscribeCommits \/ NewHubReturns \/ LoopStep \/ HttpStep
        => UNCHANGED stopVars
  BY Frames
<1> QED
  BY <1>1, <1>2, <1>3, <1>4, <1>5, <1>6, NextSteps DEF vars

\* The file does not change between the drift check and the end of the process.
LEMMA NextCheckedCode == IInv /\ [Next]_vars => CheckedCode'
<1> SUFFICES ASSUME IInv, [Next]_vars PROVE CheckedCode'
  OBVIOUS
<1> USE DEF IInv, TypeOK, CheckedCode, bootVars, loopVars, httpVars, stopVars
<1>1. CASE UNCHANGED <<cfg, disk, at>>
  BY <1>1
<1>2. CASE SeedStep
  BY <1>2 DEF SeedStep, Clone, CheckClone, OpenRepo, CreateRepo, Opens, OpenFails
<1>3. CASE AcquireStep
  BY <1>3 DEF AcquireStep, ApplyNobodyCaps, Listen, StartNATS, ConnectClient,
              SubscribeSync, Acquire
<1>4. CASE SubscribeCommits \/ NewHubReturns
  BY <1>4 DEF SubscribeCommits, NewHubReturns, Acquire
<1>5. CASE Restart
  BY <1>5 DEF Restart
<1>6. LoopStep \/ HttpStep \/ ReleaseStep \/ WaitStep
        \/ (\E s \in Stopper : CallStop(s) \/ StopReturns(s))
        => UNCHANGED <<cfg, disk, at>>
  BY Frames
<1> QED
  BY <1>1, <1>2, <1>3, <1>4, <1>5, <1>6, NextSteps DEF vars

-----------------------------------------------------------------------------
\* The stage invariant of NewHub and Stop holds in every state a hub process
\* reaches, also after crashes at any point.
THEOREM Staged == Spec => []IInv
<1>1. IInv /\ [Next]_vars => IInv'
  BY NextTypeOK, NextHolds, NextLoops, NextHandlers, NextReturned, NextCheckedCode DEF IInv
<1> QED
  BY InitIInv, <1>1, PTL DEF Spec

\* A NewHub that fails, at whichever step, holds nothing any more (the cleanup
\* sequences of hub.go).
THEOREM NewHubLeaksNothing == Spec => []NoLeak
<1>1. IInv => NoLeak
  BY DEF IInv, HoldsByStage, Acquired, Boot, NoLeak
<1> QED
  BY <1>1, Staged, PTL

\* A hub that is up serves the project its Config names, whatever earlier
\* processes left at the path (clone.go, openOrCreateRepo).
THEOREM ServesRightProject == Spec => []RightProject
<1>1. IInv => RightProject
  BY DEF IInv, CheckedCode, RightProject
<1> QED
  BY <1>1, Staged, PTL

\* Any number of concurrent callers of Hub.Stop: none of them returns before
\* everything is released.
THEOREM StopIsComplete == Spec => []StopComplete
<1>1. IInv => StopComplete
  BY DEF IInv, ReturnedWhenDone, HoldsByStage, StopComplete
<1> QED
  BY <1>1, Staged, PTL

\* Nobody is left to use the repo that Hub.Stop has closed: neither loop, nor
\* a handler that Stop has not reported as an error.
THEOREM ClosedRepoIsUnused == Spec => []RepoUnused
<1>1. IInv => RepoUnused
  BY DEF IInv, TypeOK, HoldsByStage, LoopsByStage, HandlersByStage, RepoUnused
<1> QED
  BY <1>1, Staged, PTL
=============================================================================
