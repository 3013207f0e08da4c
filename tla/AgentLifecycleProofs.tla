------------------------ MODULE AgentLifecycleProofs ------------------------
(***************************************************************************)
(* The safety properties of a leaf agent and its sidecars, for any number  *)
(* of processes on one repo.  The invariant goes stage by stage: what is   *)
(* open, whether the poll loop runs, whether the context is cancelled and  *)
(* whether a sidecar may be alive follow from how far New, Start and Stop  *)
(* have got.                                                               *)
(***************************************************************************)
EXTENDS AgentLifecycle, TLAPS

NewStep == CloneRepo \/ NewOpens \/ NewConfigures

\* Start, up to the running poll loop.
StartStep ==
    \/ SpawnSidecar \/ WaitReady \/ WaitReadyTimesOut \/ StartNATSMesh \/ StartLoop

SidecarStep == \E l \in Life : SidecarBinds(l) \/ SidecarExits(l)

\* The poll loop, SyncNow and the signals that do not stop the agent.
PollStep ==
    \/ SyncNow \/ TimerFires \/ TakeSyncNow \/ CycleStalls \/ CycleEnds \/ LoopExits
    \/ \E sig \in {"usr1", "term"} : Signal(sig)
    \/ HandleUsr1

\* The first step of Stop.
CancelStep == HandleTerm \/ StopCancels

CloseStep == \E s \in Server : ServerCloses(s)

\* Every step of the agent is one of these.
LEMMA NextSteps ==
    Next <=> \/ NewStep \/ StartStep \/ SidecarStep \/ PollStep \/ CloseStep \/ Monitor
             \/ CancelStep \/ StopStep \/ NextProcess
BY DEF Next, NewStep, StartStep, SidecarStep, PollStep, CancelStep, CloseStep

\* What each group of steps leaves alone.
LEMMA Frames ==
    /\ NewStep => UNCHANGED <<agentVars, cancelled, loop, proc, socket, answeredBy, monitor>>
    /\ StartStep => UNCHANGED agentVars
    /\ SidecarStep => UNCHANGED <<agentVars, at, held, cancelled, loop, answeredBy, monitor>>
    /\ PollStep => UNCHANGED <<iroh, host, life, at, held, cancelled, proc, socket,
                               answeredBy, monitor>>
    /\ CloseStep => UNCHANGED <<agentVars, at, cancelled, loop, proc, socket, answeredBy,
                                monitor>>
    /\ Monitor => UNCHANGED <<agentVars, at, held, cancelled, loop, proc, socket, answeredBy>>
    /\ CancelStep => UNCHANGED <<iroh, host, life, held, loop, syncNow, owed, proc, socket,
                                 answeredBy, monitor>>
    /\ StopStep => UNCHANGED <<agentVars, cancelled, loop, answeredBy, monitor>>
<1> USE DEF agentVars
<1>1. NewStep => UNCHANGED <<agentVars, cancelled, loop, proc, socket, answeredBy, monitor>>
  BY DEF NewStep, CloneRepo, NewOpens, NewConfigures
<1>2. StartStep => UNCHANGED agentVars
  BY DEF StartStep, SpawnSidecar, WaitReady, WaitReadyTimesOut, StartNATSMesh, StartLoop
<1>3. SidecarStep => UNCHANGED <<agentVars, at, held, cancelled, loop, answeredBy, monitor>>
  BY DEF SidecarStep, SidecarBinds, SidecarExits
<1>4. PollStep => UNCHANGED <<iroh, host, life, at, held, cancelled, proc, socket,
                              answeredBy, monitor>>
  BY DEF PollStep, SyncNow, TimerFires, TakeSyncNow, CycleStalls, CycleEnds, LoopExits, Signal,
         HandleUsr1
<1>5. CloseStep => UNCHANGED <<agentVars, at, cancelled, loop, proc, socket, answeredBy,
                               monitor>>
  BY DEF CloseStep, ServerCloses
<1>6. Monitor => UNCHANGED <<agentVars, at, held, cancelled, loop, proc, socket, answeredBy>>
  BY DEF Monitor
<1>7. CancelStep => UNCHANGED <<iroh, host, life, held, loop, syncNow, owed, proc, socket,
                                answeredBy, monitor>>
  BY DEF CancelStep, HandleTerm, StopCancels
<1>8. StopStep => UNCHANGED <<agentVars, cancelled, loop, answeredBy, monitor>>
  BY DEF StopStep, LoopAwaited, NoSidecar, PostShutdown, ExitSeen, Terminate, Kill, CloseAll
<1> QED
  BY <1>1, <1>2, <1>3, <1>4, <1>5, <1>6, <1>7, <1>8

-----------------------------------------------------------------------------
LEMMA InitIInv == Init => IInv
<1> SUFFICES ASSUME Init PROVE IInv
  OBVIOUS
<1>a. 1 \in Life /\ 0 \in 0..MaxLives /\ 0 \in 0..SyncNowCap
  BY LivesAssumption DEF Life, SyncNowCap
<1> USE DEF Init
<1>1. HostTypeOK
  BY <1>a DEF HostTypeOK
<1>2. StageTypeOK
  BY DEF StageTypeOK, Stage
<1>3. SidecarTypeOK
  BY <1>a DEF SidecarTypeOK
<1>4. HeldByStage /\ LoopByStage /\ CancelledByStage /\ FailedSpawnReaped
  BY DEF HeldByStage, LoopByStage, CancelledByStage, FailedSpawnReaped, StopStages
<1>5. SidecarByStage
  BY <1>a DEF SidecarByStage, NewStages
<1> QED
  BY <1>1, <1>2, <1>3, <1>4, <1>5 DEF IInv, TypeOK

-----------------------------------------------------------------------------
LEMMA NextTypeOK == TypeOK /\ [Next]_vars => TypeOK'
<1> SUFFICES ASSUME TypeOK, [Next]_vars PROVE TypeOK'
  OBVIOUS
<1> USE LivesAssumption DEF TypeOK
<1>a. UNCHANGED agentVars => HostTypeOK'
  BY DEF agentVars, HostTypeOK
<1>b. UNCHANGED <<at, held, cancelled, loop, monitor>> => StageTypeOK'
  BY DEF StageTypeOK
<1>c. UNCHANGED <<proc, socket, answeredBy>> => SidecarTypeOK'
  BY DEF SidecarTypeOK
<1>1. CASE NewStep
  <2>1. StageTypeOK'
    BY <1>1 DEF StageTypeOK, Stage, Resource, NewStep, CloneRepo, NewOpens, NewConfigures
  <2> QED
    BY <1>1, <2>1, <1>a, <1>c, Frames
<1>2. CASE StartStep
  <2>1. StageTypeOK'
    <3> USE DEF StageTypeOK, Stage, Resource, Server
    <3>1. CASE SpawnSidecar
      BY <3>1 DEF SpawnSidecar
    <3>2. CASE WaitReady \/ WaitReadyTimesOut
      BY <3>2 DEF WaitReady, WaitReadyTimesOut
    <3>3. CASE StartNATSMesh
      BY <3>3 DEF StartNATSMesh
    <3>4. CASE StartLoop
      BY <3>4 DEF StartLoop, Optional, HostTypeOK, Host
    <3> QED
      BY <1>2, <3>1, <3>2, <3>3, <3>4 DEF StartStep
  <2>2. SidecarTypeOK'
    BY <1>2 DEF SidecarTypeOK, StartStep, SpawnSidecar, WaitReady, WaitReadyTimesOut,
       StartNATSMesh, StartLoop
  <2> QED
    BY <1>2, <2>1, <2>2, <1>a, Frames
<1>3. CASE SidecarStep
  <2>1. SidecarTypeOK'
    BY <1>3, Frames DEF SidecarTypeOK, SidecarStep, SidecarBinds, SidecarExits, Life
  <2> QED
    BY <1>3, <2>1, <1>a, <1>b, Frames
<1>4. CASE PollStep
  <2>1. HostTypeOK'
    <3>a. 0 \in 0..SyncNowCap /\ \A n \in 0..SyncNowCap :
            /\ n < SyncNowCap => n + 1 \in 0..SyncNowCap
            /\ n > 0 => n - 1 \in 0..SyncNowCap
      BY DEF SyncNowCap
    <3> USE DEF HostTypeOK
    <3>1. CASE SyncNow \/ HandleUsr1
      <4>1. syncNow' \in 0..SyncNowCap
        BY <3>a, <3>1 DEF SyncNow, HandleUsr1, Trigger
      <4> QED
        BY <3>1, <4>1 DEF SyncNow, HandleUsr1, Trigger
    <3>2. CASE TimerFires \/ TakeSyncNow
      <4>1. syncNow' \in 0..SyncNowCap
        BY <3>a, <3>2 DEF TimerFires, TakeSyncNow
      <4> QED
        BY <3>2, <4>1 DEF TimerFires, TakeSyncNow
    <3>3. CASE CycleStalls \/ CycleEnds \/ LoopExits
      BY <3>3, <1>a DEF CycleStalls, CycleEnds, LoopExits
    <3>4. ASSUME NEW sig \in {"usr1", "term"}, Signal(sig) PROVE HostTypeOK'
      BY <3>4 DEF Signal
    <3> QED
      BY <1>4, <3>1, <3>2, <3>3, <3>4 DEF PollStep
  <2>2. StageTypeOK'
    BY <1>4, Frames DEF StageTypeOK, PollStep, SyncNow, TimerFires, TakeSyncNow, CycleStalls, CycleEnds,
       LoopExits, Signal, HandleUsr1
  <2> QED
    BY <1>4, <2>1, <2>2, <1>c, Frames
<1>5. CASE CloseStep
  <2>1. StageTypeOK'
    BY <1>5, Frames DEF StageTypeOK, CloseStep, ServerCloses
  <2> QED
    BY <1>5, <2>1, <1>a, <1>c, Frames
<1>6. CASE Monitor
  <2>1. StageTypeOK'
    BY <1>6, Frames DEF StageTypeOK, Monitor
  <2> QED
    BY <1>6, <2>1, <1>a, <1>c, Frames
<1>7. CASE CancelStep
  <2>1. HostTypeOK'
    BY <1>7, Frames DEF HostTypeOK, CancelStep, HandleTerm, StopCancels, agentVars
  <2>2. StageTypeOK'
    BY <1>7, Frames DEF StageTypeOK, Stage, CancelStep, HandleTerm, StopCancels
  <2> QED
    BY <1>7, <2>1, <2>2, <1>c, Frames
<1>8. CASE StopStep
  <2>1. StageTypeOK'
    BY <1>8, Frames DEF StageTypeOK, Stage, StopStep, LoopAwaited, NoSidecar, PostShutdown,
       ExitSeen, Terminate, Kill, CloseAll
  <2>2. SidecarTypeOK'
    BY <1>8, Frames DEF SidecarTypeOK, StopStep, LoopAwaited, NoSidecar, PostShutdown,
       ExitSeen, Terminate, Kill, CloseAll
  <2> QED
    BY <1>8, <2>1, <2>2, <1>a, Frames
<1>9. CASE NextProcess
  <2>1. HostTypeOK'
    <3>1. life' \in Life /\ 0 \in 0..SyncNowCap
      BY <1>9 DEF HostTypeOK, NextProcess, Life, SyncNowCap
    <3> QED
      BY <1>9, <3>1 DEF HostTypeOK, NextProcess
  <2>2. StageTypeOK'
    BY <1>9 DEF StageTypeOK, Stage, NextProcess
  <2>3. SidecarTypeOK'
    BY <1>9 DEF SidecarTypeOK, NextProcess
  <2> QED
    BY <2>1, <2>2, <2>3
<1>10. CASE UNCHANGED vars
  BY <1>10, <1>a, <1>b, <1>c DEF vars, agentVars
<1> QED
  BY <1>1, <1>2, <1>3, <1>4, <1>5, <1>6, <1>7, <1>8, <1>9, <1>10, NextSteps

-----------------------------------------------------------------------------
\* Servers that close on their own never close the repo.
LEMMA NextHeld == IInv /\ [Next]_vars => HeldByStage'
<1> SUFFICES ASSUME IInv, [Next]_vars PROVE HeldByStage'
  OBVIOUS
<1> USE DEF IInv, HeldByStage
<1>1. CASE NewStep
  BY <1>1 DEF NewStep, CloneRepo, NewOpens, NewConfigures
<1>2. CASE StartStep
  BY <1>2 DEF StartStep, SpawnSidecar, WaitReady, WaitReadyTimesOut, StartNATSMesh, StartLoop
<1>3. CASE UNCHANGED <<at, held>>
  BY <1>3
<1>4. CASE CloseStep
  BY <1>4, Frames DEF CloseStep, ServerCloses, Server
<1>5. CASE CancelStep
  BY <1>5 DEF CancelStep, HandleTerm, StopCancels
<1>6. CASE StopStep
  <2>1. CASE CloseAll
    BY <2>1 DEF CloseAll, TypeOK, StageTypeOK, Resource, Server
  <2> QED
    BY <1>6, <2>1 DEF StopStep, LoopAwaited, NoSidecar, PostShutdown, ExitSeen, Terminate,
       Kill
<1>7. CASE NextProcess
  BY <1>7 DEF NextProcess
<1> QED
  BY <1>1, <1>2, <1>3, <1>4, <1>5, <1>6, <1>7, NextSteps, Frames DEF vars

\* Stop leaves its first stage only when the poll loop has ended.
LEMMA NextLoop == IInv /\ [Next]_vars => LoopByStage'
<1> SUFFICES ASSUME IInv, [Next]_vars PROVE LoopByStage'
  OBVIOUS
<1> USE DEF IInv, LoopByStage
<1>1. CASE NewStep
  BY <1>1, Frames DEF NewStep, CloneRepo, NewOpens, NewConfigures
<1>2. CASE StartStep
  BY <1>2 DEF StartStep, SpawnSidecar, WaitReady, WaitReadyTimesOut, StartNATSMesh, StartLoop
<1>3. CASE UNCHANGED <<at, loop>>
  BY <1>3
<1>4. CASE PollStep
  BY <1>4, Frames DEF PollStep, SyncNow, TimerFires, TakeSyncNow, CycleStalls, CycleEnds, LoopExits,
     Signal, HandleUsr1
<1>5. CASE CancelStep
  BY <1>5 DEF CancelStep, HandleTerm, StopCancels
<1>6. CASE StopStep
  BY <1>6, Frames DEF StopStep, LoopAwaited, NoSidecar, PostShutdown, ExitSeen, Terminate,
     Kill, CloseAll
<1>7. CASE NextProcess
  BY <1>7 DEF NextProcess
<1> QED
  BY <1>1, <1>2, <1>3, <1>4, <1>5, <1>6, <1>7, NextSteps, Frames DEF vars

\* No step takes a cancelled context back within a process.
LEMMA NextCancelled == IInv /\ [Next]_vars => CancelledByStage'
<1> SUFFICES ASSUME IInv, [Next]_vars PROVE CancelledByStage'
  OBVIOUS
<1> USE DEF IInv, CancelledByStage, StopStages
<1>1. CASE NewStep
  BY <1>1, Frames DEF NewStep, CloneRepo, NewOpens, NewConfigures
<1>2. CASE StartStep
  BY <1>2 DEF StartStep, SpawnSidecar, WaitReady, WaitReadyTimesOut, StartNATSMesh, StartLoop
<1>3. CASE UNCHANGED <<at, cancelled>>
  BY <1>3
<1>4. CASE CancelStep
  BY <1>4 DEF CancelStep, HandleTerm, StopCancels
<1>5. CASE StopStep
  BY <1>5, Frames DEF StopStep, LoopAwaited, NoSidecar, PostShutdown, ExitSeen, Terminate,
     Kill, CloseAll
<1>6. CASE NextProcess
  BY <1>6 DEF NextProcess
<1> QED
  BY <1>1, <1>2, <1>3, <1>4, <1>5, <1>6, NextSteps, Frames DEF vars

\* A dead process stays dead, a process that was never spawned does not run,
\* and Stop reaps what it finds, whoever answered the POST on the socket.
LEMMA NextSidecar == IInv /\ [Next]_vars => SidecarByStage' /\ FailedSpawnReaped'
<1> SUFFICES ASSUME IInv, [Next]_vars PROVE SidecarByStage' /\ FailedSpawnReaped'
  OBVIOUS
<1> USE LivesAssumption
    DEF IInv, SidecarByStage, FailedSpawnReaped, NewStages, TypeOK, SidecarTypeOK
<1>a. life \in Life /\ Life \subseteq Nat \ {0}
  BY DEF HostTypeOK, Life
<1>1. CASE NewStep
  BY <1>1, <1>a, Frames DEF NewStep, CloneRepo, NewOpens, NewConfigures, agentVars
<1>2. CASE StartStep
  <2> life' = life
    BY <1>2, Frames DEF agentVars
  <2>1. CASE SpawnSidecar
    BY <1>a, <2>1 DEF SpawnSidecar
  <2>2. CASE WaitReady
    BY <1>a, <2>2 DEF WaitReady
  <2>3. CASE WaitReadyTimesOut
    BY <1>a, <2>3 DEF WaitReadyTimesOut
  <2>4. CASE StartNATSMesh \/ StartLoop
    BY <1>a, <2>4 DEF StartNATSMesh, StartLoop
  <2> QED
    BY <1>2, <2>1, <2>2, <2>3, <2>4 DEF StartStep
<1>3. CASE UNCHANGED <<life, at, proc, answeredBy>>
  BY <1>3
<1>4. CASE SidecarStep
  <2>1. PICK l \in Life : SidecarBinds(l) \/ SidecarExits(l)
    BY <1>4 DEF SidecarStep
  <2>2. proc[l] \notin {"none", "dead"}
    BY <2>1 DEF SidecarBinds, SidecarExits
  <2>3. \A k \in Life : proc[k] \in {"none", "dead"} => proc'[k] = proc[k]
    BY <2>1, <2>2 DEF SidecarBinds, SidecarExits
  <2> QED
    BY <1>4, <1>a, <2>3, Frames DEF agentVars
<1>5. CASE CancelStep
  BY <1>5, <1>a DEF CancelStep, HandleTerm, StopCancels, agentVars
<1>6. CASE StopStep
  <2> life' = life /\ answeredBy' = answeredBy
    BY <1>6, Frames DEF agentVars
  <2>1. CASE LoopAwaited \/ NoSidecar \/ ExitSeen \/ Terminate \/ CloseAll
    BY <1>a, <2>1 DEF LoopAwaited, NoSidecar, ExitSeen, Terminate, CloseAll, Spawned
  <2>2. CASE PostShutdown
    <3>1. \A k \in Life : proc[k] = "none" => proc'[k] = "none"
      BY <2>2 DEF PostShutdown, Life
    <3> QED
      BY <1>a, <2>2, <3>1 DEF PostShutdown
  <2>3. CASE Kill
    BY <1>a, <2>3 DEF Kill
  <2> QED
    BY <1>6, <2>1, <2>2, <2>3 DEF StopStep
<1>7. CASE NextProcess
  <2>1. life + 1 \in Life /\ life + 1 > life
    BY <1>7, <1>a DEF NextProcess, Life
  <2> QED
    BY <1>7, <1>a, <2>1 DEF NextProcess
<1> QED
  BY <1>1, <1>2, <1>3, <1>4, <1>5, <1>6, <1>7, NextSteps, Frames DEF vars, agentVars

-----------------------------------------------------------------------------
\* The stage invariant of New, Start and Stop holds in every state, whatever
\* the sidecars of this and of earlier processes do.
THEOREM Staged == Spec => []IInv
<1>1. IInv /\ [Next]_vars => IInv'
  BY NextTypeOK, NextHeld, NextLoop, NextCancelled, NextSidecar DEF IInv
<1> QED
  BY InitIInv, <1>1, PTL DEF Spec

\* Agent.Stop returns with the sidecar of this process gone and mesh,
\* connection and repos closed; a failed New leaves no repo open.
THEOREM StopReleasesAll == Spec => []StopReleases
<1>1. IInv => StopReleases
  BY DEF IInv, HeldByStage, SidecarByStage, StopReleases
<1> QED
  BY <1>1, Staged, PTL

\* A sidecar that did not become ready is killed before Start fails.
THEOREM FailedSpawnIsReaped == Spec => []FailedSpawnReaped
<1>1. IInv => FailedSpawnReaped
  BY DEF IInv
<1> QED
  BY <1>1, Staged, PTL

\* pollLoop never syncs on a closed repo: Stop closes it after the loop.
THEOREM LoopNeverOnClosedRepo == Spec => []LoopOffRepo
<1>1. IInv => LoopOffRepo
  BY DEF IInv, HeldByStage, LoopByStage, LoopOffRepo
<1> QED
  BY <1>1, Staged, PTL

\* monitorSidecar reports no exit that Stop has asked for: the context is
\* cancelled before Stop does anything else.
THEOREM AlarmsAreReal == Spec => AlarmIsReal
<1> DEFINE Alarm == monitor # "alarmed" /\ monitor' = "alarmed" =>
                      at \notin {"cancelled", "loopDone", "posted", "termed", "reaped", "stopped"}
<1>1. IInv /\ [Next]_vars => [Alarm]_vars
  <2> SUFFICES ASSUME IInv, Next, monitor # "alarmed", monitor' = "alarmed" PROVE Alarm
    BY DEF vars
  <2>1. CASE Monitor
    BY <2>1 DEF Monitor, IInv, CancelledByStage, StopStages
  <2>2. CASE StartStep
    BY <2>2 DEF StartStep, SpawnSidecar, WaitReady, WaitReadyTimesOut, StartNATSMesh,
       StartLoop
  <2>3. CASE NextProcess
    BY <2>3 DEF NextProcess
  <2> QED
    BY <2>1, <2>2, <2>3, NextSteps, Frames
<1> QED
  BY <1>1, Staged, PTL DEF Spec, AlarmIsReal
=============================================================================
