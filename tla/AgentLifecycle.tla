--------------------------- MODULE AgentLifecycle ---------------------------
(***************************************************************************)
(* The life of a leaf agent process and of the iroh sidecar it spawns:     *)
(* New and Agent.Start with their failing steps, the servers that run      *)
(* until the context is done, the poll loop with SyncNow and the timer,    *)
(* the monitor of the sidecar, Agent.Stop with the escalation of           *)
(* sidecar.shutdown, the signals that the leaf binary and `edgesync sync   *)
(* start` turn into SyncNow and Stop, and the next process on the same     *)
(* repo.  A sidecar is a child process that outlives an agent which exits  *)
(* without Stop; all sidecars of one repo share one socket path, and       *)
(* whoever bound it last answers on it.                                    *)
(*                                                                         *)
(* What a sync cycle exchanges is the subject of LeafSync.                 *)
(***************************************************************************)
EXTENDS Naturals

CONSTANTS
    MaxLives        \* bound: agent processes started on this repo

ASSUME LivesAssumption == MaxLives \in Nat \ {0}

VARIABLES
    iroh,           \* Config.IrohEnabled
    host,           \* the program the agent runs in
    sigCh,          \* what the host's signal channel of capacity 1 holds
    life,           \* the number of the current agent process
    at,             \* how far Start or Stop got
    held,           \* what the agent has open
    cancelled,      \* the context of Start is cancelled
    loop,           \* the pollLoop goroutine
    syncNow,        \* tokens in the channel of capacity 1
    owed,           \* SyncNow was called after the last cycle began
    proc,           \* the sidecar process that each life spawned
    socket,         \* the life whose sidecar bound the socket path, 0: no file
    answeredBy,     \* the life whose sidecar answered waitReady, 0: none yet
    monitor         \* the monitorSidecar goroutine

vars == <<iroh, host, sigCh, life, at, held, cancelled, loop, syncNow, owed, proc,
          socket, answeredBy, monitor>>

Life == 1..MaxLives
SyncNowCap == 1

\* Servers on goroutines of their own, which Stop does not wait for.
Server == {"callback", "http", "sub"}

\* The leaf binary, `edgesync sync start`, or a program that links the agent.
Host == {"leaf", "sync start", "embedding"}

Stage ==
    {"init", "cloned", "opened", "newFailed", "new", "waitReady", "ready", "connected",
     "running", "startFailed", "cancelled", "loopDone", "posted", "termed", "reaped",
     "stopped"}
Resource == Server \cup {"repo", "mesh", "conn", "notify"}

HostTypeOK ==
    /\ iroh \in BOOLEAN
    /\ host \in Host
    /\ sigCh \in {"empty", "usr1", "term"}
    /\ life \in Life
    /\ syncNow \in 0..SyncNowCap
    /\ owed \in BOOLEAN

StageTypeOK ==
    /\ at \in Stage
    /\ held \subseteq Resource
    /\ cancelled \in BOOLEAN
    /\ loop \in {"none", "select", "syncing", "stalled", "done"}
    /\ monitor \in {"none", "watching", "alarmed", "done"}

SidecarTypeOK ==
    /\ proc \in [Life -> {"none", "booting", "listening", "closing", "dead"}]
    /\ socket \in 0..MaxLives
    /\ answeredBy \in 0..MaxLives

TypeOK == HostTypeOK /\ StageTypeOK /\ SidecarTypeOK

Init ==
    /\ host \in Host
    /\ iroh \in BOOLEAN /\ (iroh => host # "sync start")
    /\ sigCh = "empty" /\ monitor = "none"
    /\ life = 1 /\ at = "init" /\ held = {}
    /\ cancelled = FALSE /\ loop = "none" /\ syncNow = 0 /\ owed = FALSE
    /\ proc = [l \in Life |-> "none"]
    /\ socket = 0 /\ answeredBy = 0

agentVars == <<iroh, host, sigCh, life, syncNow, owed>>
-----------------------------------------------------------------------------
(* The sidecar process (iroh-sidecar/src).                                 *)

\* run_server removes the file at the path, whoever bound it, and binds.
SidecarBinds(l) ==
    /\ proc[l] = "booting"
    /\ proc' = [proc EXCEPT ![l] = "listening"]
    /\ socket' = l
    /\ UNCHANGED <<agentVars, at, held, cancelled, loop, answeredBy, monitor>>

\* A failed bind or endpoint, a crash, or the end of a graceful shutdown.
SidecarExits(l) ==
    /\ proc[l] \in {"booting", "listening", "closing"}
    /\ proc' = [proc EXCEPT ![l] = "dead"]
    /\ UNCHANGED <<agentVars, at, held, cancelled, loop, socket, answeredBy, monitor>>
-----------------------------------------------------------------------------
(* New and Start.                                                          *)

\* CloneFromHubURL is set and the file is missing: clone it and close it.
CloneRepo ==
    /\ at = "init"
    /\ at' \in {"cloned", "newFailed"}
    /\ UNCHANGED <<agentVars, held, cancelled, loop, proc, socket, answeredBy, monitor>>

\* The Config is validated and the repo opened.
NewOpens ==
    /\ at \in {"init", "cloned"}
    /\ \/ at' = "opened" /\ held' = {"repo"}
       \/ at' = "newFailed" /\ UNCHANGED held
    /\ UNCHANGED <<agentVars, cancelled, loop, proc, socket, answeredBy, monitor>>

\* NobodyCaps, project-code and server-code; the peer registry only warns.
NewConfigures ==
    /\ at = "opened"
    /\ \/ at' = "new" /\ UNCHANGED held
       \/ at' = "newFailed" /\ held' = {}
    /\ UNCHANGED <<agentVars, cancelled, loop, proc, socket, answeredBy, monitor>>

\* startIrohSidecar up to spawn: binary lookup, leaf port, callback listener.
SpawnSidecar ==
    /\ at = "new" /\ iroh
    /\ \/ /\ proc' = [proc EXCEPT ![life] = "booting"]
          /\ held' = held \cup {"callback"}
          /\ at' = "waitReady" /\ UNCHANGED cancelled
       \/ /\ at' = "startFailed" /\ cancelled' = TRUE
          /\ UNCHANGED <<proc, held>>
    /\ UNCHANGED <<agentVars, loop, socket, answeredBy, monitor>>

\* GET /status on the socket path: any process that listens there answers.
\* The iroh peers become sync targets and the monitor starts.
WaitReady ==
    /\ at = "waitReady" /\ socket # 0 /\ proc[socket] = "listening"
    /\ at' = "ready" /\ answeredBy' = socket /\ monitor' = "watching"
    /\ UNCHANGED <<agentVars, held, cancelled, loop, proc, socket>>

\* The plausible bug: the 10s are over and the child is left alone.
WaitReadyGivesUp ==
    /\ at = "waitReady"
    /\ held' = held \ {"callback"}
    /\ at' = "startFailed" /\ cancelled' = TRUE
    /\ socket' = 0
    /\ UNCHANGED <<agentVars, loop, proc, answeredBy, monitor>>

\* waitReady times out: kill, wait for the exit, remove the socket file.
WaitReadyTimesOut ==
    /\ at = "waitReady"
    /\ proc' = [proc EXCEPT ![life] = "dead"]
    /\ socket' = 0
    /\ held' = held \ {"callback"}
    /\ at' = "startFailed" /\ cancelled' = TRUE
    /\ UNCHANGED <<agentVars, loop, answeredBy, monitor>>

\* startNATSMesh: tunnels, server, client.  A failing connect stops the mesh;
\* on any failure Start cancels its context and returns.
StartNATSMesh ==
    /\ at = "ready" \/ (at = "new" /\ ~iroh)
    /\ \/ at' = "connected" /\ held' = held \cup {"mesh", "conn"} /\ UNCHANGED cancelled
       \/ at' = "startFailed" /\ cancelled' = TRUE /\ UNCHANGED held
    /\ UNCHANGED <<agentVars, loop, proc, socket, answeredBy, monitor>>

\* What the host's flags can switch on.
Optional ==
    CASE host = "leaf" -> {"sub", "http"}
      [] host = "sync start" -> {"notify"}
      [] host = "embedding" -> {"sub", "http", "notify"}

\* startNATSServe and startHTTPServer, which start goroutines if configured
\* and never fail, startNotify (whose failure only warns, and closes the
\* notify repo again), and the poll loop.
StartLoop ==
    /\ at = "connected"
    /\ \E started \in SUBSET Optional : held' = held \cup started
    /\ loop' = "select" /\ at' = "running"
    /\ UNCHANGED <<agentVars, cancelled, proc, socket, answeredBy, monitor>>

\* When the context is done each server's goroutine closes it.
ServerCloses(s) ==
    /\ cancelled /\ s \in held
    /\ held' = held \ {s}
    /\ UNCHANGED <<agentVars, at, cancelled, loop, proc, socket, answeredBy, monitor>>

\* The plausible bug: the exit is reported without a look at the context.
MonitorCries ==
    /\ monitor = "watching" /\ (cancelled \/ proc[life] = "dead")
    /\ monitor' = IF proc[life] = "dead" THEN "alarmed" ELSE "done"
    /\ UNCHANGED <<agentVars, at, held, cancelled, loop, proc, socket, answeredBy>>

\* monitorSidecar: the exit of the process is an error, and logged, unless
\* the context is done as well.
Monitor ==
    /\ monitor = "watching" /\ (cancelled \/ proc[life] = "dead")
    /\ monitor' = IF cancelled THEN "done" ELSE "alarmed"
    /\ UNCHANGED <<agentVars, at, held, cancelled, loop, proc, socket, answeredBy>>
-----------------------------------------------------------------------------
(* SyncNow and the poll loop.                                              *)

\* The plausible bug: a channel without capacity.
TriggerUnbuffered ==
    /\ owed' = TRUE
    /\ syncNow' = IF loop = "select" THEN 1 ELSE 0

\* SyncNow: a send that does nothing when the channel is full.
Trigger ==
    /\ owed' = TRUE
    /\ syncNow' = IF syncNow < SyncNowCap THEN syncNow + 1 ELSE syncNow

\* An embedding program calls SyncNow whenever it has an Agent.
SyncNow ==
    /\ host = "embedding" /\ at \notin {"init", "cloned", "opened", "newFailed"}
    /\ Trigger
    /\ UNCHANGED <<iroh, host, sigCh, life, at, held, cancelled, loop, proc, socket,
                   answeredBy, monitor>>

TimerFires ==
    /\ loop = "select"
    /\ loop' = "syncing" /\ owed' = FALSE
    /\ UNCHANGED <<iroh, host, sigCh, life, at, held, cancelled, syncNow, proc, socket, answeredBy, monitor>>

TakeSyncNow ==
    /\ loop = "select" /\ syncNow > 0
    /\ loop' = "syncing" /\ owed' = FALSE /\ syncNow' = syncNow - 1
    /\ UNCHANGED <<iroh, host, sigCh, life, at, held, cancelled, proc, socket, answeredBy, monitor>>

\* Every target has been synced, with or without success, and the peer
\* registry row written.
CycleEnds ==
    /\ loop \in {"syncing", "stalled"} /\ loop' = "select"
    /\ UNCHANGED <<agentVars, at, held, cancelled, proc, socket, answeredBy, monitor>>

\* An exchange over iroh hangs: IrohTransport's client has no timeout and the
\* context of the poll loop no deadline, so a sidecar or peer that does not
\* answer holds the cycle up until the context is cancelled.
CycleStalls ==
    /\ loop = "syncing" /\ iroh /\ ~cancelled
    /\ loop' = "stalled"
    /\ UNCHANGED <<agentVars, at, held, cancelled, proc, socket, answeredBy, monitor>>

LoopExits ==
    /\ loop = "select" /\ cancelled
    /\ loop' = "done"
    /\ UNCHANGED <<agentVars, at, held, cancelled, proc, socket, answeredBy, monitor>>
-----------------------------------------------------------------------------
(* Signals.                                                                *)

\* What signal.Notify registers; a Go program takes no notice of other USR1s.
Registered ==
    CASE host = "leaf" -> {"usr1", "term"}
      [] host = "sync start" -> {"term"}
      [] host = "embedding" -> {}

\* SIGUSR1 (`edgesync sync now`), SIGINT or SIGTERM: the runtime drops what
\* does not fit in the channel.  Once Stop runs nobody reads it any more.
Signal(sig) ==
    /\ at = "running" /\ sig \in Registered /\ sigCh = "empty"
    /\ sigCh' = sig
    /\ UNCHANGED <<iroh, host, life, at, held, cancelled, loop, syncNow, owed, proc,
                   socket, answeredBy, monitor>>

HandleUsr1 ==
    /\ at = "running" /\ sigCh = "usr1"
    /\ sigCh' = "empty"
    /\ Trigger
    /\ UNCHANGED <<iroh, host, life, at, held, cancelled, loop, proc, socket,
                   answeredBy, monitor>>

\* The plausible bug: every signal means a sync.
HandleTermAsUsr1 ==
    /\ at = "running" /\ sigCh = "term"
    /\ sigCh' = "empty"
    /\ Trigger
    /\ UNCHANGED <<iroh, host, life, at, held, cancelled, loop, proc, socket,
                   answeredBy, monitor>>

\* Stop begins: its first step is the cancel.
HandleTerm ==
    /\ at = "running" /\ sigCh = "term"
    /\ sigCh' = "empty"
    /\ cancelled' = TRUE /\ at' = "cancelled"
    /\ UNCHANGED <<iroh, host, life, held, loop, syncNow, owed, proc, socket,
                   answeredBy, monitor>>
-----------------------------------------------------------------------------
(* Stop.                                                                   *)

\* An embedding program also stops an agent that is new or failed to start;
\* the other hosts exit then.
StopCancels ==
    /\ host = "embedding" /\ at \in {"new", "running", "startFailed"}
    /\ cancelled' = TRUE /\ at' = "cancelled"
    /\ UNCHANGED <<agentVars, held, loop, proc, socket, answeredBy, monitor>>

\* The plausible bug: Stop does not wait for a.done.
LoopAbandoned ==
    /\ at = "cancelled"
    /\ held' = held \ {"notify"} /\ at' = "loopDone"
    /\ UNCHANGED <<agentVars, cancelled, loop, proc, socket, answeredBy, monitor>>

\* <-a.done (nil when Start failed), then the notify service and its repo.
LoopAwaited ==
    /\ at = "cancelled" /\ loop \in {"none", "done"}
    /\ held' = held \ {"notify"} /\ at' = "loopDone"
    /\ UNCHANGED <<agentVars, cancelled, loop, proc, socket, answeredBy, monitor>>

Spawned == proc[life] # "none"

\* sidecar.shutdown returns at once when nothing was spawned.
NoSidecar ==
    /\ at = "loopDone" /\ ~Spawned
    /\ at' = "reaped"
    /\ UNCHANGED <<agentVars, held, cancelled, loop, proc, socket, answeredBy, monitor>>

\* POST /shutdown reaches whoever listens on the path, or nobody.
PostShutdown ==
    /\ at = "loopDone" /\ Spawned
    /\ proc' \in {proc} \cup
         IF socket # 0 /\ proc[socket] = "listening"
           THEN {[proc EXCEPT ![socket] = "closing"]} ELSE {}
    /\ at' = "posted"
    /\ UNCHANGED <<agentVars, held, cancelled, loop, socket, answeredBy, monitor>>

\* <-s.exited, within 5s of the POST or 2s of the SIGTERM, and cleanup.
ExitSeen ==
    /\ at \in {"posted", "termed"} /\ proc[life] = "dead"
    /\ socket' = 0 /\ at' = "reaped"
    /\ UNCHANGED <<agentVars, held, cancelled, loop, proc, answeredBy, monitor>>

\* 5s without an exit: SIGTERM, which the process may not obey in time.
Terminate ==
    /\ at = "posted" /\ proc[life] # "dead"
    /\ at' = "termed"
    /\ UNCHANGED <<agentVars, held, cancelled, loop, proc, socket, answeredBy, monitor>>

\* The plausible bug: the escalation ends with SIGTERM.
KillSkipped ==
    /\ at = "termed" /\ proc[life] # "dead"
    /\ socket' = 0 /\ at' = "reaped"
    /\ UNCHANGED <<agentVars, held, cancelled, loop, proc, answeredBy, monitor>>

\* The plausible bug: no SIGKILL, and a wait for the exit without end.
KillForgotten ==
    /\ at = "termed" /\ proc[life] = "dead"
    /\ socket' = 0 /\ at' = "reaped"
    /\ UNCHANGED <<agentVars, held, cancelled, loop, proc, answeredBy, monitor>>

\* 2s more: SIGKILL, <-s.exited, cleanup.
Kill ==
    /\ at = "termed" /\ proc[life] # "dead"
    /\ proc' = [proc EXCEPT ![life] = "dead"]
    /\ socket' = 0 /\ at' = "reaped"
    /\ UNCHANGED <<agentVars, held, cancelled, loop, answeredBy, monitor>>

\* conn.Close, which ends the subscription with it, mesh.Stop, repo.Close.
CloseAll ==
    /\ at = "reaped"
    /\ held' = held \ {"conn", "sub", "mesh", "repo"} /\ at' = "stopped"
    /\ UNCHANGED <<agentVars, cancelled, loop, proc, socket, answeredBy, monitor>>

StopStep ==
    \/ LoopAwaited \/ NoSidecar \/ PostShutdown \/ ExitSeen
    \/ Terminate \/ Kill \/ CloseAll
-----------------------------------------------------------------------------
\* The agent process ends: after Stop, with os.Exit when New or Start failed,
\* or by a crash.  Its sidecar and the socket file stay as they are.
NextProcess ==
    /\ life < MaxLives /\ life' = life + 1
    /\ at' = "init" /\ held' = {}
    /\ cancelled' = FALSE /\ loop' = "none" /\ syncNow' = 0 /\ owed' = FALSE
    /\ answeredBy' = 0 /\ sigCh' = "empty" /\ monitor' = "none"
    /\ UNCHANGED <<iroh, host, proc, socket>>

Next ==
    \/ \E l \in Life : SidecarBinds(l) \/ SidecarExits(l)
    \/ CloneRepo \/ NewOpens \/ NewConfigures
    \/ SpawnSidecar \/ WaitReady \/ WaitReadyTimesOut
    \/ StartNATSMesh \/ StartLoop
    \/ \E s \in Server : ServerCloses(s)
    \/ Monitor
    \/ \E sig \in {"usr1", "term"} : Signal(sig)
    \/ HandleUsr1 \/ HandleTerm
    \/ SyncNow \/ TimerFires \/ TakeSyncNow \/ CycleStalls \/ CycleEnds \/ LoopExits
    \/ StopCancels \/ StopStep
    \/ NextProcess

Spec == Init /\ [][Next]_vars

\* A cycle ends unless it stalls (requests over NATS time out), and one that
\* stalled ends when the context is cancelled; the loop serves a pending token
\* without waiting for the timer, servers see the cancelled context, main reads
\* the signal channel, and Stop keeps going.  The select may prefer a token or
\* the timer to ctx.Done, but not for ever.  Neither the timer nor the
\* cooperation of the sidecar or of a peer is assumed.
FairSpec ==
    /\ Spec
    /\ WF_vars(CycleEnds /\ (loop = "syncing" \/ cancelled))
    /\ WF_vars(TakeSyncNow) /\ SF_vars(LoopExits)
    /\ WF_vars(HandleUsr1 \/ HandleTerm)
    /\ WF_vars(StopStep)
    /\ \A s \in Server : WF_vars(ServerCloses(s))
-----------------------------------------------------------------------------
\* When Stop returns, nothing of this agent is left: its sidecar has exited,
\* whether or not it obeyed, and mesh, connection and repos are closed, also
\* when Start had failed half way; only the HTTP servers may be on their way
\* out.  A New that failed has closed the repo.
StopReleases ==
    /\ at = "stopped" =>
        /\ proc[life] \in {"none", "dead"}
        /\ held \subseteq {"callback", "http"}
    /\ at = "newFailed" => held = {}

\* A sidecar that Start could not bring up is not left running.
FailedSpawnReaped ==
    at = "startFailed" /\ answeredBy = 0 => proc[life] \in {"none", "dead"}

\* The poll loop never syncs on a closed repo.
LoopOffRepo == "repo" \notin held => loop \in {"none", "done"}

\* A call of SyncNow is followed by a sync cycle that begins after it, also
\* when it falls into a running cycle, unless the agent is stopped or a cycle
\* over iroh hangs for good.
SyncNowServed ==
    \/ owed /\ loop # "none" ~> ~owed \/ cancelled \/ loop = "none"
    \/ <>[](loop = "stalled")

\* Stop returns, whatever state Start left, whatever the sidecar does and also
\* out of a cycle that hangs, and the servers it does not wait for are closed in
\* the end.
StopTerminates ==
    at = "cancelled" ~> (at = "stopped" /\ held = {}) \/ at = "init"

\* A SIGINT or SIGTERM that reached the host's channel leads to an agent that
\* is stopped in full, also when syncs keep being triggered and Stop itself
\* has to kill the sidecar.  (One that finds the channel full is lost.)
TermStops == sigCh = "term" ~> at \in {"stopped", "init"}

\* monitorSidecar never reports the exit that Stop asks for as unexpected,
\* however the sidecar's exit, the cancel and the escalation interleave.
AlarmIsReal ==
    [][monitor # "alarmed" /\ monitor' = "alarmed" =>
         at \notin {"cancelled", "loopDone", "posted", "termed", "reaped", "stopped"}]_vars

\* "Start spawns the sidecar process and blocks until it's ready."
ReadyIsReady == answeredBy \in {0, life}
-----------------------------------------------------------------------------
\* The parts of the inductive invariant.

NewStages == {"init", "cloned", "opened", "newFailed", "new"}
StopStages == {"cancelled", "loopDone", "posted", "termed", "reaped", "stopped"}

\* The repo is open from New until the last step of Stop; the notify service
\* goes before the sidecar.
HeldByStage ==
    /\ at \in {"init", "cloned", "newFailed"} => held = {}
    /\ at \notin {"init", "cloned", "newFailed", "stopped"} => "repo" \in held
    /\ at \in {"loopDone", "posted", "termed", "reaped"} => "notify" \notin held
    /\ at = "stopped" => held \subseteq {"callback", "http"}

\* The poll loop runs from the end of Start until Stop has waited for it.
LoopByStage == at \notin {"running", "cancelled"} => loop \in {"none", "done"}

\* Start's context is cancelled by every failure of Start and by Stop first.
CancelledByStage == at \in StopStages \cup {"startFailed"} => cancelled

\* A process has no sidecar before SpawnSidecar, and none that runs once
\* Stop has reaped it; what answered waitReady is some sidecar.
SidecarByStage ==
    /\ \A l \in Life : l > life => proc[l] = "none"
    /\ at \in NewStages => proc[life] = "none"
    /\ at \in {"reaped", "stopped"} => proc[life] \in {"none", "dead"}
    /\ at = "ready" => answeredBy # 0

IInv ==
    /\ TypeOK /\ HeldByStage /\ LoopByStage /\ CancelledByStage
    /\ SidecarByStage /\ FailedSpawnReaped
=============================================================================
