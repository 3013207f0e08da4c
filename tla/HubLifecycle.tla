---------------------------- MODULE HubLifecycle ----------------------------
(***************************************************************************)
(* The life of one hub process: hub.NewHub (seeding, opening the repo,     *)
(* binding the listener, starting NATS, subscribing, starting the          *)
(* checkpoint loop, and the cleanup of every failure on the way),          *)
(* hub.ServeHTTP with its context, and hub.Stop called by several          *)
(* goroutines at once.  A process may crash at any point and the next one  *)
(* may be started with another Config.ProjectCode.                         *)
(*                                                                         *)
(* What publishNewCommits does is the subject of HubPublish; here it is    *)
(* only a use of the repo that Stop has to wait for.                       *)
(***************************************************************************)
EXTENDS Naturals

CONSTANTS
    Stopper,        \* goroutines that may call Hub.Stop
    Main,           \* the one of them that runs `edgesync hub serve`
    Request,        \* HTTP requests the fossil server may receive
    Code,           \* project-codes
    NoCode,         \* Config.ProjectCode = ""
    NoFile,         \* nothing at Config.RepoPath
    MaxLives        \* bound: processes started on this repo path

ASSUME LifecycleAssumption ==
    Main \in Stopper /\ NoCode \notin Code /\ MaxLives \in Nat \ {0}

VARIABLES
    cfg,            \* Config: seed (SeedFromUpstream set), want (ProjectCode), sync
    upstream,       \* the project-code of the upstream hub
    disk,           \* the file at RepoPath: NoFile or its project-code
    wal,            \* hub.fossil still needs its WAL to be complete
    at,             \* how far NewHub got
    open,           \* what this process holds and has to give back
    catchup,        \* the startPublishCatchup goroutine
    checkpoint,     \* the startCheckpointLoop goroutine
    serve,          \* the goroutine that calls ServeHTTP
    cancelled,      \* the context given to ServeHTTP is done
    httpDown,       \* http.Server.Shutdown has begun
    request,        \* the state of every HTTP request
    once,           \* the body of stopOnce.Do: "none", its stages, "done"
    firstErr,       \* Stop's firstErr is set
    stopper,        \* the state of every caller of Stop
    lives           \* processes started so far

bootVars == <<cfg, upstream, disk, wal, at, open, lives>>
loopVars == <<catchup, checkpoint>>
httpVars == <<serve, cancelled, httpDown, request>>
stopVars == <<once, firstErr, stopper>>
vars == <<bootVars, loopVars, httpVars, stopVars>>

\* The part of Config that decides what NewHub does.
Config == [seed : BOOLEAN, want : Code \cup {NoCode}, sync : BOOLEAN]

\* What a Hub holds.
Held == {"repo", "listener", "server", "client", "syncSubs", "commitSub"}
Boot == {"down", "cloned", "seeded", "opened", "tuned", "listening", "nats",
         "connected", "synced", "wired", "up", "failed"}

BootTypeOK ==
    /\ cfg \in Config
    /\ upstream \in Code
    /\ disk \in Code \cup {NoFile}
    /\ wal \in BOOLEAN
    /\ at \in Boot
    /\ open \subseteq Held
    /\ lives \in 1..MaxLives

LoopTypeOK ==
    /\ catchup \in {"none", "delay", "publishing", "done"}
    /\ checkpoint \in {"none", "waiting", "running", "done"}

HttpTypeOK ==
    /\ serve \in {"none", "serving", "returned"}
    /\ cancelled \in BOOLEAN
    /\ httpDown \in BOOLEAN
    /\ request \in [Request -> {"none", "in", "out"}]

StopTypeOK ==
    /\ once \in {"none", "shutdown", "drained", "natsClosed", "catchupWait",
                 "checkpointWait", "closing", "done"}
    /\ firstErr \in BOOLEAN
    /\ stopper \in [Stopper -> {"idle", "first", "blocked", "nil", "error"}]

TypeOK == BootTypeOK /\ LoopTypeOK /\ HttpTypeOK /\ StopTypeOK

Init ==
    /\ cfg \in Config
    /\ upstream \in Code
    /\ disk = NoFile /\ wal = FALSE /\ lives = 1
    /\ at = "down" /\ open = {} /\ catchup = "none" /\ checkpoint = "none"
    /\ serve = "none" /\ cancelled = FALSE /\ httpDown = FALSE
    /\ request = [r \in Request |-> "none"]
    /\ once = "none" /\ firstErr = FALSE
    /\ stopper = [s \in Stopper |-> "idle"]
-----------------------------------------------------------------------------
(* NewHub. Every step may fail; the failing step runs the cleanup that the *)
(* code spells out for it and NewHub returns the error.                    *)

Seeding == cfg.seed /\ disk = NoFile

\* libfossil.Clone: what a failed clone leaves at path is not known here.
Clone ==
    /\ at = "down" /\ Seeding
    /\ \/ at' = "cloned" /\ disk' = upstream
       \/ at' = "failed" /\ disk' \in {NoFile, upstream}
    /\ UNCHANGED <<cfg, upstream, wal, open, lives, loopVars, httpVars, stopVars>>

\* repo.Close may fail, and returns before the project-code is compared.
CheckClone ==
    /\ at = "cloned"
    /\ \/ at' = "failed" /\ UNCHANGED disk
       \/ /\ cfg.want \notin {NoCode, upstream}
          /\ at' = "failed" /\ disk' = NoFile
       \/ /\ cfg.want \in {NoCode, upstream}
          /\ at' = "seeded" /\ UNCHANGED disk
    /\ UNCHANGED <<cfg, upstream, wal, open, lives, loopVars, httpVars, stopVars>>

Opens ==
    /\ at' = "opened" /\ open' = open \cup {"repo"} /\ wal' = TRUE

OpenFails == at' = "failed" /\ UNCHANGED <<open, wal>>

\* The plausible bug: an existing repo is served whatever its project-code.
OpenAnyRepo ==
    /\ at = "seeded" \/ (at = "down" /\ ~Seeding)
    /\ disk # NoFile /\ Opens /\ UNCHANGED disk
    /\ UNCHANGED <<cfg, upstream, lives, loopVars, httpVars, stopVars>>

\* openOrCreateRepo on a file that exists: Open, then the drift check.
OpenRepo ==
    /\ at = "seeded" \/ (at = "down" /\ ~Seeding)
    /\ disk # NoFile
    /\ \/ cfg.want \in {NoCode, disk} /\ Opens
       \/ OpenFails
    /\ UNCHANGED <<cfg, upstream, disk, lives, loopVars, httpVars, stopVars>>

\* openOrCreateRepo when Open fails because there is no file: libfossil.Create
\* generates a project-code unless one is pinned.
CreateRepo ==
    /\ at = "down" /\ ~Seeding
    /\ disk = NoFile
    /\ \/ /\ disk' \in IF cfg.want = NoCode THEN Code ELSE {cfg.want}
          /\ Opens
       \/ OpenFails /\ UNCHANGED disk
    /\ UNCHANGED <<cfg, upstream, lives, loopVars, httpVars, stopVars>>

\* One step of NewHub: from -> to with the resources it gains, or the error
\* return after releasing `cleanup`.
Acquire(from, to, gained, cleanup) ==
    /\ at = from
    /\ \/ at' = to /\ open' = open \cup gained /\ UNCHANGED wal
       \/ /\ at' = "failed" /\ open' = open \ cleanup
          /\ wal' \in IF "repo" \in cleanup THEN {FALSE, wal} ELSE {wal}
    /\ UNCHANGED <<cfg, upstream, disk, lives, httpVars, stopVars>>

ApplyNobodyCaps == Acquire("opened", "tuned", {}, {"repo"}) /\ UNCHANGED loopVars

Listen == Acquire("tuned", "listening", {"listener"}, {"repo"}) /\ UNCHANGED loopVars

StartNATS ==
    /\ Acquire("listening", "nats", {"server"}, {"listener", "repo"})
    /\ UNCHANGED loopVars

\* startFossilSyncSubscriber: connect, then subscribe and flush.
ConnectClient ==
    /\ cfg.sync
    /\ Acquire("nats", "connected", {"client"}, {"server", "listener", "repo"})
    /\ UNCHANGED loopVars

\* The plausible bug: the failed flush forgets nc.Close.
SubscribeSyncLeaky ==
    /\ Acquire("connected", "synced", {"syncSubs"}, {"server", "listener", "repo"})
    /\ UNCHANGED loopVars

SubscribeSync ==
    /\ Acquire("connected", "synced", {"syncSubs"},
               {"client", "server", "listener", "repo"})
    /\ UNCHANGED loopVars

\* startCommitSubscriber: subscribe, flush, hook, watermark, catchup.
SubscribeCommits ==
    /\ Acquire("synced", "wired", {"commitSub"},
               {"syncSubs", "client", "server", "listener", "repo"})
    /\ catchup' = IF at' = "wired" THEN "delay" ELSE "none"
    /\ UNCHANGED checkpoint

\* startCheckpointLoop, and NewHub returns the hub.
NewHubReturns ==
    /\ at = "wired" \/ (at = "nats" /\ ~cfg.sync)
    /\ at' = "up" /\ checkpoint' = "waiting"
    /\ UNCHANGED <<cfg, upstream, disk, wal, open, lives, catchup, httpVars, stopVars>>

NewHub ==
    \/ Clone \/ CheckClone \/ OpenRepo \/ CreateRepo \/ ApplyNobodyCaps
    \/ Listen \/ StartNATS \/ ConnectClient \/ SubscribeSync
    \/ SubscribeCommits \/ NewHubReturns
-----------------------------------------------------------------------------
(* The background goroutines.  When the channel and the timer are both     *)
(* ready the select takes either.                                          *)

CatchupFires ==
    /\ catchup = "delay" /\ catchup' = "publishing"
    /\ UNCHANGED <<checkpoint, bootVars, httpVars, stopVars>>

CatchupEnds ==
    /\ \/ catchup = "publishing"
       \/ catchup = "delay" /\ once = "catchupWait"
    /\ catchup' = "done"
    /\ UNCHANGED <<checkpoint, bootVars, httpVars, stopVars>>

\* A tick runs handle.Checkpoint(PASSIVE); its error is ignored.
CheckpointTick ==
    /\ checkpoint \in {"waiting", "running"}
    /\ checkpoint' = IF checkpoint = "waiting" THEN "running" ELSE "waiting"
    /\ UNCHANGED <<catchup, bootVars, httpVars, stopVars>>

CheckpointEnds ==
    /\ checkpoint = "waiting" /\ once = "checkpointWait"
    /\ checkpoint' = "done"
    /\ UNCHANGED <<catchup, bootVars, httpVars, stopVars>>
-----------------------------------------------------------------------------
(* ServeHTTP and the requests it serves.                                   *)

\* srv.Serve returns at once when Shutdown has already begun.
ServeHTTP ==
    /\ at = "up" /\ serve = "none"
    /\ serve' = IF httpDown THEN "returned" ELSE "serving"
    /\ UNCHANGED <<cancelled, httpDown, request, bootVars, loopVars, stopVars>>

ServeReturns ==
    /\ serve = "serving" /\ httpDown
    /\ serve' = "returned"
    /\ UNCHANGED <<cancelled, httpDown, request, bootVars, loopVars, stopVars>>

\* SIGINT or SIGTERM; signal.NotifyContext is set up before NewHub.
Cancel ==
    /\ at \notin {"down", "failed"} /\ ~cancelled
    /\ cancelled' = TRUE
    /\ UNCHANGED <<serve, httpDown, request, bootVars, loopVars, stopVars>>

\* The goroutine of ServeHTTP that waits for the context.
ShutdownOnCancel ==
    /\ cancelled /\ serve # "none" /\ ~httpDown
    /\ httpDown' = TRUE
    /\ UNCHANGED <<serve, cancelled, request, bootVars, loopVars, stopVars>>

RequestArrives(r) ==
    /\ serve = "serving" /\ ~httpDown
    /\ request[r] = "none"
    /\ request' = [request EXCEPT ![r] = "in"]
    /\ UNCHANGED <<serve, cancelled, httpDown, bootVars, loopVars, stopVars>>

\* xfer.ServeHTTP, then publishNewCommits.  A stalled client never gets here.
RequestEnds(r) ==
    /\ request[r] = "in"
    /\ request' = [request EXCEPT ![r] = "out"]
    /\ UNCHANGED <<serve, cancelled, httpDown, bootVars, loopVars, stopVars>>
-----------------------------------------------------------------------------
(* Stop.  sync.Once lets the first caller run the body and makes every     *)
(* other caller wait for its end; they all return their own firstErr, nil. *)

\* HubServeCmd.Run's select: the context, or the end of ServeHTTP.
MayStop(s) == s = Main => cancelled \/ serve = "returned"

\* The plausible bug: a flag instead of sync.Once.
CallStopFlag(s) ==
    /\ at = "up" /\ stopper[s] = "idle"
    /\ MayStop(s)
    /\ stopper' = [stopper EXCEPT ![s] = IF once = "none" THEN "first" ELSE "nil"]
    /\ once' = IF once = "none" THEN "shutdown" ELSE once
    /\ httpDown' = TRUE
    /\ UNCHANGED <<firstErr, serve, cancelled, request, bootVars, loopVars>>

CallStop(s) ==
    /\ at = "up" /\ stopper[s] = "idle"
    /\ MayStop(s)
    /\ IF once = "none"
         THEN /\ stopper' = [stopper EXCEPT ![s] = "first"]
              /\ once' = "shutdown" /\ httpDown' = TRUE
         ELSE /\ stopper' = [stopper EXCEPT ![s] = "blocked"]
              /\ UNCHANGED <<once, httpDown>>
    /\ UNCHANGED <<firstErr, serve, cancelled, request, bootVars, loopVars>>

\* The plausible bug: Shutdown without the 5s deadline.
ShutdownHTTPPatient ==
    /\ once = "shutdown" /\ once' = "drained"
    /\ \A r \in Request : request[r] # "in"
    /\ open' = open \ {"listener"}
    /\ UNCHANGED <<firstErr, stopper, cfg, upstream, disk, wal, at, lives, loopVars, httpVars>>

\* httpServer.Shutdown waits for the handlers, for 5s at most; then the
\* listener is closed, which Shutdown only does if ServeHTTP ran.
ShutdownHTTP ==
    /\ once = "shutdown" /\ once' = "drained"
    /\ firstErr' = (\E r \in Request : request[r] = "in")
    /\ open' = open \ {"listener"}
    /\ UNCHANGED <<stopper, cfg, upstream, disk, wal, at, lives, loopVars, httpVars>>

\* Unsubscribe, client Close, server Shutdown and WaitForShutdown.
CloseNATS ==
    /\ once = "drained" /\ once' = "natsClosed"
    /\ open' = open \ {"commitSub", "syncSubs", "client", "server"}
    /\ UNCHANGED <<firstErr, stopper, cfg, upstream, disk, wal, at, lives, loopVars, httpVars>>

\* close(catchupStop); DisableFossilSyncOverNATS leaves the channel nil.
StopCatchup ==
    /\ once = "natsClosed" /\ once' = "catchupWait"
    /\ UNCHANGED <<firstErr, stopper, bootVars, loopVars, httpVars>>

\* The plausible bug: catchupStop is closed and catchupDone not awaited.
StopCheckpointEarly ==
    /\ once = "catchupWait" /\ once' = "checkpointWait"
    /\ UNCHANGED <<firstErr, stopper, bootVars, loopVars, httpVars>>

\* <-catchupDone, then close(checkpointStop).
StopCheckpoint ==
    /\ once = "catchupWait" /\ catchup \in {"none", "done"}
    /\ once' = "checkpointWait"
    /\ UNCHANGED <<firstErr, stopper, bootVars, loopVars, httpVars>>

CheckpointStopped ==
    /\ once = "checkpointWait" /\ checkpoint = "done"
    /\ once' = "closing"
    /\ UNCHANGED <<firstErr, stopper, bootVars, loopVars, httpVars>>

\* repo.Close: the TRUNCATE checkpoint makes the file self-contained, or fails.
CloseRepo ==
    /\ once = "closing" /\ once' = "done"
    /\ open' = open \ {"repo"}
    /\ \/ wal' = FALSE /\ UNCHANGED firstErr
       \/ wal' = wal /\ firstErr' = TRUE
    /\ UNCHANGED <<stopper, cfg, upstream, disk, at, lives, loopVars, httpVars>>

StopBody ==
    \/ ShutdownHTTP \/ CloseNATS \/ StopCatchup \/ StopCheckpoint
    \/ CheckpointStopped \/ CloseRepo

StopReturns(s) ==
    /\ once = "done" /\ stopper[s] \in {"first", "blocked"}
    /\ stopper' = [stopper EXCEPT
         ![s] = IF stopper[s] = "first" /\ firstErr THEN "error" ELSE "nil"]
    /\ UNCHANGED <<once, firstErr, bootVars, loopVars, httpVars>>
-----------------------------------------------------------------------------
\* The process ends, by a crash at any moment or after Stop, and another is
\* started, perhaps with another ProjectCode.
Restart ==
    /\ at # "down" /\ lives < MaxLives
    /\ lives' = lives + 1
    /\ \E w \in Code \cup {NoCode} : cfg' = [cfg EXCEPT !.want = w]
    /\ at' = "down" /\ open' = {} /\ catchup' = "none" /\ checkpoint' = "none"
    /\ serve' = "none" /\ cancelled' = FALSE /\ httpDown' = FALSE
    /\ request' = [r \in Request |-> "none"]
    /\ once' = "none" /\ firstErr' = FALSE
    /\ stopper' = [s \in Stopper |-> "idle"]
    /\ UNCHANGED <<upstream, disk, wal>>

Next ==
    \/ NewHub
    \/ CatchupFires \/ CatchupEnds \/ CheckpointTick \/ CheckpointEnds
    \/ ServeHTTP \/ ServeReturns \/ Cancel \/ ShutdownOnCancel
    \/ \E r \in Request : RequestArrives(r) \/ RequestEnds(r)
    \/ \E s \in Stopper : CallStop(s) \/ StopReturns(s)
    \/ StopBody
    \/ Restart

Spec == Init /\ [][Next]_vars

\* NewHub goes on until it returns; the goroutines and the body of Stop keep
\* running; a request need not end, nobody but Main has to call Stop, and a
\* select that finds both a tick and the closed channel does not choose the
\* tick for ever.
FairSpec ==
    /\ Spec
    /\ WF_vars(NewHub) /\ WF_vars(CallStop(Main))
    /\ WF_vars(StopBody)
    /\ \A s \in Stopper : WF_vars(StopReturns(s))
    /\ WF_vars(CatchupEnds)
    /\ WF_vars(CheckpointTick) /\ SF_vars(CheckpointEnds)
    /\ WF_vars(ServeReturns) /\ WF_vars(ShutdownOnCancel)
-----------------------------------------------------------------------------
Returned(s) == stopper[s] \in {"nil", "error"}

\* A NewHub that returns an error has given everything back, whichever step
\* failed: hub.go's cleanup sequences name every resource acquired so far.
NoLeak == at = "failed" => open = {}

\* A hub whose Config names a project-code serves a repo with that code, also
\* when an earlier process died between cloning and comparing the codes or
\* was started with another Config.
RightProject ==
    at = "up" /\ cfg.want # NoCode => disk = cfg.want

\* Stop has torn everything down when it returns, to each of its callers,
\* also to one that came while another was still inside.
StopComplete == (\E s \in Stopper : Returned(s)) => open = {}

\* Nobody is left to use the repo that Stop has closed: the catchup and the
\* checkpoint loop have ended, and no HTTP handler is running unless the call
\* of Stop that did the work reports an error.
RepoUnused ==
    at = "up" /\ "repo" \notin open =>
        /\ catchup \in {"none", "done"} /\ checkpoint = "done"
        /\ ~firstErr => \A r \in Request : request[r] # "in"

\* Every call of Stop returns, whatever the requests in flight do.
StopTerminates ==
    \A s \in Stopper : stopper[s] # "idle" ~> Returned(s) \/ at = "down"

\* `edgesync hub serve` ends after a signal, also one that comes while NewHub
\* is still at work, unless NewHub fails; ServeHTTP, which "blocks until ctx
\* is cancelled or Stop is called" (hub.go:594), has ended too.
SignalStops ==
    /\ cancelled ~> Returned(Main) \/ at \in {"down", "failed"}
    /\ (cancelled \/ once # "none") ~> serve # "serving"

\* "After Stop returns nil, the on-disk hub.fossil is self-contained."
NilStopSelfContained == (\E s \in Stopper : stopper[s] = "nil") => ~wal
-----------------------------------------------------------------------------
\* The parts of the inductive invariant.

\* What NewHub holds after each of its steps.
Acquired ==
    [b \in Boot |->
        CASE b \in {"opened", "tuned"} -> {"repo"}
          [] b = "listening" -> {"repo", "listener"}
          [] b = "nats" -> {"repo", "listener", "server"}
          [] b = "connected" -> {"repo", "listener", "server", "client"}
          [] b = "synced" -> Held \ {"commitSub"}
          [] b = "wired" -> Held
          [] OTHER -> {}]

\* Before the hub is up it holds what NewHub has acquired; Stop gives it back
\* stage by stage, the repo last.
HoldsByStage ==
    /\ at # "up" => open = Acquired[at] /\ once = "none"
    /\ at = "up" =>
        /\ once # "done" => "repo" \in open
        /\ once \in {"natsClosed", "catchupWait", "checkpointWait", "closing", "done"}
             => open \subseteq {"repo"}
        /\ once \in {"drained", "done"} => "listener" \notin open
        /\ once = "done" => open = {}

\* The goroutines that use the repo begin with the hub and end before the
\* stages of Stop that follow theirs.
LoopsByStage ==
    /\ at # "up" => checkpoint = "none"
    /\ once \in {"checkpointWait", "closing", "done"} => catchup \in {"none", "done"}
    /\ once \in {"closing", "done"} => checkpoint = "done"

\* No handler begins once Stop has: those still there after Shutdown are what
\* firstErr stands for.
HandlersByStage ==
    /\ once # "none" => httpDown
    /\ once \notin {"none", "shutdown"} /\ ~firstErr
         => \A r \in Request : request[r] # "in"

ReturnedWhenDone == \A s \in Stopper : Returned(s) => once = "done"

\* The project-code of an open repo was compared when it was opened.
CheckedCode ==
    at \notin {"down", "cloned", "seeded", "failed"} => cfg.want \in {NoCode, disk}

IInv ==
    /\ TypeOK /\ HoldsByStage /\ LoopsByStage /\ HandlersByStage
    /\ ReturnedWhenDone /\ CheckedCode
=============================================================================
