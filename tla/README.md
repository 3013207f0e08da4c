# EdgeSync in TLA+

TLA+ models of EdgeSync (hub daemon, leaf agent, NATS bridge, iroh sidecar,
notify messaging), the TLC runs that check them and the TLAPS proofs about
them. Module and definition names follow the Go and Rust names where TLA+
allows it; `PROJECT.json` maps every definition to the lines it models.

To check a run: `tlc -config HubPublish.cfg MCHubPublish`. To check the
proofs: `tlapm HubPublishProofs.tla`.

## The system

| Part | State it keeps | Operations | Talks to | Modelled in |
|---|---|---|---|---|
| hub: commit publication (`hub/repo.go`, `hub/hub.go`) | event table, watermark `publishedRID` in memory and in the repo's config table | `Repo.Commit`, HTTP xfer wrapper, `publishNewCommits`, `initPublishWatermark`, startup catchup | publishes on `<prefix>.<project>.commit` | `HubPublish` |
| hub: process (`hub/hub.go`, `hub/clone.go`, `cli/hub_serve.go`) | repo file, listener, NATS server and client, subscriptions, checkpoint and catchup goroutines, signal context | `NewHub`, `ServeHTTP`, `Stop`, `edgesync hub serve` | libfossil, nats-server | `HubLifecycle` |
| hub mesh (`hub/hub.go`, `hub/nats_transport.go`) | one repo per hub, queues of the subscriptions | `.commit` handler, addressed pull on `.sync.<peer-id>`, leaf push on `.sync` | other hubs over core NATS | `HubMesh`, `ReplicatedRepo` |
| leaf sync (`leaf/agent/agent.go`, `nats.go`, `serve_nats.go`, `bridge/`) | commits per repo, unsent list, the session of each leaf | poll cycle, `NATSTransport.RoundTrip`, `ServeNATS`, `Bridge.Start`, `Stop`, `handleMessage` | one subject per project, first reply wins | `LeafSync` |
| autosync (`leaf/agent/autosync.go`, `code_artifact.go`) | local repo and checkout per agent, hub repo | `AutosyncCommit`, `Agent.Commit`, `Agent.Sync` | hub repo | `Autosync` |
| agent process (`leaf/agent/agent.go`, `sidecar.go`, `clone.go`, `leaf/cmd/leaf`, `cli/sync_*.go`) | open resources, context, poll loop, `syncNow` and signal channels, sidecar child | `New` (with the clone), `Start`, `SyncNow`, `pollLoop`, `monitorSidecar`, `Stop`, `sidecar.*`, the signal loop of the hosts | sidecar over a Unix socket, signals | `AgentLifecycle` |
| NATS over iroh (`leaf/agent/nats_mesh.go`, `iroh-sidecar/src/tunnel.rs`) | role, tunnels, leaf remotes, links | `NATSMesh.Start`, `establishTunnels`, tunnel listener | sidecars of other agents | `TunnelMesh` |
| iroh exchange (`iroh-sidecar/src/server.rs`, `acceptor.rs`, `leaf/agent/iroh.go`) | connection cache behind a mutex, QUIC connections and streams | `handle_exchange`, `get_or_connect`, accept loop | other sidecars, the agent's callback server | `IrohExchange` |
| notify: watch (`leaf/agent/notify/notify.go`, `pubsub.go`) | channel, `closed` flag, mutex, subscription, ids the duplicate filter remembers | `Service.Watch`, its callback and closer, `EnableDedup`, `isDuplicate` | NATS dispatcher | `NotifyWatch` |
| notify: messages (`notify.go`, `store.go`, `message.go`, `cli/notify.go`) | messages in the notify repo, thread cache | `Send`, `resolveThread`, `ReadThread`, `ListThreads`, `notify send`, `ask`, `threads` | NATS subject per thread | `NotifyMessages` |
| notify: pairing (`token_store.go`, `device_registry.go`) | token list and device list, each one file of the notify repo | `StorePendingToken`, `ValidateToken`, `AddDevice`, `RemoveDevice`, `ListDevices` | libfossil commits | `Pairing` |

What is hard here, and what the properties are for: goroutines that share a
watermark and are interrupted by crashes and by a `Stop` that closes things in
a fixed order (`HubPublish`, `HubLifecycle`); notifications that are dropped,
repeated and echoed (`HubMesh`); several responders to one request, replies
that come too late, replies that are empty (`LeafSync`); checks made on a state
that another agent changes before the result is used (`Autosync`, `Pairing`);
child processes and sockets that outlive their owner (`AgentLifecycle`);
callbacks that run after a channel was closed (`NotifyWatch`); a lock held
across an await that can be cancelled (`IrohExchange`). The list, line by line,
is `hazards` in `PROJECT.json`.

## Modules

Every component module has its own state, `Init`, one action per handler or
step, and `Next`; in `TunnelMesh`, `IrohExchange` and `NotifyWatch`, which share
a proof module with another component, these names carry the prefix `Mesh`,
`Exchange` or `Watch`. Definitions introduced by a comment that begins *Fault:* or
*The plausible bug:* are mutated variants of the definition that follows them.
They are used in no specification; replacing the definition by one of them
makes the run find the property violated that `PROJECT.json` (`mutants`) names.

**HubPublish.** One hub. `publishNewCommits` is split where another goroutine
or a crash can come in between: `Acquire` (the mutex, and the early return of a
repo without a hook), `Scan`, then per rid `Emit` (hook, watermark) and
`Persist` (config row), `Release`. `Commit`, `PushBegin`/`PushLand`/`PushReturn`
and `CatchupFires` bring callers to it; `NatsLand` is the landing that nobody
scans for. A new check-in takes a rid above all others, but a push or pull may
first bring only its name: `Phantom` takes the rid, and the event appears there
when the content comes (`Receives`), perhaps below a watermark that has moved
on. `Start` is `NewHub` with the three outcomes of
`initPublishWatermark`; `StopHTTP`, `StopNATS`, `StopCatchup`, `CloseRepo`
follow `Stop`; `Crash` is possible everywhere. Observer variables (`handed`,
`onWire`, `skipped`, `grandfathered`, `missed`, `owed`, `late`) record what
became of a rid; no guard reads them. `late` holds the phantoms that were filled
when a watermark, or a scan under way, had overtaken them.

**HubLifecycle.** `NewHub` step by step with the cleanup each failure runs,
`ServeHTTP` and its context, requests that may never end, and `Stop` called
concurrently: `sync.Once` is the variable `once` with its stages, and
`stopper` says where each caller is. The caller `Main` is `edgesync hub serve`:
a signal may cancel its context from the first step of `NewHub` on, and it
calls `Stop` after the signal or when `ServeHTTP` has returned. A process may
die at any step and the next one may have another `ProjectCode`.

**ReplicatedRepo, HubMesh.** `ReplicatedRepo` is the abstract promise: a
grow-only set of commits per hub, extended by authoring a new commit or by
copying commits of another hub. `HubMesh` has the notifications, the addressed
pulls, losses, broken pulls and crashes, and implements it: `Abstract` is the
instance of `ReplicatedRepo` with the refinement mapping, `Replicates` its
specification. `publishNewCommits` is `Scan`, then `Publish` (hook and
watermark in memory) and `Persist` (`SetConfig`, which may fail) per commit; its
callers are one flag, `scanDue`, and rids have no order: `HubPublish` looks at
those. A crash between `Publish` and `Persist` makes the next process announce
the commit again. A hub without a `ServerName` has another peer id after a
restart, so that pulls for its old notifications find nobody (`Serves`).

**LeafSync.** A session is a sequence of rounds; the request carries files,
igots and gimmes, every reachable responder may handle it, the first reply
counts. A reply with cards tells the leaf what the responder has; an empty one
(`TakeEmpty`: the responder failed) is handed to libfossil as a success
(`nats.go`), and what libfossil does then is left open: it ends the session or
goes on, and counts the files of the round as sent or not (`Unanswered`). The
same freedom is left after a timeout. The observer `dropped` holds the commits
it dropped from the unsent list that way. The bridge with its Fossil server is a responder (`Server`, while it is
in `bridged`), an agent with `ServeNATS` another: `serving` is any part of
`CanServe`. `BridgeStops` takes the requests it was working on down with it;
`BridgeStarts` is the next bridge process.

**Autosync.** `AutosyncCommit` in its modes (off, on, pull only) with its
bypasses, each network or database step failing or not, next to `Agent.Commit`
(`ResolveTip`, then `AgentCommit` on the tip it found, whatever happened in
between) and a background `Agent.Sync` on the same repo. Commits are a tree
(`parent`, `branch`) and a fork is a branch with two leaves.

**AgentLifecycle.** `New`, with a clone when the repo is missing, `Start`, the
poll loop, `SyncNow`, `Stop`, and the sidecar process with its socket file
across several agent processes. The variable `host` is who runs the agent: the
`leaf` binary, `edgesync sync start`, or a program that calls the methods
itself. The first two have a channel of one signal, of which `Registered` says
what reaches it; `monitorSidecar` is a goroutine of its own. A cycle over iroh
may hang in its request until the context is cancelled (`CycleStalls`): neither
the HTTP client of `IrohTransport` nor the poll context has a deadline.

**TunnelMesh.** Agents that list each other as iroh peers: who solicits whom,
which tunnels are opened, the one connection a tunnel listener accepts, and the
leaf links that result. The leaf remote to a `NATSUpstream` is left out: it is no
tunnel.

**IrohExchange.** Requests through one sidecar to several peers: the cached
connection, the mutex around lookup and connect, QUIC connections that die, the
acceptor on the other side and its call of the agent, an id that does not parse
(`BadRequest`), a reply above the 50 MB limit (`ReceiveTooLarge`), and peers
that never answer: no step of the other side has to happen. The mutex is a
guard, released wherever its request ends (`Finish`).

**NotifyWatch.** `Watch` with the callback (pop, lock, select) and the closer
(unsubscribe, lock, close) as separate threads, a flush that fails after a
successful subscribe, and a consumer that stops reading. Queue, callback and
channel hold messages by the number of their arrival, `arrived` their ids; an
id may arrive twice, and when the duplicate filter is on, the callback asks it first,
and it forgets the older half of its ids at the bound (`MaxSeen`).

**NotifyMessages.** `Send` to a new or existing thread (commit, cache, publish),
by the agent's long-lived service (`Daemon`) or by a process of the command line
(`Command`), whose cache ends with it and which may have no NATS connection;
`notify ask` (send, subscribe, wait, time out); replies of peers; a publish that
fails with the message in the reconnect buffer or without (`PublishFails`:
`Flush` returns its error after `PublishMsg`), and the buffer that goes out when
the connection is back, after its subscriptions (`Reconnects`); `ReadThread`'s
order by file path (the file at place i has i - 1 others before it) and
`ListThreads`.

**Pairing.** Read, check, commit of the token and device lists by several
callers, expiry on a clock, failing reads (which the code takes for an absent
file) and failing commits. The observer `overwritten` records that a call
committed a list that was no longer the one in the repo, or that it had failed
to read.

## Runs

| Run | Instance | Properties | Shows |
|---|---|---|---|
| `hub_publish` | 1 committer, 1 pusher, catchup; 2 rids, 1 database fault, 2 starts | `InRidOrder`, `WatermarkSettled`, `NoLostCommit`, `BacklogDrains` | hook called in rising rid order; the watermark passes no event unsettled, phantoms filled late being the only unsettled events below it (see Divergences); no other landed commit without somebody who will scan, and (fair) every such commit is settled while the hub stays up |
| `hub_watermark_emitted` | same | `WatermarkEmitted` | **violation**: the watermark passes commits that never went out (see Divergences) |
| `hub_lifecycle` | 2 stoppers, one of them `hub serve`, 1 request, 2 project-codes, 2 processes | `NoLeak`, `RightProject`, `RepoUnused`, `StopComplete`, `StopTerminates`, `SignalStops` | no leak on a failed `NewHub`, right project, nobody on a closed repo, `Stop` complete for each caller, `Stop` ends, `hub serve` ends after a signal |
| `hub_mesh` | 2 hubs, one of them named, 2 commits, 1 loss, 1 crash | `NoteBacked`, `Replicates`, `PullCatchesUp`, `PullEnds`, `GossipEnds`, `Converges` | a notification is backed by its hub or will be sent again, also after a crash before `SetConfig`; pulls catch up, pulls never wait for each other, the echo dies out, announced commits spread, refinement of `ReplicatedRepo` |
| `leaf_sync` | 2 leaves, one of which may serve, 1 server behind a bridge, 2 commits, 3 rounds, 1 failure, 1 link flap or bridge restart | `SentMeansHeld`, `EveryLeafConverges`, `SessionEnds` | a commit leaves the unsent list of a leaf that does not serve only when another node has it or libfossil dropped it after a round without cards; whatever it drops, with one responder every leaf ends up with every commit; with two that disagree every session still ends |
| `autosync` | 2 agents, all modes, 3 commits, one `Agent.Commit` at a time among the first 2, 1 failure | `NoSilentCommit`, `ForkHasCause` | every commit made is reported to its caller; a fork at the hub has one of the three causes the code leaves open |
| `agent_lifecycle` | 3 processes on one repo, each of the three hosts | `StopReleases`, `FailedSpawnReaped`, `LoopOffRepo`, `SyncNowServed`, `StopTerminates`, `TermStops`, `AlarmIsReal` | `Stop` and a failed `New` or `Start` release what they must, the loop never uses a closed repo, `SyncNow` is followed by a later cycle unless a cycle hangs over iroh for ever, `Stop` ends, SIGTERM in the channel stops the process, the monitor reports only exits nobody asked for |
| `tunnel_mesh` | 3 agents in every assignment of roles, 2 starts each, 1 dropped stream | `OneLink` | never two links between a pair |
| `iroh_exchange` | 3 requests, 2 peers, 3 connections | `OneConnection`, `FailureHasCause`, `LockPassedOn` | one live connection per peer, an exchange fails only for a cause that arose while it ran, every request gets past the cache's lock although the exchanges of all others may hang for ever |
| `notify_watch` | channel of 2, 5 messages of 3 ids, filter of 2 ids or none | `LiveWatchNeverPanics`, `InOrderNoGaps`, `CancelCloses` | no panic on a live watch, no gap or reordering, the filter loses no id and keeps the recent ones, cancel closes the channel |
| `notify_messages` | a daemon, 2 commands, 2 projects, 1 thread, 3 messages, 1 failure | `AnnouncedIsReadable`, `ReplyIsNotQuestion` | a message that was published, or whose thread was named to the caller, can be read, listed and answered by every process; `ask` returns its own question only when a failing `Flush` left it in the reconnect buffer (see Divergences) |
| `pairing` | 2 callers, 2 tokens, 2 devices, clock 0..3, failing read and commit | `SingleUse`, `TokenKept`, `RegistryExact` | calls that do not overlap: tokens are single-use, live tokens are kept, the registry holds exactly what was paired |

*Bounds.* Each bound is a named constant. They are the smallest that let the
hazards happen: two hubs can pull from each other at once (that a third hub,
which lacks the commit, does not answer the pull is left to the proof of
`PullsCatchUp`, which is for any set of hubs; TLC checked `PullCatchesUp` once
with three hubs, two commits, one loss and no crash); two rids are needed
for an order, for a list with a failed lookup in the middle of it, for a
crash between the two, and for a phantom with a commit above it; a second start is needed for resuming from disk; a third
agent process is needed for a sidecar that outlives an agent which itself
inherited one; a channel of 2 with 5 messages fills up, and a filter of 2 ids
forgets one of 3; two commands and a daemon are needed for a thread cached in
one process and looked for in another; a clock of 3 with a
lifetime of 2 reaches the very instant of expiry. The safety properties of
every passing run are also proved for all values of the constants (see Proofs). Type invariants are stated in
every module and hold on the same instances; those of the modules with proofs
are proved as part of their inductive invariants (of `HubMesh`'s, the part that
is needed). Every inductive invariant was checked on the instance of its run
before it was proved. Deadlock is off where a system may stop by itself: a
process that was stopped, or bounds that are used up.

*Symmetry* is used in runs that check invariants only.

## Fairness

- `HubPublish`: a goroutine inside `publishNewCommits` goes on; `Acquire` is
  strongly fair because Go's mutex hands itself over to a starving waiter; a
  handler returns; the catchup's timer fires. Nobody has to commit, push, stop
  or start.
- `HubLifecycle`: `NewHub`, the body of `Stop`, the goroutines it waits for and
  `ServeHTTP` go on, and `hub serve` (`CallStop(Main)`) leaves its select when
  it can. Nobody else has to call `Stop`. Requests need never end; `Shutdown` has a deadline. The
  checkpoint loop is strongly fair towards its stop channel, since `select`
  chooses at random among ready cases.
- `HubMesh`: scans and handlers end; a pull ends when the peer answers or at
  once when nobody is subscribed. No timeout has to fire and no hub has to
  come back.
- `LeafSync`: the poll timer fires, responders handle what they receive, a
  request without a responder times out, the link comes back, a stopped bridge
  is started again.
- `AgentLifecycle`: a cycle ends unless it stalls (requests over NATS time
  out), and one that stalled over iroh ends when the context is cancelled, which
  aborts its request; `Stop` goes on; servers see the cancelled context; the host
  reads its signal channel. Neither the poll timer nor the sidecar or a peer has
  to cooperate.
- `TunnelMesh` (only for `PeersStayLinked`, below): each turn of
  `establishTunnels` ends (10 s per request) and servers dial their remotes.
- `IrohExchange`: tokio's mutex is first come, first served, and a connect
  attempt ends with a connection or an error. Nothing else: the code sets no
  timeout, so no stream has to be taken, answered or read.
- `NotifyWatch`: callback and closer go on; the closer's lock is strongly fair.
  The consumer need not read.

## Proofs

| Module | Theorem | Property |
|---|---|---|
| `HubPublishProofs` | `TypeCorrect`, `Invariance`, `OrderedPublish`, `CrashSafeWatermark`, `NoCommitLost` | `TypeOK`, `IInv`, `InRidOrder`, `WatermarkSettled`, `NoLostCommit` |
| `HubMeshProofs` | `NotesAreBacked`, `PullsCatchUp`, `MeshReplicates` | `NoteBacked`, `PullCatchesUp`, `Replicates` |
| `LeafTransportProofs` | of `LeafSync`: `SentCommitsAreHeld` | `SentMeansHeld` |
| | of `TunnelMesh`: `OneLinkPerPair` | `OneLink` |
| | of `IrohExchange`: `OneConnectionPerPeer`, `FailuresHaveCauses` | `OneConnection`, `FailureHasCause` |
| `HubLifecycleProofs` | `Staged`, `NewHubLeaksNothing`, `ServesRightProject`, `StopIsComplete`, `ClosedRepoIsUnused` | `IInv`, `NoLeak`, `RightProject`, `StopComplete`, `RepoUnused` |
| `AgentLifecycleProofs` | `Staged`, `StopReleasesAll`, `FailedSpawnIsReaped`, `LoopNeverOnClosedRepo`, `AlarmsAreReal` | `IInv`, `StopReleases`, `FailedSpawnReaped`, `LoopOffRepo`, `AlarmIsReal` |
| `NotifyProofs` | of `Pairing`: `PairingExact`, `TokensAreSingleUse`, `TokensAreKept`, `RegistryIsExact` | `IInv`, `SingleUse`, `TokenKept`, `RegistryExact` |
| | of `NotifyWatch`: `LiveWatchesDoNotPanic`, `WatchersGetAllInOrder` | `LiveWatchNeverPanics`, `InOrderNoGaps` |
| `NotifyMessagesProofs` | `AskGetsAReply`, `AnnouncedMessagesAreReadable`, `LogsAreInOrder` | `ReplyIsNotQuestion`, `AnnouncedIsReadable`, `ReadBySecond` |
| `AutosyncProofs` | `Invariance`, `CommitsAreReported`, `ForksHaveCauses` | `IInv`, `NoSilentCommit`, `ForkHasCause` |

*HubPublish* assumes that committers, pushers and the catchup are different
goroutines (`CallerAssumption`) and natural bounds (`BoundAssumption`). None of
the three properties is inductive. `WatermarkSettled` needs to know that moving
the watermark along a list passes over nothing: `ListComplete` says that a list
lies above the watermark and contains every unsettled event below its greatest
rid, phantoms filled late aside. It holds because a check-in with a new rid lies
above the list, because one that fills a phantom below its greatest rid is
`late` by definition (`Overtaken`), and because the lock (`MutualExclusion`)
keeps every other goroutine from moving the watermark while a list exists. So
`CrashSafeWatermark` and `Invariance` say what the scan by `objid >
publishedRID` does guarantee; `PushesAnnounced` is what it does not. `InRidOrder` needs `LogBelowWatermark`. `WatermarkIsEvent` bounds
both watermarks by events, so that a commit landing later lies above them.
`NoLostCommit` needs `DownIsEmpty` for a start with a backlog.

*HubMesh* assumes natural bounds and that `NoNote` is not a notification.
`NoteBacked` is preserved because repos only grow and a hub forgets that it
announced a commit only in a crash, after which it is down until the restart
that makes the catchup due, and the scan then lists the commit again or finds it
below the persisted watermark (`BackedStays`). New notifications are backed
because what a hub has announced, saved or listed is in its repo (`ListHeld`),
which also gives `PullsCatchUp`. The refinement maps
`authored` and `repo` to themselves; `Land` and `LeafPush` are `Author`, `Pull`
and `PullFails` are `Copy`, everything else stutters.

*LeafSync* assumes that agents and servers are different nodes and that those
which may serve are agents. `SentMeansHeld` is not inductive: when a reply is
taken the files of the round leave the unsent list and those of the reply enter
the repo, so whoever replied must have both (`RepliesBacked`); it must be
somebody else, so a request is with servers and serving agents only
(`AskedServe`); a round without cards may leave the unsent list or not, and what
leaves it then is `dropped` (`UnansweredKeeps`, `AgainKeeps`); and the reply must belong to the round it is taken in, so none
outlives its session (`IdleIsQuiet`), although requests do.

*TunnelMesh* assumes that EndpointIds are ordered (they are compared as
strings; `Agent` is a set of numbers). Only tunnels that were to be solicited
exist (`TunnelsWanted`) and every link came through a tunnel to a server that
offers one (`LinksTunnelled`): two links between a pair would need each id to
be smaller than the other, or a leaf that offers a tunnel.

*IrohExchange*: every live connection is the cached one of its peer
(`AliveCached`), because a request that is connecting holds the lock
(`ConnectorHoldsLock`) and connects only when the cached one is not live. Nothing
is assumed of the peers.

`FailuresHaveCauses` has an invariant of its own: an exchange whose stream is in
use has a live connection or a fault (`StreamAccounted`), because
`get_or_connect` looks at the cached connection under the lock.

*HubLifecycle* assumes only that `hub serve` is one of the callers of `Stop`,
that no project-code is the empty one, and at least one process. The invariant
goes by stages. `HoldsByStage`: before the hub is up it holds exactly what
`NewHub` has acquired so far (`Acquired`), which is what makes each hand-written
cleanup complete or not; after that `Stop` gives back the listener, the NATS
part and, last, the repo. `LoopsByStage` and `HandlersByStage` say which of the
catchup, the checkpoint loop and the handlers may still run in each stage of
`Stop`, and that a handler left behind is what `firstErr` stands for.
`ReturnedWhenDone` is `sync.Once`. `RightProject` needs `CheckedCode`: the code
was compared when the repo was opened, and neither file nor Config changes
before the process ends. The theorems cover any number of callers, requests and
crashed processes.

*AgentLifecycle* assumes at least one process. `HeldByStage` and `LoopByStage`
say that the repo is open from `New` to the last step of `Stop` and that the
loop runs only between the end of `Start` and the wait of `Stop`.
`SidecarByStage` follows the child: none before the spawn, none of a later
process, dead once reaped. It holds although sidecars of earlier processes
share the socket path, take the POST meant for this one, or answer `waitReady`.
`AlarmIsReal` is an action property; it follows from `CancelledByStage`: the
context is cancelled in every stage of `Stop`.

*Pairing* assumes a positive lifetime and natural bounds; nothing about the
number of processes. The properties relate a commit to a read some steps
earlier, so the invariant is about jobs under way: `StoreJobs`, `ConsumeJobs`
and `DeviceJobs` say how the list a job will write differs from the one it read
(its own entry, and tokens that had expired by then), and that no two stores
are for one token. If the list read is still the newest when the job commits,
`TokensExact` carries over: a pending token has the expiry it was created with
and a used token is gone.

*NotifyWatch* assumes a channel and a filter that hold at least one entry.
`Gated` says who holds the mutex and what has closed the channel; the panic is
excluded because a callback in its select holds the mutex and found `closed`
unset, and the closer needs the mutex to set it. `InOrderNoGaps` is about
`Given`, what the consumer took, the channel and the callback's message, one
after the other: a step leaves `Given` alone, appends what the dispatcher takes
(`PopGives`), or drops its last message, which happens only after the
cancellation or on a failed watch. With `PendingIsRest` the queue continues
`Given` without a gap. For the filter, `SeenTaken` says that a remembered id was
taken before, so that what is filtered is no first message, and `SeenAreLast`
that the filter remembers the last ids of `Given`, all of them or at least the
half it keeps: an id it lets through twice is further back than that.

*NotifyMessages* assumes natural bounds and that commands are not daemons. The
invariant follows a message from its draft to the bus: ids under way differ
(`DraftsApart`), an uncommitted one is new to the repo (`UncommittedIsNew`), and
from its commit on a message is stored (`CommittedIsStored`), hence so is
everything published or reported. `AskGetsAReply` needs the first of these: the
service that publishes the reply is another one than the asker, which is
waiting; and a message that comes out of a reconnect buffer was put there by a
failing publish, so its id is `unsure`. That stored messages are found is proved of the readers: a thread has
finitely many files since ids are unique (`FilesFinite`), their paths are a
strict total order (`PathsOrdered`), so that the number of files before a file
is a bijection to the places of the log (`PlacesTaken`); the greatest time and
priority exist because both are bounded. `LogsAreInOrder` bounds the divergence
`ReadOldestFirst` below: a log is out of order within a second only.

*Autosync* assumes natural bounds. `NoSilentCommit` needs that only an attempt
about to push owes a commit (`PendingByStep`). `ForkHasCause` needs an argument
about trees. Repos are closed under parents (`Repos`). Two lemmas say that, as
long as all commits are on trunk, a repo with a single leaf is a chain whose
end is this leaf (`SingleLeafIsLinear`, by a counterexample pair with the
greatest first element) and that a chain has no two leaves
(`LinearIsNotForked`, by the least commit after a leaf). `Guarded` then holds
until a cause occurs: the attempt at work is the only one, its pull made the
hub a part of its repo, its fork check found the checkout to be the single
leaf, so its checkin extends a chain, and its push, whether its answer is lost
or not, leaves the hub a chain.

Only model-checked: the liveness properties of the runs, since the proof system
does not reason about fairness. (`ReadBySecond` is in no run; TLC checked it
once with `MaxTime = 2` and `MaxMsgs = 2`.)

## Assumed of external code

- libfossil: a new commit takes a rid above all rids in use, and a phantom keeps
  its rid when its content arrives (`docs/architecture/sync-protocol.md:202`,
  `:214`); a full `Sync`
  or `Clone` leaves the receiver with the sender's commits, and a broken one
  with a part; `Create` fails if the file exists; `Close` with its TRUNCATE
  checkpoint makes the file self-contained or reports an error; a failed
  `Clone` may or may not leave a file; the leaf table lists the commits without
  a child on their branch; an own commit leaves the unsent list when a round
  that carried it has been answered with cards. What an empty reply or a timeout
  does to the list and the session is not assumed.
- NATS: core delivery is at most once and in order per subscription; one
  callback per subscription at a time; the first reply answers a request; a
  request nobody is subscribed to fails at once; the leaf handshake may fail.
- iroh: a connect attempt ends; a connection can die at any time; a live one
  need not carry an answer.
- Short thread ids and tokens are unique.

## Divergences

Statements in comments and docs that the code does not keep. The first is the
run `hub_watermark_emitted`. The others are stated in the modules and are
reproduced by replacing the properties of the module's `.cfg` by the one named.

- `WatermarkEmitted` (`hub/repo.go:62`: "publishedRID is the highest 'ci' event
  rid that has been emitted on the .commit subject"). `Stop` closes the NATS
  client before it stops the catchup, and does not stop `Repo.Commit` callers;
  their publishes fail, the hook only logs, the watermark moves and is
  persisted. The next session does not announce those commits.
- `PushesAnnounced` (`hub/repo.go:241`: "after every xfer request so commits
  arriving via `fossil push` ... emit the same .commit notification"). A check-in
  that took its rid as a phantom and gets its content after a commit with a
  higher rid was announced or snapshotted is below the watermark; no scan lists
  it (the observer `late`).
- `AskBlocksForReply` (`docs/architecture/notify-messaging.md:113`: "Send + block
  for reply"). When `Flush` fails after `PublishMsg` has buffered the question,
  `Send` only logs it; `ask` subscribes, and after the reconnect the question
  comes back, since the connection has no `NoEcho`, and is printed as the reply
  (the observer `unsure`).
- `EveryEventHanded` (`hub/repo.go:233`: "invokes r.publish for every 'ci'
  event ..."). A rid whose uuid lookup fails is passed by the next rid.
- `EveryLandingFunnels` (`hub/repo.go:238`: "Both code paths that can land a new
  commit funnel through here"). The `.sync` handler and the `.commit` pull land
  commits without a scan.
- `ReadFailureRepublishes` (`hub/repo.go:324`: failure to read "leaves
  publishedRID at its zero value"). A failed read takes the max-rid snapshot of
  a first start and drops the backlog.
- `NilStopSelfContained` (`hub/hub.go:156`: "After Stop returns nil, the on-disk
  hub.fossil is self-contained"). Only the caller that ran the body sees its
  error; the others return nil.
- `NeverPanics` (`notify/notify.go:187`, on the `closed` flag). When the flush
  after a successful subscribe fails, `Watch` closes the channel without the
  flag and leaves the subscription: a later message is sent on a closed channel.
- `ReadOldestFirst` (`notify/store.go:140`: "sorted by timestamp (oldest
  first)"). File names have whole seconds and then a random id.
- `ThreadInProject` (`docs/architecture/notify-messaging.md:64`). The thread
  cache is keyed by the short id alone and answers for another project.
- `NoMissedReply` (`docs/architecture/notify-messaging.md:113`: "Send + block
  for reply"). `ask` subscribes after it has published.
- `LockedCommits` (`docs/architecture/checkout-merge.md:103`: "Pull + lock +
  fork-check + commit + push"). There is no lock: two agents that pulled before
  either pushed fork the hub.
- `PeersConverge` with `CanServe = {a, b}`, `Server = {}`, no deadlock check (`README.md:46`: "No
  bridge or server needed"). An agent answers its own requests, and when its
  own reply is the first the session ends with nothing exchanged.
- `ReadyIsReady` (`sidecar.go:34`: "blocks until it's ready"). The sidecar of an
  earlier process, still on the socket path, answers instead.
- `SkippedSolicitsMe`, and `PeersStayLinked` with `AllStart` and two agents (the
  mesh design note: "they will connect to me", "Tunnel failure is defined out of
  existence"). A peer with a greater id than a hub's is never linked to it; a
  tunnel listener accepts one connection and nothing asks for another tunnel.
- `edgesync sync now` sends SIGUSR1 to the process whose id it is given
  (`cli/sync_now.go`: "PID of running agent to signal"); an agent run by
  `edgesync sync start` registers SIGINT and SIGTERM only and the Go runtime
  ignores the signal. In the `leaf` binary a SIGTERM that finds an unread SIGUSR1
  in the channel of one is dropped. `Registered` and `Signal` model both;
  `TermStops` is about a SIGTERM that entered the channel.
- `ask --timeout` without a NATS connection reports a timeout at once: `Watch`
  returns a closed channel (`Subscribe`).
- Pairing: without the conditions on `overwritten`, two overlapping
  `ValidateToken` calls both succeed with one token, `AddDevice` and
  `RemoveDevice` undo each other, and a failed read writes back an empty list.

## Not modelled

- The second call of `ServeHTTP` on one hub (it closes `ready` twice), NATS
  callbacks still running when the hub or agent closes its repo, somebody else
  taking the reserved leaf port.
- Hub users: `AddUser`, `SetUserCaps` and `RemoveUser` are one libfossil
  statement each and `EnsureUser` looks and creates under one mutex; no other
  code of the repository reads the table.
- The WebSocket dialer (`leaf/wsdialer`): a `net.Conn` for the browser, in its
  own words spike scope, that no program of the repository passes to the agent.
- The duplicate filter shared by two `Watch`es of one subscriber, which then
  take each other's messages for duplicates: only a test enables the filter,
  with one watch.
- Peer registry row and sync outcome logging, telemetry, configuration,
  command-line parsing, `doctor`, the WASM entry point: no state that another
  part reads. Commands that run a protocol are in the module of that protocol.
- The iroh endpoint's key file: loaded or created once before anything runs.
- The simulation harness and `Buggify`: test code.
- Payload bytes, wire encoding, file contents and merges: libfossil.

## Plan

`HubPublish`'s set of announced commits against one hub of `HubMesh` is the next
refinement worth stating and proving; `EnsureUser` against writers in other
processes is the next component.
