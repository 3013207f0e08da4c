--------------------------- MODULE NotifyMessages ---------------------------
(***************************************************************************)
(* Sending, asking and reading messages (leaf/agent/notify/notify.go,      *)
(* store.go, message.go, service_methods.go; cli/notify.go).               *)
(*                                                                         *)
(* Daemons keep a Service, with its cache of thread ids, as long as they   *)
(* run; a command of the CLI makes one for a single Send or ask.  They all *)
(* share the notify repo and may or may not have a NATS connection.  A     *)
(* peer answers a question after it was published.  Short ids are taken to *)
(* be unique: a thread stands for both its ids, and the number of a        *)
(* message is the rank of its random id among the file names.              *)
(*                                                                         *)
(* nats.go keeps what is published while the connection is down, and sends *)
(* it after a reconnect, subscriptions first; Flush reports an error after *)
(* 10 s.                                                                   *)
(***************************************************************************)
EXTENDS Naturals, Sequences, FiniteSets, SequencesExt

CONSTANTS
  Daemon,        \* long-lived services
  Command,       \* commands of the CLI that run at the same time
  Project,
  Thread,        \* thread ids NewMessage can draw
  MaxMsgs,       \* bound on messages
  TicksPerSecond,
  MaxTime,       \* bound on the clock
  MaxFailures    \* bound on failing commits and publishes

ASSUME MessagesAssumption ==
  /\ TicksPerSecond \in Nat \ {0}
  /\ {MaxMsgs, MaxTime, MaxFailures} \subseteq Nat
  /\ Daemon \cap Command = {}

Service == Daemon \cup Command
Rank == 0..2     \* priorityRank: info, action_required, urgent
Message == [id : 1..MaxMsgs, thread : Thread, project : Project, at : 0..MaxTime,
            priority : Rank]

VARIABLES
  stored,     \* messages committed to the notify repo
  cache,      \* cache[s]: the threads in s.threadMap
  call,       \* call[s]: the Send or ask that s runs
  bus,        \* messages published on NATS
  buffered,   \* buffered[s]: messages in the reconnect buffer of s's connection
  replied,    \* questions a peer has answered
  now,
  failures

\* Observers.
VARIABLES
  sent,       \* messages whose Send has returned without an error
  unsure,     \* ids of messages a failing publish left in a buffer
  answers     \* <<question, reply>>: what each ask has returned, as ids

vars == <<stored, cache, call, bus, buffered, replied, now, failures, sent, unsure,
          answers>>

PeerId == 0      \* stands for the id of a peer's reply
Idle == [step |-> "idle"]
Call == [step : {"commit", "publish", "subscribe", "wait"}, msg : Message,
         ask : BOOLEAN, nats : BOOLEAN]

TypeOK ==
  /\ stored \subseteq Message
  /\ cache \in [Service -> SUBSET Thread]
  /\ call \in [Service -> {Idle} \cup Call]
  /\ bus \subseteq Message /\ replied \subseteq bus
  /\ buffered \in [Service -> SUBSET Message]
  /\ now \in 0..MaxTime
  /\ failures \in 0..MaxFailures
  /\ sent \subseteq Message
  /\ unsure \subseteq 1..MaxMsgs
  /\ answers \subseteq (1..MaxMsgs) \X (0..MaxMsgs)
  \* A file holds one message.
  /\ \A m, n \in stored : m.id = n.id => m = n

Init ==
  /\ stored = {}
  /\ cache = [s \in Service |-> {}]
  /\ call = [s \in Service |-> Idle]
  /\ bus = {}
  /\ buffered = [s \in Service |-> {}]
  /\ replied = {}
  /\ now = 0
  /\ failures = 0
  /\ sent = {}
  /\ unsure = {}
  /\ answers = {}

Fail ==
  /\ failures < MaxFailures
  /\ failures' = failures + 1

Step(s, step) == call' = [call EXCEPT ![s].step = step]

-----------------------------------------------------------------------------
(* Services come and go *)

\* A daemon closes its Service and opens another one: the cache is gone.
RestartService(s) ==
  /\ call[s] = Idle
  /\ cache[s] # {}
  /\ cache' = [cache EXCEPT ![s] = {}]
  /\ UNCHANGED <<stored, call, bus, buffered, replied, now, failures, sent, unsure,
                 answers>>

\* Only a command asks.
Asking(s) == IF s \in Daemon THEN {FALSE} ELSE BOOLEAN

\* The agent's service has a connection, a command has one with --nats.
Connected(s) == IF s \in Daemon THEN {TRUE} ELSE BOOLEAN

\* The services after the calls of S have returned: a command's process ends
\* with its call, and what its connection still holds of buf is gone.
Ended(S, buf) ==
  /\ call' = [s \in Service |-> IF s \in S THEN Idle ELSE call[s]]
  /\ cache' = [s \in Service |-> IF s \in S \cap Command THEN {} ELSE cache[s]]
  /\ buffered' = [s \in Service |-> IF s \in S \cap Command THEN {} ELSE buf[s]]

-----------------------------------------------------------------------------
(* Send *)

\* Messages that exist; a failed commit leaves none.
Drafts == {call[s].msg : s \in {x \in Service : call[x] # Idle}}

\* NewMessage draws a random id and a random thread, which nothing has yet.
NewId(id) == \A m \in stored \cup Drafts : m.id # id
NewThread(t) == \A m \in stored \cup Drafts : m.thread # t

\* The default of --priority is info for send and action_required for ask.
NewMessage(s, id, t, p, ask, nats) ==
  call' = [call EXCEPT ![s] = [step |-> "commit", ask |-> ask, nats |-> nats,
             msg |-> [id |-> id, thread |-> t, project |-> p, at |-> now,
                      priority |-> IF ask THEN 1 ELSE 0]]]

\* Send without ThreadShort: a thread of its own.
SendNew(s, p, ask, nats) ==
  \E id \in 1..MaxMsgs, t \in Thread :
    /\ call[s] = Idle
    /\ NewId(id) /\ NewThread(t)
    /\ NewMessage(s, id, t, p, ask, nats)
    /\ UNCHANGED <<stored, cache, bus, buffered, replied, now, failures, sent, unsure,
                   answers>>

\* resolveThread: the cache, whatever the project; else the project's files.
\* Nothing is sent when neither knows the thread.
ResolveThread(s, p, t) ==
  \/ t \in cache[s]
  \/ \E m \in stored : m.thread = t /\ m.project = p

\* Send with ThreadShort.
SendTo(s, p, t, ask, nats) ==
  \E id \in 1..MaxMsgs :
    /\ call[s] = Idle
    /\ ResolveThread(s, p, t)
    /\ NewId(id)
    /\ NewMessage(s, id, t, p, ask, nats)
    /\ cache' = [cache EXCEPT ![s] = @ \cup {t}]
    /\ UNCHANGED <<stored, bus, buffered, replied, now, failures, sent, unsure, answers>>

\* CommitMessage, and the thread goes into the cache, which nobody else reads.
Commit(s) ==
  /\ call[s].step = "commit"
  /\ stored' = stored \cup {call[s].msg}
  /\ cache' = [cache EXCEPT ![s] = @ \cup {call[s].msg.thread}]
  /\ Step(s, "publish")
  /\ UNCHANGED <<bus, buffered, replied, now, failures, sent, unsure, answers>>

\* Fault: a failing commit does not stop the send.
CommitIgnored(s) ==
  /\ call[s].step = "commit"
  /\ Fail
  /\ Step(s, "publish")
  /\ UNCHANGED <<stored, cache, bus, buffered, replied, now, sent, unsure, answers>>

CommitFails(s) ==
  /\ call[s].step = "commit"
  /\ Fail
  /\ Ended({s}, buffered)
  /\ UNCHANGED <<stored, bus, replied, now, sent, unsure, answers>>

\* An ask that takes a message of project p and thread t for its reply; those
\* whose connection is up get one that a service or a peer publishes.
Watches(s, p, t) ==
  call[s].step = "wait" /\ call[s].msg.project = p /\ call[s].msg.thread = t
Waiting(p, t) == {s \in Service : Watches(s, p, t) /\ buffered[s] = {}}

\* The reply ends those asks; a Send of s that goes with it returns, to its
\* caller or to the rest of ask, and leaves queue in its connection's buffer.
Deliver(S, reply) == answers' = answers \cup {<<call[s].msg.id, reply>> : s \in S}

SendReturns(s, S, queue) ==
  /\ sent' = sent \cup {call[s].msg}
  /\ unsure' = unsure \cup {m.id : m \in queue}
  /\ LET done == S \cup (IF call[s].ask THEN {} ELSE {s}) IN
       /\ call' = [x \in Service |->
             IF x \in done THEN Idle
             ELSE IF x = s THEN [call[s] EXCEPT !.step = "subscribe"] ELSE call[x]]
       /\ cache' = [x \in Service |-> IF x \in done \cap Command THEN {} ELSE cache[x]]
       /\ buffered' = [x \in Service |->
             IF x \in done \cap Command THEN {}
             ELSE IF x = s THEN buffered[x] \cup queue ELSE buffered[x]]

\* Fault: ask watches the thread before it sends.
PublishWatched(s) ==
  /\ call[s].step = "publish" /\ call[s].nats /\ buffered[s] = {}
  /\ LET S == Waiting(call[s].msg.project, call[s].msg.thread)
               \cup (IF call[s].ask THEN {s} ELSE {}) IN
       Deliver(S, call[s].msg.id) /\ SendReturns(s, S, {})
  /\ bus' = bus \cup {call[s].msg}
  /\ UNCHANGED <<stored, replied, now, failures>>

Publish(s) ==
  /\ call[s].step = "publish" /\ call[s].nats /\ buffered[s] = {}
  /\ LET S == Waiting(call[s].msg.project, call[s].msg.thread) IN
       Deliver(S, call[s].msg.id) /\ SendReturns(s, S, {})
  /\ bus' = bus \cup {call[s].msg}
  /\ UNCHANGED <<stored, replied, now, failures>>

\* Repo-only mode.
Unpublished(s) ==
  /\ call[s].step = "publish" /\ ~call[s].nats
  /\ SendReturns(s, {}, {})
  /\ UNCHANGED <<stored, bus, replied, now, failures, answers>>

\* PublishMsg fails, or the Flush after it, which leaves the message in the
\* buffer; Send logs the error and returns the message.
PublishFails(s) ==
  /\ call[s].step = "publish" /\ call[s].nats
  /\ Fail
  /\ \E queue \in {{}, {call[s].msg}} : SendReturns(s, {}, queue)
  /\ UNCHANGED <<stored, bus, replied, now, answers>>

\* The connection of s is back: the subscription of its ask is renewed, then
\* the buffer goes out.  The CLI connects without NoEcho.
Reconnects(s) ==
  \E m \in buffered[s] :
    LET S == Waiting(m.project, m.thread)
               \cup {x \in {s} : Watches(x, m.project, m.thread)} IN
      /\ bus' = bus \cup {m}
      /\ Deliver(S, m.id)
      /\ Ended(S, [buffered EXCEPT ![s] = @ \ {m}])
      /\ UNCHANGED <<stored, replied, now, failures, sent, unsure>>

-----------------------------------------------------------------------------
(* The rest of ask *)

\* Watch: a closed channel, and the end of ask, without a connection.
Subscribe(s) ==
  /\ call[s].step = "subscribe"
  /\ IF call[s].nats
       THEN Step(s, "wait") /\ UNCHANGED <<cache, buffered>>
       ELSE Ended({s}, buffered)
  /\ UNCHANGED <<stored, bus, replied, now, failures, sent, unsure, answers>>

\* A peer that saw the question publishes a reply in the thread.
PeerReplies(q) ==
  /\ q \in bus \ replied
  /\ replied' = replied \cup {q}
  /\ Deliver(Waiting(q.project, q.thread), PeerId)
  /\ Ended(Waiting(q.project, q.thread), buffered)
  /\ UNCHANGED <<stored, bus, now, failures, sent, unsure>>

\* ask --timeout: exit code 2.
AskTimesOut(s) ==
  /\ call[s].step = "wait"
  /\ Ended({s}, buffered)
  /\ UNCHANGED <<stored, bus, replied, now, failures, sent, unsure, answers>>

Tick ==
  /\ now < MaxTime
  /\ now' = now + 1
  /\ UNCHANGED <<stored, cache, call, bus, buffered, replied, failures, sent, unsure,
                 answers>>

Next ==
  \/ \E s \in Daemon : RestartService(s)
  \/ \E s \in Service :
       \/ \E p \in Project, ask \in Asking(s), nats \in Connected(s) :
            SendNew(s, p, ask, nats) \/ \E t \in Thread : SendTo(s, p, t, ask, nats)
       \/ Commit(s)
       \/ CommitFails(s)
       \/ Publish(s)
       \/ Unpublished(s)
       \/ PublishFails(s)
       \/ Reconnects(s)
       \/ Subscribe(s)
       \/ AskTimesOut(s)
  \/ \E q \in bus : PeerReplies(q)
  \/ Tick

Spec == Init /\ [][Next]_vars

-----------------------------------------------------------------------------
(* Reading *)

\* FilePath: <project>/threads/<short>/<unix seconds>-<msg short>.json.
PathBefore(m, n) ==
  LET second(x) == x.at \div TicksPerSecond IN
    second(m) < second(n) \/ (second(m) = second(n) /\ m.id < n.id)

Files(p, t) == {m \in stored : m.project = p /\ m.thread = t}

Before(m) == {n \in Files(m.project, m.thread) : PathBefore(n, m)}

\* ReadThread sorts the paths: the file at i has i - 1 others before it.
ReadThread(p, t) ==
  [i \in 1..Cardinality(Files(p, t)) |->
     CHOOSE m \in Files(p, t) : Cardinality(Before(m)) = i - 1]

HighestPriority(msgs) == CHOOSE r \in {m.priority : m \in msgs} \cup {0} :
                           \A m \in msgs : m.priority <= r

\* ListThreads groups the project's files; its order is by activity and
\* otherwise left open.
ListThreads(p) ==
  {[thread |-> t, count |-> Cardinality(Files(p, t)),
    activity |-> CHOOSE a \in {m.at : m \in Files(p, t)} : \A m \in Files(p, t) : m.at <= a,
    priority |-> HighestPriority(Files(p, t))] :
   t \in {m.thread : m \in {x \in stored : x.project = p}}}

-----------------------------------------------------------------------------
(* Properties *)

\* A message that went over NATS, or whose Send told its caller so, can be
\* read by everyone from then on, whichever process sent it and whether it
\* still runs: it is in the log of its thread, `threads` lists the thread with
\* at least its priority and its time, and every service can send to it.
AnnouncedIsReadable ==
  \A m \in bus \cup sent :
    /\ Contains(ReadThread(m.project, m.thread), m)
    /\ \E x \in ListThreads(m.project) :
         x.thread = m.thread /\ x.priority >= m.priority /\ x.activity >= m.at
    /\ \A s \in Service : ResolveThread(s, m.project, m.thread)

\* docs/architecture/notify-messaging.md:113: ask is "Send + block for reply":
\* what it returns was published after its own question and is not the
\* question itself, which goes out on the subject that ask watches.  The one
\* exception is a question that a failing Flush left in the buffer.
ReplyIsNotQuestion == \A a \in answers : a[1] # a[2] \/ a[1] \in unsure

\* The same line, whatever the publish reported: a question that goes out of
\* the buffer after ask has subscribed comes back to ask as its reply.
AskBlocksForReply == \A a \in answers : a[1] # a[2]

\* store.go:140: "ReadThread returns all messages in a thread, sorted by
\* timestamp (oldest first)."
ReadOldestFirst ==
  \A p \in Project, t \in Thread :
    LET log == ReadThread(p, t) IN
      \A i, j \in DOMAIN log : i < j => log[i].at <= log[j].at

\* What the sorted paths do give: a log holds every message of its thread once,
\* and is out of the order of the timestamps within a second only.
ReadBySecond ==
  \A p \in Project, t \in Thread :
    LET log == ReadThread(p, t) IN
      /\ \A m \in Files(p, t) : \E i \in DOMAIN log : log[i] = m
      /\ \A i, j \in DOMAIN log : i < j =>
           log[i] # log[j] /\ log[i].at < log[j].at + TicksPerSecond

\* docs/architecture/notify-messaging.md:64: `project` "Scopes messages to a
\* project": a thread has messages of one project only.
ThreadInProject == \A m, n \in stored : m.thread = n.thread => m.project = n.project

\* docs/architecture/notify-messaging.md:113: ask is "Send + block for reply":
\* it does not wait for a reply that was already published.
NoMissedReply ==
  \A s \in Service : call[s].step = "wait" => call[s].msg \notin replied

-----------------------------------------------------------------------------
(* Inductive invariants *)

\* No two messages under way have the same id, none that is to be committed
\* has the id of a stored one, and after its commit a message is stored.
DraftsApart ==
  \A s, x \in Service :
    s # x /\ call[s] # Idle /\ call[x] # Idle => call[s].msg.id # call[x].msg.id
UncommittedIsNew ==
  \A s \in Service : call[s].step = "commit" => \A m \in stored : m.id # call[s].msg.id
CommittedIsStored ==
  \A s \in Service : call[s].step \in {"publish", "subscribe", "wait"} => call[s].msg \in stored

MessagesInv ==
  /\ TypeOK
  /\ DraftsApart
  /\ UncommittedIsNew
  /\ CommittedIsStored
  /\ bus \cup sent \subseteq stored
  /\ \A s \in Service : \A m \in buffered[s] : m \in stored /\ m.id \in unsure
  /\ ReplyIsNotQuestion
=============================================================================
