------------------------------ MODULE LeafSync ------------------------------
(***************************************************************************)
(* Leaf agents that sync over the NATS subject <prefix>.<project>.sync     *)
(* (leaf/agent/nats.go, serve_nats.go, agent.go pollLoop; bridge/bridge/   *)
(* bridge.go).                                                             *)
(*                                                                         *)
(* A request goes to every subscriber of the subject and the first reply   *)
(* wins: the bridge answers for a Fossil server, and every agent with      *)
(* ServeNATS answers from its own repo, its own requests included, because *)
(* its connection is opened without NoEcho and the subscription is not a   *)
(* queue.                                                                  *)
(*                                                                         *)
(* libfossil's session (external) is reduced to its rounds: send files,    *)
(* announce what one has, ask for what the last reply announced; it ends   *)
(* when a round leaves nothing to send and nothing to ask for.  After a    *)
(* round that failed, or that RoundTrip reports as a success of zero       *)
(* bytes, libfossil may keep the files on its unsent list or drop them.    *)
(***************************************************************************)
EXTENDS Naturals, FiniteSets

CONSTANTS
  Leaf,         \* agents; all of them poll
  CanServe,     \* agents whose ServeNATSEnabled may be set
  Server,       \* Fossil servers behind a bridge
  Commit,
  MaxRounds,    \* libfossil's round limit: 100
  MaxFailures,  \* bound on timeouts, failing handlers and failing upstreams
  MaxFlaps      \* bound on losses of the mesh link and stops of a bridge

ASSUME LeafSyncAssumption ==
  /\ CanServe \subseteq Leaf
  /\ Leaf \cap Server = {}
  /\ MaxRounds \in Nat \ {0} /\ MaxFailures \in Nat /\ MaxFlaps \in Nat

Node == Leaf \cup Server

VARIABLES
  serving,   \* agents with ServeNATSEnabled
  bridged,   \* servers whose bridge is up
  repo,      \* repo[n]: the commits node n has
  unsent,    \* unsent[a]: the unsent list of a's repo
  dropped,   \* dropped[a]: files libfossil gave up after a round without cards (observer)
  session,   \* session[a]: the sync session of a's poll cycle
  waiting,   \* waiting[a]: responders that have a's request and did not handle it
  reply,     \* reply[a]: the first reply to a's request
  strays,    \* requests whose client took another reply: <<responder, files>>
  linked,    \* the mesh connects the nodes
  failures,
  flaps

vars == <<serving, bridged, repo, unsent, dropped, session, waiting, reply, strays,
          linked, failures, flaps>>

\* Who can get a request.
Responder == CanServe \cup Server

Idle == [round |-> 0, igot |-> {}, files |-> {}, gimme |-> {}]
NoReply == [kind |-> "none", igot |-> {}, gimme |-> {}, files |-> {}]
EmptyReply == [NoReply EXCEPT !.kind = "empty"]
Cards == SUBSET Commit

TypeOK ==
  /\ serving \subseteq CanServe /\ bridged \subseteq Server
  /\ repo \in [Node -> Cards]
  /\ unsent \in [Leaf -> Cards] /\ \A a \in Leaf : unsent[a] \subseteq repo[a]
  /\ dropped \in [Leaf -> Cards]
  /\ session \in [Leaf -> [round : 0..MaxRounds, igot : Cards, files : Cards, gimme : Cards]]
  /\ waiting \in [Leaf -> SUBSET Responder]
  /\ reply \in [Leaf -> [kind : {"none", "empty", "cards"}, igot : Cards, gimme : Cards,
                         files : Cards]]
  /\ strays \subseteq (Responder \X Cards)
  /\ linked \in BOOLEAN
  /\ failures \in 0..MaxFailures
  /\ flaps \in 0..MaxFlaps

Init ==
  /\ serving \in SUBSET CanServe
  /\ bridged = Server
  /\ repo = [n \in Node |-> {}]
  /\ unsent = [a \in Leaf |-> {}]
  /\ dropped = [a \in Leaf |-> {}]
  /\ session = [a \in Leaf |-> Idle]
  /\ waiting = [a \in Leaf |-> {}]
  /\ reply = [a \in Leaf |-> NoReply]
  /\ strays = {}
  /\ linked = TRUE
  /\ failures = 0
  /\ flaps = 0

-----------------------------------------------------------------------------
\* Subscribers a request of a reaches.
Reach(a) == IF linked THEN serving \cup bridged ELSE serving \cap {a}

Fail ==
  /\ failures < MaxFailures
  /\ failures' = failures + 1

\* Bound on commits: one is enough for two responders to disagree.
MaxCommits == IF serving = {} THEN Cardinality(Commit) ELSE 1

\* A commit lands in a leaf's repo.
MakeCommit(a, c) ==
  /\ \A n \in Node : c \notin repo[n]
  /\ Cardinality(UNION {repo[n] : n \in Node}) < MaxCommits
  /\ repo' = [repo EXCEPT ![a] = @ \cup {c}]
  /\ unsent' = [unsent EXCEPT ![a] = @ \cup {c}]
  /\ UNCHANGED <<dropped, session, waiting, reply, strays, linked, failures, flaps, serving,
                 bridged>>

\* The poll loop starts a session: the first round carries the unsent files.
BeginSync(a) ==
  /\ session[a] = Idle
  /\ Reach(a) # {}            \* else ErrNoResponders ends the cycle at once
  /\ session' = [session EXCEPT ![a] =
       [round |-> 1, igot |-> repo[a], files |-> unsent[a], gimme |-> {}]]
  /\ waiting' = [waiting EXCEPT ![a] = Reach(a)]
  /\ UNCHANGED <<repo, unsent, dropped, reply, strays, linked, failures, flaps, serving,
                 bridged>>

\* The client is done with a round; late responders may still apply its files.
Leaves(a) ==
  strays' = strays \cup {<<r, session[a].files>> : r \in {q \in waiting[a] : session[a].files # {}}}

\* The session is over.
Ends(a) ==
  /\ session' = [session EXCEPT ![a] = Idle]
  /\ waiting' = [waiting EXCEPT ![a] = {}]
  /\ reply' = [reply EXCEPT ![a] = NoReply]
  /\ Leaves(a)

\* Another round, within the limit.
Again(a, has, files, gimme) ==
  /\ session[a].round < MaxRounds
  /\ Reach(a) # {}
  /\ session' = [session EXCEPT ![a] = [round |-> session[a].round + 1, igot |-> has,
                                        files |-> files, gimme |-> gimme]]
  /\ waiting' = [waiting EXCEPT ![a] = Reach(a)]
  /\ reply' = [reply EXCEPT ![a] = NoReply]
  /\ Leaves(a)

\* A round brought no cards: libfossil still means to send resend, and only that.
Unanswered(a, resend) ==
  /\ unsent' = [unsent EXCEPT ![a] = @ \ (session[a].files \ resend)]
  /\ dropped' = [dropped EXCEPT ![a] = @ \cup (session[a].files \ resend)]

\* The files of a round were answered with cards.
Answered(a) ==
  /\ unsent' = [unsent EXCEPT ![a] = @ \ session[a].files]
  /\ dropped' = [dropped EXCEPT ![a] = @ \ session[a].files]

\* Fault: the request is answered first and stored afterwards.
HandleRepliesFirst(a, r) ==
  /\ r \in waiting[a]
  /\ LET s == session[a]
         has == repo[r] \cup s.files
     IN reply' = IF reply[a] # NoReply THEN reply ELSE
          [reply EXCEPT ![a] = [kind |-> "cards", igot |-> has \ s.igot,
                                gimme |-> s.igot \ has, files |-> s.gimme \cap has]]
  /\ strays' = strays \cup {<<r, session[a].files>>}
  /\ waiting' = [waiting EXCEPT ![a] = @ \ {r}]
  /\ UNCHANGED <<repo, unsent, dropped, session, linked, failures, flaps, serving, bridged>>

\* HandleSync of an agent (ServeNATS) or of the server behind the bridge:
\* store the files, gimme what is unknown, igot what the client lacks.
Handle(a, r) ==
  /\ r \in waiting[a]
  /\ LET s == session[a]
         has == repo[r] \cup s.files
     IN /\ repo' = [repo EXCEPT ![r] = has]
        /\ reply' = IF reply[a] # NoReply THEN reply ELSE
             [reply EXCEPT ![a] = [kind |-> "cards", igot |-> has \ s.igot,
                                   gimme |-> s.igot \ has, files |-> s.gimme \cap has]]
  /\ waiting' = [waiting EXCEPT ![a] = @ \ {r}]
  /\ UNCHANGED <<unsent, dropped, session, strays, linked, failures, flaps, serving, bridged>>

\* HandleSync or the bridge's upstream fails: an empty reply.
HandleFails(a, r) ==
  /\ r \in waiting[a]
  /\ Fail
  /\ reply' = IF reply[a] # NoReply THEN reply ELSE [reply EXCEPT ![a] = EmptyReply]
  /\ waiting' = [waiting EXCEPT ![a] = @ \ {r}]
  /\ UNCHANGED <<repo, unsent, dropped, session, strays, linked, flaps, serving, bridged>>

\* Fault: the files the reply asks for are not sent.
TakeReplyDeaf(a) ==
  /\ reply[a].kind = "cards"
  /\ repo' = [repo EXCEPT ![a] = @ \cup reply[a].files]
  /\ Answered(a)
  /\ Ends(a)
  /\ UNCHANGED <<linked, failures, flaps, serving, bridged>>

\* Fault: the rounds are not counted.
TakeReplyUncounted(a) ==
  /\ reply[a].kind = "cards"
  /\ LET s == session[a]
         has == repo[a] \cup reply[a].files
         gimme == (s.gimme \cup reply[a].igot) \ has
     IN /\ repo' = [repo EXCEPT ![a] = has]
        /\ Answered(a)
        /\ IF reply[a].gimme \cup gimme # {} /\ Reach(a) # {}
             THEN /\ session' = [session EXCEPT ![a] =
                       [s EXCEPT !.igot = has, !.files = reply[a].gimme, !.gimme = gimme]]
                  /\ waiting' = [waiting EXCEPT ![a] = Reach(a)]
                  /\ reply' = [reply EXCEPT ![a] = NoReply]
                  /\ UNCHANGED strays
             ELSE Ends(a)
  /\ UNCHANGED <<linked, failures, flaps, serving, bridged>>

\* RoundTrip returns the first reply; another round, or the end.
TakeReply(a) ==
  /\ reply[a].kind = "cards"
  /\ LET has == repo[a] \cup reply[a].files
         files == reply[a].gimme
         gimme == (session[a].gimme \cup reply[a].igot) \ has
     IN /\ repo' = [repo EXCEPT ![a] = has]
        /\ IF files \cup gimme # {} /\ session[a].round < MaxRounds /\ Reach(a) # {}
             THEN Again(a, has, files, gimme)
             ELSE Ends(a)
  /\ Answered(a)
  /\ UNCHANGED <<linked, failures, flaps, serving, bridged>>

\* RoundTrip returns an empty reply as a success: libfossil decides whether the
\* session goes on, and whether the files are still to be sent.
TakeEmpty(a) ==
  /\ reply[a].kind = "empty"
  /\ \E resend \in {{}, session[a].files} :
       /\ Unanswered(a, resend)
       /\ Ends(a) \/ Again(a, repo[a], resend, session[a].gimme)
  /\ UNCHANGED <<repo, linked, failures, flaps, serving, bridged>>

\* RequestMsgWithContext times out and Sync fails; whoever has the request may
\* still act on it.
Timeout(a) ==
  /\ session[a] # Idle
  /\ reply[a] = NoReply
  /\ Fail \/ (waiting[a] = {} /\ UNCHANGED failures)
  /\ \E resend \in {{}, session[a].files} : Unanswered(a, resend)
  /\ Ends(a)
  /\ UNCHANGED <<repo, linked, flaps, serving, bridged>>

\* A responder reaches a request whose client is gone.
HandleStray ==
  \E s \in strays :
    /\ repo' = [repo EXCEPT ![s[1]] = @ \cup s[2]]
    /\ strays' = strays \ {s}
    /\ UNCHANGED <<unsent, dropped, session, waiting, reply, linked, failures, flaps, serving,
                   bridged>>

\* The leaf-node link goes down, and with it the requests on their way.
Unlink ==
  /\ linked
  /\ flaps < MaxFlaps
  /\ linked' = FALSE
  /\ flaps' = flaps + 1
  /\ waiting' = [a \in Leaf |-> waiting[a] \cap {a}]
  /\ UNCHANGED <<repo, unsent, dropped, session, reply, strays, failures, serving, bridged>>

Link ==
  /\ ~linked
  /\ linked' = TRUE
  /\ UNCHANGED <<repo, unsent, dropped, session, waiting, reply, strays, failures, flaps,
                 serving, bridged>>

\* Bridge.Stop unsubscribes and cancels the upstream requests: what the
\* bridge had taken gets no reply, stored by the server or not.
BridgeStops(f) ==
  /\ f \in bridged
  /\ flaps < MaxFlaps
  /\ flaps' = flaps + 1
  /\ bridged' = bridged \ {f}
  /\ \E done \in SUBSET {a \in Leaf : f \in waiting[a]} :
       repo' = [repo EXCEPT ![f] = @ \cup UNION {session[a].files : a \in done}]
  /\ waiting' = [a \in Leaf |-> waiting[a] \ {f}]
  /\ strays' = {s \in strays : s[1] # f}
  /\ UNCHANGED <<serving, unsent, dropped, session, reply, linked, failures>>

\* A new bridge process: New connects, Start subscribes and flushes.
BridgeStarts(f) ==
  /\ f \in Server \ bridged
  /\ bridged' = bridged \cup {f}
  /\ UNCHANGED <<serving, repo, unsent, dropped, session, waiting, reply, strays, linked,
                 failures, flaps>>

-----------------------------------------------------------------------------
Next ==
  \/ \E a \in Leaf :
       \/ \E c \in Commit : MakeCommit(a, c)
       \/ BeginSync(a)
       \/ \E r \in Responder : Handle(a, r) \/ HandleFails(a, r)
       \/ TakeReply(a)
       \/ TakeEmpty(a)
       \/ Timeout(a)
  \/ \E f \in Server : BridgeStops(f) \/ BridgeStarts(f)
  \/ HandleStray
  \/ Unlink
  \/ Link

Spec == Init /\ [][Next]_vars

(***************************************************************************)
(* Every agent polls for ever, dispatchers run on, a request ends by a     *)
(* reply or a timeout, the link comes back, a bridge is started again.     *)
(* Which reply is the first one is nobody's promise.                       *)
(***************************************************************************)
FairSpec ==
  /\ Spec
  /\ \A a \in Leaf :
       /\ WF_vars(BeginSync(a))
       /\ \A r \in Responder : WF_vars(Handle(a, r))
       /\ WF_vars(TakeReply(a) \/ TakeEmpty(a) \/ (waiting[a] = {} /\ Timeout(a)))
  /\ WF_vars(HandleStray)
  /\ WF_vars(Link)
  /\ \A f \in Server : WF_vars(BridgeStarts(f))

-----------------------------------------------------------------------------
(* Properties *)

\* Commits that some node other than a has.
Elsewhere(a) == UNION {repo[n] : n \in Node \ {a}}

\* A commit of a leaf that is neither on its unsent list nor dropped from it
\* after a round without cards is in the repo of some other node: cards are
\* proof that the files of the round are stored, whoever of the responders is
\* first, with requests that nobody has handled yet, broken links and stopping
\* bridges.  (A leaf that serves may be answered by itself.)
SentMeansHeld ==
  \A a \in Leaf \ serving : repo[a] \ (unsent[a] \cup dropped[a]) \subseteq Elsewhere(a)

\* What SentMeansHeld needs from step to step: requests are with agents that
\* serve and with servers only, nothing is left of a session that has ended,
\* and whoever replied with cards has stored the files of the round and has
\* those it sends.
AskedServe ==
  /\ \A a \in Leaf : waiting[a] \subseteq serving \cup Server
  /\ \A s \in strays : s[1] \in serving \cup Server

IdleIsQuiet == \A a \in Leaf : session[a].round = 0 => reply[a] = NoReply /\ waiting[a] = {}

RepliesBacked ==
  \A a \in Leaf \ serving :
    reply[a].kind = "cards" => session[a].files \cup reply[a].files \subseteq Elsewhere(a)

IInv == TypeOK /\ AskedServe /\ IdleIsQuiet /\ RepliesBacked /\ SentMeansHeld

\* Every commit of a leaf reaches every leaf, through failing upstreams, lost
\* replies, commits made in the middle of a session, link losses and restarts
\* of the bridge, also when libfossil drops the files of a round that brought
\* no cards: the igots of a later round bring them back.  It needs a single responder that is not the client itself.
EveryLeafConverges ==
  \A c \in Commit :
    (serving = {} /\ \E a \in Leaf : c \in repo[a]) ~> \A b \in Leaf : c \in repo[b]

\* A poll cycle ends, whichever responder is first: also when one announces
\* what the other is then asked for in vain, round after round.
SessionEnds == \A a \in Leaf : session[a] # Idle ~> session[a] = Idle

\* README.md:46: "Leaf -> Leaf (NATS) - Peer-to-peer via ServeNATS. No bridge
\* or server needed."; docs/leaf-agent.md:88: "Sync happens automatically on
\* the next poll cycle."  Two serving leaves do not: each may answer itself.
PeersConverge ==
  \A c \in Commit :
    (serving = Leaf /\ \E a \in Leaf : c \in repo[a]) ~> \A b \in Leaf : c \in repo[b]
=============================================================================
