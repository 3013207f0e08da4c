------------------------ MODULE NotifyMessagesProofs ------------------------
(***************************************************************************)
(* What sending, asking and reading guarantee, for any number of daemons,  *)
(* commands, projects, threads and messages.                               *)
(*                                                                         *)
(* MessagesInv is inductive.  It holds because a message is committed      *)
(* before anything else learns of it, and because the ids of the messages  *)
(* under way differ, so that a reply another service publishes is not the  *)
(* question.  That a stored message is found again is a fact about the     *)
(* readers: the paths of a thread are strictly ordered, the number of      *)
(* files before a file is its place in the log, and no two share a place.  *)
(***************************************************************************)
EXTENDS NotifyMessages, FiniteSetTheorems, WellFoundedInduction, TLAPS

-----------------------------------------------------------------------------
(* Calls *)

\* A call under way has a message.
LEMMA CallTypes ==
  ASSUME TypeOK, NEW s \in Service
  PROVE  /\ call[s] = Idle <=> call[s].step = "idle"
         /\ call[s] # Idle => /\ call[s] \in Call /\ call[s].msg \in Message
                              /\ call[s].step \in {"commit", "publish", "subscribe", "wait"}
<1>1. call[s] = Idle \/ call[s] \in Call
  BY DEF TypeOK
<1>2. CASE call[s] = Idle
  BY <1>2 DEF Idle
<1>3. CASE call[s] \in Call
  BY <1>3 DEF Call, Idle
<1> QED
  BY <1>1, <1>2, <1>3

\* What a step may do to a call whose message it does not commit.
Onward(s) ==
  \/ call'[s] = Idle
  \/ /\ call[s] # Idle
     /\ call'[s].msg = call[s].msg
     /\ call'[s].step = "commit" <=> call[s].step = "commit"

Calls == [Service -> {Idle} \cup Call]
Caches == [Service -> SUBSET Thread]
Buffers == [Service -> SUBSET Message]

\* What a connection still has to send is stored and is known as unsure.
BufferedIsStored == \A s \in Service : \A m \in buffered[s] : m \in stored /\ m.id \in unsure

LEMMA StepCalls ==
  ASSUME TypeOK, NEW s \in Service, NEW step \in {"publish", "wait"}, call[s] # Idle,
         Step(s, step)
  PROVE  /\ call' \in Calls
         /\ \A x \in Service \ {s} : call'[x] = call[x]
         /\ call'[s].msg = call[s].msg /\ call'[s].step = step
<1>1. call[s] \in Call /\ call \in Calls
  BY CallTypes DEF TypeOK, Calls
<1>2. [call[s] EXCEPT !.step = step] \in Call
  BY <1>1 DEF Call
<1>3. call' = [call EXCEPT ![s] = [call[s] EXCEPT !.step = step]]
  BY DEF Step
<1>4. /\ [call[s] EXCEPT !.step = step].msg = call[s].msg
      /\ [call[s] EXCEPT !.step = step].step = step
  BY <1>1 DEF Call
<1> QED
  BY <1>1, <1>2, <1>3, <1>4 DEF Calls

LEMMA EndedCalls ==
  ASSUME TypeOK, NEW S \in SUBSET Service, NEW buf \in Buffers, Ended(S, buf)
  PROVE  /\ call' \in Calls /\ cache' \in Caches /\ \A x \in Service : Onward(x)
         /\ buffered' \in Buffers /\ \A x \in Service : buffered'[x] \subseteq buf[x]
BY DEF TypeOK, Ended, Calls, Caches, Buffers, Onward

LEMMA SendReturnsCalls ==
  ASSUME TypeOK, NEW s \in Service, NEW S \in SUBSET Service, call[s].step = "publish",
         NEW queue \in SUBSET {call[s].msg}, SendReturns(s, S, queue)
  PROVE  /\ call' \in Calls /\ cache' \in Caches
         /\ sent' = sent \cup {call[s].msg} /\ \A x \in Service : Onward(x)
         /\ unsure' = unsure \cup {m.id : m \in queue} /\ unsure' \subseteq 1..MaxMsgs
         /\ buffered' \in Buffers /\ \A x \in Service : buffered'[x] \subseteq buffered[x] \cup queue
<1> DEFINE next == [call[s] EXCEPT !.step = "subscribe"]
<1>1. call[s] \in Call /\ call \in Calls /\ call[s] # Idle
  BY CallTypes DEF TypeOK, Calls, Idle
<1>2. next \in Call /\ next.msg = call[s].msg /\ next.step = "subscribe"
  BY <1>1 DEF Call
<1> HIDE DEF next
<1>3. call' \in [Service -> {Idle} \cup Call] /\ \A x \in Service :
        call'[x] = Idle \/ call'[x] = call[x] \/ (x = s /\ call'[x] = next)
  <2> DEFINE done == S \cup (IF call[s].ask THEN {} ELSE {s})
  <2>1. call' = [x \in Service |-> IF x \in done THEN Idle ELSE IF x = s THEN next ELSE call[x]]
    BY DEF SendReturns, next
  <2> HIDE DEF done
  <2> QED
    BY <1>1, <1>2, <2>1 DEF Calls
<1>4. \A x \in Service : Onward(x)
  BY <1>1, <1>2, <1>3, CallTypes DEF Onward, Idle
<1>5. cache' \in Caches /\ sent' = sent \cup {call[s].msg}
  BY DEF SendReturns, TypeOK, Caches
<1>6. queue \subseteq Message /\ \A m \in queue : m.id \in 1..MaxMsgs
  BY <1>1, CallTypes DEF Message
<1>7. unsure' = unsure \cup {m.id : m \in queue} /\ unsure' \subseteq 1..MaxMsgs
  BY <1>6 DEF SendReturns, TypeOK
<1>8. buffered' \in Buffers /\ \A x \in Service : buffered'[x] \subseteq buffered[x] \cup queue
  <2> DEFINE done == S \cup (IF call[s].ask THEN {} ELSE {s})
  <2>1. buffered' = [x \in Service |->
             IF x \in done \cap Command THEN {}
             ELSE IF x = s THEN buffered[x] \cup queue ELSE buffered[x]]
    BY DEF SendReturns
  <2> HIDE DEF done
  <2>2. buffered \in [Service -> SUBSET Message]
    BY DEF TypeOK
  <2> QED
    BY <1>6, <2>1, <2>2 DEF Buffers
<1> QED
  BY <1>3, <1>4, <1>5, <1>7, <1>8 DEF Calls

\* Ids stay apart and committed messages stored as long as no call begins or
\* commits.
LEMMA OnwardKeeps ==
  ASSUME MessagesInv, call' \in Calls, \A x \in Service : Onward(x), stored' = stored
  PROVE  (DraftsApart /\ UncommittedIsNew /\ CommittedIsStored)'
<1>1. DraftsApart'
  BY DEF MessagesInv, DraftsApart, Onward
<1>2. UncommittedIsNew'
  BY DEF MessagesInv, UncommittedIsNew, Onward, Idle
<1>3. CommittedIsStored'
  <2> SUFFICES ASSUME NEW s \in Service, call'[s].step \in {"publish", "subscribe", "wait"}
               PROVE  call'[s].msg \in stored
    BY DEF CommittedIsStored
  <2>1. call'[s] # Idle /\ call'[s].step # "commit"
    BY DEF Idle
  <2>2. call[s] # Idle /\ call'[s].msg = call[s].msg /\ call[s].step # "commit"
    BY <2>1 DEF Onward
  <2>3. call[s].step \in {"publish", "subscribe", "wait"}
    BY <2>2, CallTypes DEF MessagesInv
  <2> QED
    BY <2>2, <2>3 DEF MessagesInv, CommittedIsStored
<1> QED
  BY <1>1, <1>2, <1>3

\* A new message has an id of its own.
LEMMA NewMessageKeeps ==
  ASSUME MessagesInv, NEW s \in Service, NEW id \in 1..MaxMsgs, NEW t \in Thread, NEW p \in Project,
         NEW ask \in BOOLEAN, NEW nats \in BOOLEAN, call[s] = Idle, NewId(id),
         NewMessage(s, id, t, p, ask, nats), stored' = stored
  PROVE  call' \in Calls /\ (DraftsApart /\ UncommittedIsNew /\ CommittedIsStored)'
<1> DEFINE msg == [id |-> id, thread |-> t, project |-> p, at |-> now,
                   priority |-> IF ask THEN 1 ELSE 0]
           new == [step |-> "commit", ask |-> ask, nats |-> nats, msg |-> msg]
<1>t. TypeOK /\ DraftsApart /\ UncommittedIsNew /\ CommittedIsStored
  BY DEF MessagesInv
<1>1. msg \in Message /\ msg.id = id
  BY <1>t DEF TypeOK, Message, Rank
<1> HIDE DEF msg
<1>2. new \in Call /\ new.msg = msg /\ new.step = "commit"
  BY <1>1 DEF Call
<1>3. call' = [call EXCEPT ![s] = new]
  BY DEF NewMessage, msg
<1> HIDE DEF new
<1>4. call \in Calls /\ call' \in Calls /\ call'[s] = new
      /\ \A x \in Service \ {s} : call'[x] = call[x]
  BY <1>t, <1>2, <1>3 DEF TypeOK, Calls
<1>5. /\ \A m \in stored : m.id # id
      /\ \A x \in Service : call[x] # Idle => call[x].msg.id # id
  BY DEF NewId, Drafts
<1>6. DraftsApart'
  BY <1>t, <1>1, <1>2, <1>4, <1>5 DEF DraftsApart
<1>7. UncommittedIsNew'
  BY <1>t, <1>1, <1>2, <1>4, <1>5 DEF UncommittedIsNew
<1>8. CommittedIsStored'
  BY <1>t, <1>2, <1>4 DEF CommittedIsStored
<1> QED
  BY <1>4, <1>6, <1>7, <1>8

\* What a service announces is stored.
LEMMA CommitKeeps ==
  ASSUME MessagesInv, NEW s \in Service, Commit(s)
  PROVE  MessagesInv'
<1> DEFINE msg == call[s].msg
<1>t. TypeOK /\ DraftsApart /\ UncommittedIsNew /\ CommittedIsStored
      /\ bus \cup sent \subseteq stored /\ ReplyIsNotQuestion /\ BufferedIsStored
  BY DEF MessagesInv, BufferedIsStored
<1>1. call[s] # Idle /\ msg \in Message /\ msg.thread \in Thread
  BY <1>t, CallTypes DEF Commit, Idle, Message
<1>2. /\ call' \in Calls /\ call'[s].msg = msg /\ call'[s].step = "publish"
      /\ \A x \in Service \ {s} : call'[x] = call[x]
  BY <1>1, <1>t, StepCalls DEF Commit
<1>3. /\ stored' = stored \cup {msg} /\ cache' \in Caches
      /\ UNCHANGED <<bus, buffered, replied, now, failures, sent, unsure, answers>>
  BY <1>1, <1>t DEF Commit, TypeOK, Caches
<1>4. \A m \in stored : m.id # msg.id
  BY <1>t DEF UncommittedIsNew, Commit
<1>5. TypeOK'
  BY <1>t, <1>1, <1>2, <1>3, <1>4 DEF TypeOK, Calls, Caches
<1>6. DraftsApart'
  <2> SUFFICES ASSUME NEW x \in Service, NEW y \in Service, x # y, call'[x] # Idle, call'[y] # Idle
               PROVE  call'[x].msg.id # call'[y].msg.id
    BY DEF DraftsApart
  <2>1. call[x] # Idle /\ call[y] # Idle /\ call'[x].msg = call[x].msg /\ call'[y].msg = call[y].msg
    BY <1>1, <1>2
  <2> QED
    BY <1>t, <2>1 DEF DraftsApart
<1>7. UncommittedIsNew'
  <2> SUFFICES ASSUME NEW x \in Service, call'[x].step = "commit", NEW m \in stored'
               PROVE  m.id # call'[x].msg.id
    BY DEF UncommittedIsNew
  <2>1. x # s /\ call'[x] = call[x]
    BY <1>2
  <2>2. CASE m \in stored
    BY <1>t, <2>1, <2>2 DEF UncommittedIsNew
  <2>3. CASE m = msg
    <3>1. call[x] # Idle
      BY <2>1 DEF Idle
    <3> QED
      BY <1>t, <1>1, <2>1, <2>3, <3>1 DEF DraftsApart
  <2> QED
    BY <1>3, <2>2, <2>3
<1>8. CommittedIsStored'
  BY <1>t, <1>2, <1>3 DEF CommittedIsStored
<1>9. ReplyIsNotQuestion' /\ (bus \cup sent)' \subseteq stored'
  BY <1>t, <1>3 DEF ReplyIsNotQuestion
<1>10. BufferedIsStored'
  BY <1>t, <1>3 DEF BufferedIsStored
<1> QED
  BY <1>5, <1>6, <1>7, <1>8, <1>9, <1>10 DEF MessagesInv, BufferedIsStored

LEMMA InitMessagesInv == Init => MessagesInv
<1> SUFFICES ASSUME Init PROVE MessagesInv
  OBVIOUS
<1>1. 0 \in 0..MaxTime /\ 0 \in 0..MaxFailures
  BY MessagesAssumption
<1>2. TypeOK
  BY <1>1 DEF Init, TypeOK
<1>3. DraftsApart /\ UncommittedIsNew /\ CommittedIsStored
  BY DEF Init, DraftsApart, UncommittedIsNew, CommittedIsStored, Idle
<1> QED
  BY <1>2, <1>3 DEF MessagesInv, Init, ReplyIsNotQuestion

\* A step that neither begins nor commits a message.
LEMMA OnwardInv ==
  ASSUME MessagesInv, call' \in Calls, cache' \in Caches, \A x \in Service : Onward(x),
         stored' = stored, bus' \subseteq stored, replied' \subseteq bus', sent' \subseteq stored,
         now' \in 0..MaxTime, failures' \in 0..MaxFailures,
         answers' \subseteq (1..MaxMsgs) \X (0..MaxMsgs), ReplyIsNotQuestion',
         unsure' \subseteq 1..MaxMsgs, buffered' \in Buffers, BufferedIsStored'
  PROVE  MessagesInv'
<1>1. stored \subseteq Message /\ \A m, n \in stored : m.id = n.id => m = n
  BY DEF MessagesInv, TypeOK
<1>2. TypeOK'
  BY <1>1 DEF TypeOK, Calls, Caches, Buffers
<1> QED
  BY <1>2, OnwardKeeps DEF MessagesInv, BufferedIsStored

LEMMA StayOnward ==
  ASSUME NEW s \in Service, call' = call
  PROVE  Onward(s)
BY DEF Onward

LEMMA FailCounts ==
  ASSUME TypeOK, Fail
  PROVE  failures' \in 0..MaxFailures
BY MessagesAssumption DEF TypeOK, Fail

\* Asks end with answers that are not their questions, as long as no one of
\* them asked with the id of the reply, or the reply comes from a buffer.
LEMMA DeliverKeeps ==
  ASSUME MessagesInv, NEW S \in SUBSET Service, NEW reply \in 0..MaxMsgs, Deliver(S, reply),
         \A x \in S : call[x] # Idle, unsure \subseteq unsure',
         reply \in unsure \/ \A x \in S : call[x].msg.id # reply
  PROVE  answers' \subseteq (1..MaxMsgs) \X (0..MaxMsgs) /\ ReplyIsNotQuestion'
<1>1. \A x \in S : call[x].msg.id \in 1..MaxMsgs
  BY CallTypes DEF MessagesInv, Message
<1>2. answers \subseteq (1..MaxMsgs) \X (0..MaxMsgs) /\ ReplyIsNotQuestion
  BY DEF MessagesInv, TypeOK
<1>3. answers' = answers \cup {<<call[x].msg.id, reply>> : x \in S}
  BY DEF Deliver
<1> QED
  BY <1>1, <1>2, <1>3 DEF ReplyIsNotQuestion

LEMMA WaitingCalls ==
  ASSUME TypeOK, NEW p, NEW t
  PROVE  Waiting(p, t) \in SUBSET Service /\ \A x \in Waiting(p, t) : call[x].step = "wait" /\ call[x] # Idle
BY DEF Waiting, Watches, Idle

LEMMA NextMessagesInv == MessagesInv /\ [Next]_vars => MessagesInv'
<1> SUFFICES ASSUME MessagesInv, [Next]_vars PROVE MessagesInv'
  OBVIOUS
<1>t. /\ TypeOK /\ bus \subseteq stored /\ sent \subseteq stored /\ replied \subseteq bus
      /\ call \in Calls /\ cache \in Caches /\ now \in 0..MaxTime /\ failures \in 0..MaxFailures
      /\ answers \subseteq (1..MaxMsgs) \X (0..MaxMsgs) /\ ReplyIsNotQuestion /\ DraftsApart
      /\ CommittedIsStored /\ BufferedIsStored /\ buffered \in Buffers
      /\ unsure \subseteq 1..MaxMsgs
  BY DEF MessagesInv, BufferedIsStored, TypeOK, Calls, Caches, Buffers
<1>a. answers' = answers /\ unsure \subseteq unsure' => ReplyIsNotQuestion'
  BY <1>t DEF ReplyIsNotQuestion
<1>b. /\ stored' = stored /\ unsure' = unsure
      /\ \A x \in Service : buffered'[x] \subseteq buffered[x]
      => BufferedIsStored'
  BY <1>t DEF BufferedIsStored
<1>1. ASSUME NEW s \in Daemon, RestartService(s) PROVE MessagesInv'
  <2>1. cache' \in Caches
    BY <1>1, <1>t DEF RestartService, Caches
  <2> QED
    BY <1>1, <1>t, <1>a, <1>b, <2>1, OnwardInv, StayOnward DEF RestartService
<1>2. ASSUME NEW s \in Service, NEW p \in Project, NEW ask \in Asking(s), NEW nats \in Connected(s),
             SendNew(s, p, ask, nats) \/ \E t \in Thread : SendTo(s, p, t, ask, nats)
      PROVE  MessagesInv'
  <2>1. ask \in BOOLEAN /\ nats \in BOOLEAN
    BY DEF Asking, Connected
  <2>2. PICK id \in 1..MaxMsgs, t \in Thread :
          /\ call[s] = Idle /\ NewId(id) /\ NewMessage(s, id, t, p, ask, nats)
          /\ cache' = cache \/ cache' = [cache EXCEPT ![s] = @ \cup {t}]
          /\ UNCHANGED <<stored, bus, buffered, replied, now, failures, sent, unsure, answers>>
    BY <1>2 DEF SendNew, SendTo
  <2>3. call' \in Calls /\ (DraftsApart /\ UncommittedIsNew /\ CommittedIsStored)'
    BY <2>1, <2>2, NewMessageKeeps
  <2>4. cache' \in Caches
    BY <1>t, <2>2 DEF Caches
  <2>5. TypeOK'
    BY <1>t, <2>2, <2>3, <2>4 DEF TypeOK, Calls, Caches
  <2> QED
    BY <1>t, <1>a, <1>b, <2>2, <2>3, <2>5 DEF MessagesInv, BufferedIsStored
<1>3. ASSUME NEW s \in Service, CommitFails(s) PROVE MessagesInv'
  <2>1. Ended({s}, buffered) /\ failures' \in 0..MaxFailures
        /\ UNCHANGED <<stored, bus, replied, now, sent, unsure, answers>>
    BY <1>3, <1>t, FailCounts DEF CommitFails
  <2>2. /\ call' \in Calls /\ cache' \in Caches /\ \A x \in Service : Onward(x)
        /\ buffered' \in Buffers /\ \A x \in Service : buffered'[x] \subseteq buffered[x]
    BY <1>t, <2>1, EndedCalls
  <2> QED
    BY <1>t, <1>a, <1>b, <2>1, <2>2, OnwardInv
<1>4. ASSUME NEW s \in Service, Publish(s) PROVE MessagesInv'
  <2> DEFINE S == Waiting(call[s].msg.project, call[s].msg.thread)
  <2>1. /\ call[s].step = "publish" /\ Deliver(S, call[s].msg.id) /\ SendReturns(s, S, {})
        /\ bus' = bus \cup {call[s].msg} /\ UNCHANGED <<stored, replied, now, failures>>
    BY <1>4 DEF Publish
  <2>2. call[s] # Idle /\ call[s].msg \in stored /\ call[s].msg.id \in 0..MaxMsgs
    <3>1. call[s] # Idle
      BY <2>1 DEF Idle
    <3>2. call[s].msg.id \in 1..MaxMsgs
      BY <1>t, <3>1, CallTypes DEF Message
    <3> QED
      BY <1>t, <2>1, <3>1, <3>2 DEF CommittedIsStored
  <2>3. S \in SUBSET Service /\ \A x \in S : call[x].step = "wait" /\ call[x] # Idle
    BY <1>t, WaitingCalls
  <2> HIDE DEF S
  <2>4. \A x \in S : call[x].msg.id # call[s].msg.id
    BY <1>t, <2>1, <2>2, <2>3 DEF DraftsApart
  <2>5. /\ call' \in Calls /\ cache' \in Caches /\ buffered' \in Buffers /\ unsure' = unsure
        /\ sent' = sent \cup {call[s].msg} /\ \A x \in Service : Onward(x)
        /\ \A x \in Service : buffered'[x] \subseteq buffered[x]
    <3>1. /\ call' \in Calls /\ cache' \in Caches /\ buffered' \in Buffers
          /\ sent' = sent \cup {call[s].msg} /\ \A x \in Service : Onward(x)
          /\ unsure' = unsure \cup {m.id : m \in {}}
          /\ \A x \in Service : buffered'[x] \subseteq buffered[x] \cup {}
      <4>1. {} \in SUBSET {call[s].msg}
        OBVIOUS
      <4> QED
        BY <1>t, <2>1, <2>3, <4>1, SendReturnsCalls
    <3>2. unsure' = unsure /\ \A x \in Service : buffered'[x] \subseteq buffered[x]
      BY <3>1
    <3> QED
      BY <3>1, <3>2
  <2>6. answers' \subseteq (1..MaxMsgs) \X (0..MaxMsgs) /\ ReplyIsNotQuestion'
    BY <2>1, <2>2, <2>3, <2>4, <2>5, DeliverKeeps
  <2> QED
    BY <1>t, <1>b, <2>1, <2>2, <2>5, <2>6, OnwardInv
<1>5. ASSUME NEW s \in Service, Unpublished(s) \/ PublishFails(s) PROVE MessagesInv'
  <2>1. PICK queue \in SUBSET {call[s].msg} :
          /\ call[s].step = "publish" /\ SendReturns(s, {}, queue)
          /\ UNCHANGED <<stored, bus, replied, now, answers>>
    BY <1>5 DEF Unpublished, PublishFails
  <2>2. failures' \in 0..MaxFailures
    BY <1>5, <1>t, FailCounts DEF Unpublished, PublishFails
  <2>3. call[s].msg \in stored
    BY <1>t, <2>1 DEF CommittedIsStored
  <2>4. /\ call' \in Calls /\ cache' \in Caches
        /\ sent' = sent \cup {call[s].msg} /\ \A x \in Service : Onward(x)
        /\ unsure' = unsure \cup {m.id : m \in queue} /\ unsure' \subseteq 1..MaxMsgs
        /\ buffered' \in Buffers /\ \A x \in Service : buffered'[x] \subseteq buffered[x] \cup queue
    BY <1>t, <2>1, SendReturnsCalls
  <2>5. BufferedIsStored'
    BY <1>t, <2>1, <2>3, <2>4 DEF BufferedIsStored
  <2> QED
    BY <1>t, <1>a, <2>1, <2>2, <2>3, <2>4, <2>5, OnwardInv
<1>6. ASSUME NEW s \in Service, Reconnects(s) PROVE MessagesInv'
  <2>1. PICK m \in buffered[s] :
          LET S == Waiting(m.project, m.thread)
                     \cup {x \in {s} : Watches(x, m.project, m.thread)} IN
            /\ bus' = bus \cup {m}
            /\ Deliver(S, m.id)
            /\ Ended(S, [buffered EXCEPT ![s] = @ \ {m}])
            /\ UNCHANGED <<stored, replied, now, failures, sent, unsure>>
    BY <1>6 DEF Reconnects
  <2> DEFINE S == Waiting(m.project, m.thread)
                    \cup {x \in {s} : Watches(x, m.project, m.thread)}
             buf == [buffered EXCEPT ![s] = @ \ {m}]
  <2>2. m \in stored /\ m.id \in unsure /\ m.id \in 0..MaxMsgs
    <3>1. m \in stored /\ m.id \in unsure
      BY <1>t DEF BufferedIsStored
    <3>2. m.id \in 1..MaxMsgs
      BY <1>t, <3>1
    <3> QED
      BY <3>1, <3>2
  <2>3. S \in SUBSET Service /\ \A x \in S : call[x] # Idle
    BY <1>t, WaitingCalls DEF Watches, Idle
  <2>4. buf \in Buffers /\ \A x \in Service : buf[x] \subseteq buffered[x]
    BY <1>t DEF Buffers
  <2>5. /\ bus' = bus \cup {m} /\ Deliver(S, m.id) /\ Ended(S, buf)
        /\ UNCHANGED <<stored, replied, now, failures, sent, unsure>>
    BY <2>1
  <2> HIDE DEF S, buf
  <2>6. answers' \subseteq (1..MaxMsgs) \X (0..MaxMsgs) /\ ReplyIsNotQuestion'
    BY <2>2, <2>3, <2>5, DeliverKeeps
  <2>7. /\ call' \in Calls /\ cache' \in Caches /\ \A x \in Service : Onward(x)
        /\ buffered' \in Buffers /\ \A x \in Service : buffered'[x] \subseteq buffered[x]
    BY <1>t, <2>3, <2>4, <2>5, EndedCalls
  <2> QED
    BY <1>t, <1>b, <2>2, <2>5, <2>6, <2>7, OnwardInv
<1>7. ASSUME NEW s \in Service, Subscribe(s) PROVE MessagesInv'
  <2>1. /\ call[s].step = "subscribe"
        /\ UNCHANGED <<stored, bus, replied, now, failures, sent, unsure, answers>>
    BY <1>7 DEF Subscribe
  <2>2. CASE Step(s, "wait") /\ UNCHANGED <<cache, buffered>>
    <3>1. call[s] # Idle
      BY <2>1 DEF Idle
    <3>2. /\ call' \in Calls /\ call'[s].msg = call[s].msg /\ call'[s].step = "wait"
          /\ \A x \in Service \ {s} : call'[x] = call[x]
      BY <1>t, <2>2, <3>1, StepCalls
    <3>3. \A x \in Service : Onward(x)
      BY <2>1, <3>1, <3>2 DEF Onward
    <3> QED
      BY <1>t, <1>a, <1>b, <2>1, <2>2, <3>2, <3>3, OnwardInv
  <2>3. CASE Ended({s}, buffered)
    <3>1. /\ call' \in Calls /\ cache' \in Caches /\ \A x \in Service : Onward(x)
          /\ buffered' \in Buffers /\ \A x \in Service : buffered'[x] \subseteq buffered[x]
      BY <1>t, <2>3, EndedCalls
    <3> QED
      BY <1>t, <1>a, <1>b, <2>1, <3>1, OnwardInv
  <2> QED
    BY <1>7, <2>2, <2>3 DEF Subscribe
<1>8. ASSUME NEW s \in Service, AskTimesOut(s) PROVE MessagesInv'
  <2>1. /\ call' \in Calls /\ cache' \in Caches /\ \A x \in Service : Onward(x)
        /\ buffered' \in Buffers /\ \A x \in Service : buffered'[x] \subseteq buffered[x]
    BY <1>8, <1>t, EndedCalls DEF AskTimesOut
  <2> QED
    BY <1>8, <1>t, <1>a, <1>b, <2>1, OnwardInv DEF AskTimesOut
<1>9. ASSUME NEW q \in bus, PeerReplies(q) PROVE MessagesInv'
  <2> DEFINE S == Waiting(q.project, q.thread)
  <2>1. /\ replied' = replied \cup {q} /\ Deliver(S, PeerId) /\ Ended(S, buffered)
        /\ UNCHANGED <<stored, bus, now, failures, sent, unsure>>
    BY <1>9 DEF PeerReplies
  <2>2. S \in SUBSET Service /\ \A x \in S : call[x] # Idle
    BY <1>t, WaitingCalls
  <2> HIDE DEF S
  <2>3. PeerId \in 0..MaxMsgs /\ \A x \in S : call[x].msg.id # PeerId
    BY <1>t, <2>2, CallTypes, MessagesAssumption DEF PeerId, Message
  <2>4. answers' \subseteq (1..MaxMsgs) \X (0..MaxMsgs) /\ ReplyIsNotQuestion'
    BY <2>1, <2>2, <2>3, DeliverKeeps
  <2>5. /\ call' \in Calls /\ cache' \in Caches /\ \A x \in Service : Onward(x)
        /\ buffered' \in Buffers /\ \A x \in Service : buffered'[x] \subseteq buffered[x]
    BY <1>t, <2>1, <2>2, EndedCalls
  <2> QED
    BY <1>t, <1>b, <2>1, <2>4, <2>5, OnwardInv
<1>10. CASE Tick
  <2>1. now' \in 0..MaxTime
    BY <1>10, <1>t, MessagesAssumption DEF Tick
  <2> QED
    BY <1>10, <1>t, <1>a, <1>b, <2>1, OnwardInv, StayOnward DEF Tick
<1>11. CASE UNCHANGED vars
  BY <1>11, <1>t, <1>a, <1>b, OnwardInv, StayOnward DEF vars
<1> QED
  BY <1>1, <1>2, <1>3, <1>4, <1>5, <1>7, <1>8, <1>9, <1>10, <1>11, <1>6, CommitKeeps DEF Next

\* What ask returns is not its own question, unless Flush reported an error and
\* left the question in the reconnect buffer: for any number of services that
\* send to the thread at the same time and any failures (NotifyAskCmd.Run
\* watches the subject its question goes out on).
THEOREM AskGetsAReply == Spec => []ReplyIsNotQuestion
<1>1. Spec => []MessagesInv
  BY InitMessagesInv, NextMessagesInv, PTL DEF Spec
<1>2. MessagesInv => ReplyIsNotQuestion
  BY DEF MessagesInv
<1> QED
  BY <1>1, <1>2, PTL

-----------------------------------------------------------------------------
(* Reading *)

\* A set of natural numbers that is not empty has a least element.
LEMMA LeastElement ==
  ASSUME NEW S \in SUBSET Nat, S # {}
  PROVE  \E x \in S : \A y \in S : x <= y
<1>1. PICK x \in S : \A y \in S : ~(<<y, x>> \in OpToRel(<, Nat))
  BY NatLessThanWellFounded, WFMin
<1>2. \A y \in S : <<y, x>> \in OpToRel(<, Nat) <=> y < x
  BY DEF OpToRel
<1>3. \A y \in S : ~(y < x)
  BY <1>1, <1>2, Zenon
<1> QED
  BY <1>3

\* One that is bounded has a greatest element.
LEMMA GreatestElement ==
  ASSUME NEW n \in Nat, NEW S \in SUBSET (0..n), S # {}
  PROVE  \E x \in S : \A y \in S : y <= x
<1> DEFINE D == {n - y : y \in S}
<1>1. D \in SUBSET Nat /\ D # {}
  <2>1. D \in SUBSET Nat
    OBVIOUS
  <2>2. PICK y \in S : TRUE
    OBVIOUS
  <2>3. n - y \in D
    OBVIOUS
  <2> QED
    BY <2>1, <2>3, Zenon
<1>2. PICK d \in D : \A e \in D : d <= e
  BY <1>1, LeastElement
<1>3. PICK x \in S : d = n - x
  OBVIOUS
<1>4. ASSUME NEW y \in S PROVE y <= x
  <2>1. n - y \in D
    OBVIOUS
  <2>2. n - x <= n - y
    BY <1>2, <1>3, <2>1
  <2> QED
    BY <2>2
<1> QED
  BY <1>4
\* The files of a thread are finitely many: each has its own id.
LEMMA FilesFinite ==
  ASSUME TypeOK, NEW p, NEW t
  PROVE  IsFiniteSet(Files(p, t)) /\ Cardinality(Files(p, t)) \in Nat
<1> DEFINE F == Files(p, t)
           id == [m \in F |-> m.id]
<1>1. \A m \in F : m \in stored /\ m.id \in 1..MaxMsgs
  BY DEF Files, TypeOK, Message
<1>2. \A m, n \in F : m.id = n.id => m = n
  BY <1>1 DEF TypeOK
<1> HIDE DEF F
<1>3. id \in [F -> 1..MaxMsgs]
  BY <1>1
<1>4. IsInjective(id)
  BY <1>2 DEF IsInjective
<1>5. id \in Injection(F, 1..MaxMsgs)
  BY <1>3, <1>4 DEF Injection
<1>6. IsFiniteSet(1..MaxMsgs)
  BY FS_Interval, MessagesAssumption
<1>7. IsFiniteSet(F)
  BY <1>5, <1>6, FS_Injection
<1> QED
  BY <1>7, FS_CardinalityType DEF F

\* The paths of a thread are strictly and totally ordered.
LEMMA PathsOrdered ==
  ASSUME TypeOK
  PROVE  /\ \A m \in stored : ~PathBefore(m, m)
         /\ \A m, n \in stored : m = n \/ PathBefore(m, n) \/ PathBefore(n, m)
         /\ \A l, m, n \in stored : PathBefore(l, m) /\ PathBefore(m, n) => PathBefore(l, n)
<1>1. \A m \in stored : m.at \div TicksPerSecond \in Int /\ m.id \in Int
  BY MessagesAssumption DEF TypeOK, Message
<1>2. \A m, n \in stored : m.id = n.id => m = n
  BY DEF TypeOK
<1> QED
  BY <1>1, <1>2 DEF PathBefore

\* A file's place in its thread: one more than the files before it.
LEMMA PlaceOrdered ==
  ASSUME TypeOK, NEW p, NEW t, NEW m \in Files(p, t), NEW n \in Files(p, t), PathBefore(m, n)
  PROVE  Cardinality(Before(m)) < Cardinality(Before(n))
<1> DEFINE F == Files(p, t)
<1>1. /\ m \in stored /\ n \in stored /\ F \subseteq stored /\ m \in F /\ n \in F
      /\ Files(m.project, m.thread) = F /\ Files(n.project, n.thread) = F
  BY DEF Files
<1>2. IsFiniteSet(F)
  BY FilesFinite
<1> HIDE DEF F
<1>3. Before(m) = {x \in F : PathBefore(x, m)} /\ Before(n) = {x \in F : PathBefore(x, n)}
  BY <1>1 DEF Before
<1>4. m \notin Before(m) /\ Before(m) \cup {m} \subseteq Before(n)
  BY <1>1, <1>3, PathsOrdered
<1>5. IsFiniteSet(Before(m)) /\ IsFiniteSet(Before(n))
  BY <1>2, <1>3, FS_Subset
<1>6. Cardinality(Before(m) \cup {m}) = Cardinality(Before(m)) + 1
  BY <1>4, <1>5, FS_AddElement
<1>7. Cardinality(Before(m) \cup {m}) <= Cardinality(Before(n))
  BY <1>4, <1>5, FS_Subset
<1>8. Cardinality(Before(m)) \in Nat /\ Cardinality(Before(n)) \in Nat
  BY <1>5, FS_CardinalityType
<1> QED
  BY <1>6, <1>7, <1>8

\* Every place of the log is taken by one file.
LEMMA PlacesTaken ==
  ASSUME TypeOK, NEW p, NEW t
  PROVE  /\ \A m \in Files(p, t) : Cardinality(Before(m)) + 1 \in 1..Cardinality(Files(p, t))
         /\ \A m, n \in Files(p, t) : Cardinality(Before(m)) = Cardinality(Before(n)) => m = n
         /\ \A i \in 1..Cardinality(Files(p, t)) :
              \E m \in Files(p, t) : Cardinality(Before(m)) = i - 1
<1> DEFINE F == Files(p, t)
           N == Cardinality(F)
           place == [m \in F |-> Cardinality(Before(m)) + 1]
<1>1. IsFiniteSet(F) /\ N \in Nat
  BY FilesFinite
<1>2. ASSUME NEW m \in F
      PROVE  Cardinality(Before(m)) \in Nat /\ Cardinality(Before(m)) + 1 \in 1..N
  <2>1. m \in stored /\ Files(m.project, m.thread) = F
    BY DEF Files
  <2>2. Before(m) \subseteq F \ {m}
    BY <2>1, PathsOrdered DEF Before
  <2>3. IsFiniteSet(F \ {m}) /\ Cardinality(F \ {m}) = N - 1
    BY <1>1, FS_RemoveElement
  <2>4. IsFiniteSet(Before(m)) /\ Cardinality(Before(m)) <= N - 1
    BY <2>2, <2>3, FS_Subset
  <2>5. Cardinality(Before(m)) \in Nat
    BY <2>4, FS_CardinalityType
  <2> QED
    BY <1>1, <2>4, <2>5
<1>3. ASSUME NEW m \in F, NEW n \in F, Cardinality(Before(m)) = Cardinality(Before(n))
      PROVE  m = n
  <2>1. ~PathBefore(m, n) /\ ~PathBefore(n, m)
    BY <1>2, <1>3, PlaceOrdered
  <2>2. m \in stored /\ n \in stored
    BY DEF Files
  <2> QED
    BY <2>1, <2>2, PathsOrdered
<1> HIDE DEF F, N
<1>4. place \in Injection(F, 1..N)
  <2>1. place \in [F -> 1..N]
    BY <1>2
  <2>2. \A m, n \in F : place[m] = place[n] => m = n
    BY <1>2, <1>3
  <2>3. IsInjective(place)
    BY <2>2 DEF IsInjective
  <2> QED
    BY <2>1, <2>3 DEF Injection
<1>5. IsFiniteSet(1..N) /\ Cardinality(1..N) = N
  BY <1>1, FS_Interval
<1>6. place \in Surjection(F, 1..N)
  BY <1>4, <1>5, FS_Injection DEF N
<1>7. ASSUME NEW i \in 1..N
      PROVE  \E m \in F : Cardinality(Before(m)) = i - 1
  <2>1. PICK m \in F : place[m] = i
    BY <1>6 DEF Surjection
  <2> QED
    BY <1>2, <2>1
<1> QED
  BY <1>2, <1>3, <1>7 DEF F, N

\* ReadThread's log holds every file of the thread once, in the order of the
\* paths.
LEMMA LogSorted ==
  ASSUME TypeOK, NEW p, NEW t
  PROVE  LET log == ReadThread(p, t) IN
           /\ log \in Seq(Files(p, t)) /\ Len(log) = Cardinality(Files(p, t))
           /\ \A m \in Files(p, t) : log[Cardinality(Before(m)) + 1] = m
           /\ \A i, j \in 1..Len(log) : i < j => PathBefore(log[i], log[j])
<1> DEFINE F == Files(p, t)
           N == Cardinality(F)
           log == ReadThread(p, t)
           at(i) == CHOOSE m \in F : Cardinality(Before(m)) = i - 1
<1>1. N \in Nat
  BY FilesFinite
<1>2. log = [i \in 1..N |-> at(i)]
  BY DEF ReadThread
<1>3. /\ \A m \in F : Cardinality(Before(m)) + 1 \in 1..N
      /\ \A m, n \in F : Cardinality(Before(m)) = Cardinality(Before(n)) => m = n
      /\ \A i \in 1..N : \E m \in F : Cardinality(Before(m)) = i - 1
  BY PlacesTaken
<1>c. \A m \in F : Cardinality(Before(m)) \in Nat
  <2>1. \A m \in F : Before(m) \subseteq F
    BY DEF Before, Files
  <2>2. \A m \in F : IsFiniteSet(Before(m))
    BY <2>1, FilesFinite, FS_Subset
  <2> QED
    BY <2>2, FS_CardinalityType
<1>o. \A m, n \in F : m = n \/ PathBefore(m, n) \/ PathBefore(n, m)
  BY PathsOrdered DEF Files
<1>l. \A m, n \in F : PathBefore(m, n) => Cardinality(Before(m)) < Cardinality(Before(n))
  BY PlaceOrdered
<1> HIDE DEF F, N, log
<1>4. \A i \in 1..N : at(i) \in F /\ Cardinality(Before(at(i))) = i - 1
  BY <1>3
<1> HIDE DEF at
<1>5. log \in Seq(F) /\ Len(log) = N /\ \A i \in 1..N : log[i] = at(i)
  BY <1>1, <1>2, <1>4
<1>6. ASSUME NEW m \in F PROVE log[Cardinality(Before(m)) + 1] = m
  <2> DEFINE i == Cardinality(Before(m)) + 1
  <2>1. i \in 1..N /\ i - 1 = Cardinality(Before(m))
    BY <1>3, <1>c
  <2>2. log[i] = at(i) /\ at(i) \in F /\ Cardinality(Before(at(i))) = Cardinality(Before(m))
    BY <1>4, <1>5, <2>1
  <2> QED
    BY <1>3, <2>2
<1>7. ASSUME NEW i \in 1..N, NEW j \in 1..N, i < j PROVE PathBefore(log[i], log[j])
  <2>1. /\ log[i] \in F /\ log[j] \in F
        /\ Cardinality(Before(log[i])) = i - 1 /\ Cardinality(Before(log[j])) = j - 1
    BY <1>4, <1>5
  <2>2. log[i] # log[j] /\ ~PathBefore(log[j], log[i])
    BY <1>7, <1>l, <2>1
  <2> QED
    BY <1>o, <2>1, <2>2
<1> QED
  BY <1>5, <1>6, <1>7 DEF F, N, log

\* A stored message is in its log and counts in its thread's summary, and
\* every service can send to its thread.
LEMMA StoredIsReadable ==
  ASSUME TypeOK, NEW m \in stored
  PROVE  /\ Contains(ReadThread(m.project, m.thread), m)
         /\ \E x \in ListThreads(m.project) :
              x.thread = m.thread /\ x.priority >= m.priority /\ x.activity >= m.at
         /\ \A s \in Service : ResolveThread(s, m.project, m.thread)
<1> DEFINE F == Files(m.project, m.thread)
           log == ReadThread(m.project, m.thread)
           A == {x.at : x \in F}
           P == {x.priority : x \in F} \cup {0}
           a == CHOOSE y \in A : \A x \in F : x.at <= y
           r == HighestPriority(F)
<1>1. m \in F /\ F \subseteq stored
  BY DEF Files
<1>t. \A x \in F : x.at \in 0..MaxTime /\ x.priority \in 0..2
  BY <1>1 DEF TypeOK, Message, Rank
<1>2. Contains(log, m)
  <2>1. /\ log \in Seq(F) /\ Len(log) = Cardinality(F)
        /\ log[Cardinality(Before(m)) + 1] = m
    BY <1>1, LogSorted
  <2>2. Cardinality(Before(m)) + 1 \in 1..Cardinality(F)
    BY <1>1, PlacesTaken
  <2> HIDE DEF F, log
  <2> QED
    BY <2>1, <2>2 DEF Contains
<1> HIDE DEF F
<1>3. a >= m.at
  <2>1. A \in SUBSET (0..MaxTime) /\ A # {} /\ MaxTime \in Nat
    BY <1>1, <1>t, MessagesAssumption
  <2>2. PICK y \in A : \A z \in A : z <= y
    BY <2>1, GreatestElement
  <2>3. \A x \in F : x.at <= y
    BY <2>2
  <2>4. a \in A /\ \A x \in F : x.at <= a
    BY <2>3
  <2> HIDE DEF a
  <2>5. a \in 0..MaxTime /\ m.at \in 0..MaxTime /\ m.at <= a
    BY <1>1, <1>t, <2>1, <2>4
  <2> QED
    BY <2>5, MessagesAssumption
<1>4. r >= m.priority
  <2>1. P \in SUBSET (0..2) /\ P # {}
    BY <1>t
  <2>2. PICK y \in P : \A z \in P : z <= y
    BY <2>1, GreatestElement
  <2>3. \A x \in F : x.priority <= y
    BY <2>2
  <2>4. r \in P /\ \A x \in F : x.priority <= r
    BY <2>3 DEF HighestPriority
  <2> HIDE DEF r
  <2> QED
    BY <1>1, <1>t, <2>1, <2>4
<1>5. [thread |-> m.thread, count |-> Cardinality(F), activity |-> a, priority |-> r]
        \in ListThreads(m.project)
  BY DEF ListThreads, F
<1>6. \A s \in Service : ResolveThread(s, m.project, m.thread)
  BY DEF ResolveThread
<1> HIDE DEF a, r
<1>7. \E x \in ListThreads(m.project) :
        x.thread = m.thread /\ x.priority >= m.priority /\ x.activity >= m.at
  BY <1>3, <1>4, <1>5
<1> QED
  BY <1>2, <1>6, <1>7

\* What was published, or reported as sent, is in the log of its thread and in
\* the summary of `threads`, and every service can reply to it: for any number
\* of services, with failing commits and publishes (Service.Send, ReadThread,
\* ListThreads).
THEOREM AnnouncedMessagesAreReadable == Spec => []AnnouncedIsReadable
<1>1. Spec => []MessagesInv
  BY InitMessagesInv, NextMessagesInv, PTL DEF Spec
<1>2. MessagesInv => AnnouncedIsReadable
  <2> SUFFICES ASSUME MessagesInv, NEW m \in bus \cup sent
               PROVE  /\ Contains(ReadThread(m.project, m.thread), m)
                      /\ \E x \in ListThreads(m.project) :
                           x.thread = m.thread /\ x.priority >= m.priority /\ x.activity >= m.at
                      /\ \A s \in Service : ResolveThread(s, m.project, m.thread)
    BY DEF AnnouncedIsReadable
  <2>1. TypeOK /\ m \in stored
    BY DEF MessagesInv
  <2> QED
    BY <2>1, StoredIsReadable
<1> QED
  BY <1>1, <1>2, PTL

\* A log holds every message of its thread once, and a message comes before an
\* older one only if less than a second lies between them: for every state and
\* every resolution of the clock (ReadThread, Message.FilePath).
THEOREM LogsAreInOrder == Spec => []ReadBySecond
<1>1. Spec => []MessagesInv
  BY InitMessagesInv, NextMessagesInv, PTL DEF Spec
<1>2. MessagesInv => ReadBySecond
  <2> SUFFICES ASSUME MessagesInv, NEW p \in Project, NEW t \in Thread
               PROVE  /\ \A m \in Files(p, t) : \E i \in DOMAIN ReadThread(p, t) : ReadThread(p, t)[i] = m
                      /\ \A i, j \in DOMAIN ReadThread(p, t) : i < j =>
                           /\ ReadThread(p, t)[i] # ReadThread(p, t)[j]
                           /\ ReadThread(p, t)[i].at < ReadThread(p, t)[j].at + TicksPerSecond
    BY DEF ReadBySecond
  <2> DEFINE log == ReadThread(p, t)
             F == Files(p, t)
  <2>t. TypeOK
    BY DEF MessagesInv
  <2>1. /\ log \in Seq(F) /\ Len(log) = Cardinality(F)
        /\ \A m \in F : log[Cardinality(Before(m)) + 1] = m
        /\ \A i, j \in 1..Len(log) : i < j => PathBefore(log[i], log[j])
    BY <2>t, LogSorted
  <2>2. \A m \in F : Cardinality(Before(m)) + 1 \in 1..Cardinality(F)
    BY <2>t, PlacesTaken
  <2>3. \A x \in F : x \in stored /\ x.at \in Nat
    BY <2>t, MessagesAssumption DEF Files, TypeOK, Message
  <2> HIDE DEF log, F
  <2>4. ASSUME NEW x \in F, NEW y \in F, PathBefore(x, y)
        PROVE  x # y /\ x.at < y.at + TicksPerSecond
    <3>1. x # y
      BY <2>t, <2>3, <2>4, PathsOrdered
    <3>2. x.at \div TicksPerSecond <= y.at \div TicksPerSecond
      BY <2>3, <2>4, MessagesAssumption DEF PathBefore
    <3>3. x.at < y.at + TicksPerSecond
      BY <2>3, <3>2, MessagesAssumption, SMT
    <3> QED
      BY <3>1, <3>3
  <2>5. DOMAIN log = 1..Len(log) /\ \A i \in 1..Len(log) : log[i] \in F
    BY <2>1
  <2>6. \A m \in F : \E i \in DOMAIN log : log[i] = m
    BY <2>1, <2>2, <2>5
  <2>7. \A i, j \in DOMAIN log : i < j => log[i] # log[j] /\ log[i].at < log[j].at + TicksPerSecond
    BY <2>1, <2>4, <2>5
  <2> QED
    BY <2>6, <2>7 DEF log, F
<1> QED
  BY <1>1, <1>2, PTL
=============================================================================
