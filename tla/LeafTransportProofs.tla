------------------------ MODULE LeafTransportProofs -------------------------
(***************************************************************************)
(* What the ways a leaf agent reaches the others guarantee, for any number *)
(* of nodes: sync requests over NATS (LeafSync), the leaf-node links that  *)
(* carry them through iroh (TunnelMesh), and xfer exchanges over iroh      *)
(* (IrohExchange).  They share no state and no name; every theorem is      *)
(* about one of the three specifications.                                  *)
(***************************************************************************)
EXTENDS LeafSync, TunnelMesh, IrohExchange, TLAPS
-----------------------------------------------------------------------------
(***************************************************************************)
(* LeafSync: SentMeansHeld is not inductive.  When a reply is taken, the   *)
(* files of the round leave the unsent list and those of the reply enter   *)
(* the repo, so whoever replied must have both; it must be somebody else,  *)
(* so a request is with servers and serving agents only; and a reply must  *)
(* belong to the round it is taken in, so none outlives its session.       *)
(***************************************************************************)
LEMMA InitIInv == Init => IInv
<1> SUFFICES ASSUME Init PROVE IInv
  OBVIOUS
<1> USE LeafSyncAssumption
<1>1. TypeOK
  BY DEF Init, TypeOK, Idle, NoReply, Cards, Responder, Node
<1>2. AskedServe /\ IdleIsQuiet
  BY DEF Init, AskedServe, IdleIsQuiet
<1>3. RepliesBacked
  BY DEF Init, RepliesBacked, NoReply
<1>4. SentMeansHeld
  BY DEF Init, SentMeansHeld, Node
<1> QED
  BY <1>1, <1>2, <1>3, <1>4 DEF IInv

\* What a session may be, kept abstract in the steps below.
LEMMA EmptySession ==
  /\ Idle \in [round : 0..MaxRounds, igot : Cards, files : Cards, gimme : Cards]
  /\ Idle.round = 0 /\ NoReply.kind = "none"
  /\ {NoReply, EmptyReply} \subseteq [kind : {"none", "empty", "cards"}, igot : Cards,
                                      gimme : Cards, files : Cards]
  /\ EmptyReply.kind = "empty"
BY LeafSyncAssumption DEF Idle, NoReply, EmptyReply, Cards

\* A step after which every node still has what it had keeps what others have.
LEMMA ElsewhereGrows ==
  ASSUME NEW a, \A n \in Node : repo[n] \subseteq repo'[n]
  PROVE  Elsewhere(a) \subseteq Elsewhere(a)'
BY DEF Elsewhere, Node

\* A commit a node other than a has is elsewhere.
LEMMA HeldElsewhere ==
  ASSUME NEW a, NEW n \in Node \ {a}
  PROVE  repo[n] \subseteq Elsewhere(a) /\ (repo[n] \subseteq Elsewhere(a))'
BY DEF Elsewhere, Node

\* The end of a session.
LEMMA EndsKeeps ==
  ASSUME TypeOK, AskedServe, IdleIsQuiet, NEW a \in Leaf, Ends(a), UNCHANGED serving
  PROVE  /\ session' \in [Leaf -> [round : 0..MaxRounds, igot : Cards, files : Cards, gimme : Cards]]
         /\ waiting' \in [Leaf -> SUBSET Responder]
         /\ reply' \in [Leaf -> [kind : {"none", "empty", "cards"}, igot : Cards,
                                 gimme : Cards, files : Cards]]
         /\ strays' \subseteq (Responder \X Cards)
         /\ AskedServe' /\ IdleIsQuiet'
         /\ reply'[a].kind = "none"
         /\ \A b \in Leaf \ {a} : reply'[b] = reply[b] /\ session'[b] = session[b]
<1>1. session[a].files \in Cards /\ waiting[a] \subseteq Responder
  BY DEF TypeOK
<1>2. strays' \subseteq (Responder \X Cards)
  BY <1>1 DEF Ends, Leaves, TypeOK
<1>3. AskedServe'
  BY DEF Ends, Leaves, TypeOK, AskedServe
<1> QED
  BY <1>2, <1>3, EmptySession DEF Ends, TypeOK, IdleIsQuiet

\* Another round of a session.
LEMMA AgainKeeps ==
  ASSUME TypeOK, AskedServe, IdleIsQuiet, NEW a \in Leaf, NEW has \in Cards,
         NEW files \in Cards, NEW gimme \in Cards, Again(a, has, files, gimme),
         UNCHANGED serving
  PROVE  /\ session' \in [Leaf -> [round : 0..MaxRounds, igot : Cards, files : Cards, gimme : Cards]]
         /\ waiting' \in [Leaf -> SUBSET Responder]
         /\ reply' \in [Leaf -> [kind : {"none", "empty", "cards"}, igot : Cards,
                                 gimme : Cards, files : Cards]]
         /\ strays' \subseteq (Responder \X Cards)
         /\ AskedServe' /\ IdleIsQuiet'
         /\ reply'[a].kind = "none"
         /\ \A b \in Leaf \ {a} : reply'[b] = reply[b] /\ session'[b] = session[b]
<1> USE LeafSyncAssumption
<1>1. session[a].files \in Cards /\ waiting[a] \subseteq Responder /\ session[a].round \in 0..MaxRounds
  BY DEF TypeOK
<1>2. session[a].round + 1 \in 0..MaxRounds /\ session[a].round + 1 # 0
  BY <1>1 DEF Again
<1>3. /\ session' \in [Leaf -> [round : 0..MaxRounds, igot : Cards, files : Cards, gimme : Cards]]
      /\ session'[a].round # 0 /\ \A b \in Leaf \ {a} : session'[b] = session[b]
  BY <1>2 DEF Again, TypeOK
<1>4. strays' \subseteq (Responder \X Cards) /\ \A x \in strays' : x[1] \in serving \cup Server
  BY <1>1 DEF Again, Leaves, TypeOK, AskedServe
<1>5. Reach(a) \subseteq Responder /\ Reach(a) \subseteq serving \cup Server
  BY DEF TypeOK, Reach, Responder
<1>6. waiting' \in [Leaf -> SUBSET Responder] /\ \A b \in Leaf : waiting'[b] \subseteq serving \cup Server
  BY <1>5 DEF Again, TypeOK, AskedServe
<1>7. /\ reply' \in [Leaf -> [kind : {"none", "empty", "cards"}, igot : Cards,
                              gimme : Cards, files : Cards]]
      /\ reply'[a].kind = "none"
      /\ \A b \in Leaf \ {a} : reply'[b] = reply[b] /\ waiting'[b] = waiting[b]
  BY EmptySession DEF Again, TypeOK
<1>8. AskedServe' /\ IdleIsQuiet'
  BY <1>3, <1>4, <1>6, <1>7 DEF AskedServe, IdleIsQuiet
<1> QED
  BY <1>3, <1>4, <1>6, <1>7, <1>8

\* A round without cards.
LEMMA UnansweredKeeps ==
  ASSUME TypeOK, NEW a \in Leaf, NEW resend, Unanswered(a, resend), UNCHANGED repo
  PROVE  /\ unsent' \in [Leaf -> Cards] /\ dropped' \in [Leaf -> Cards]
         /\ \A b \in Leaf : /\ unsent'[b] \subseteq repo'[b]
                            /\ unsent[b] \cup dropped[b] \subseteq unsent'[b] \cup dropped'[b]
<1>1. session[a].files \in Cards
  BY DEF TypeOK
<1>2. unsent' \in [Leaf -> Cards] /\ dropped' \in [Leaf -> Cards]
  BY <1>1 DEF TypeOK, Unanswered, Cards
<1>3. ASSUME NEW b \in Leaf
      PROVE  /\ unsent'[b] \subseteq unsent[b]
             /\ unsent[b] \cup dropped[b] \subseteq unsent'[b] \cup dropped'[b]
  BY DEF TypeOK, Unanswered
<1> QED
  BY <1>2, <1>3 DEF TypeOK

\* The parts of the invariant that speak of types, requests and sessions.
LEMMA NextSyncTypes ==
  TypeOK /\ AskedServe /\ IdleIsQuiet /\ [Next]_vars => (TypeOK /\ AskedServe /\ IdleIsQuiet)'
<1> SUFFICES ASSUME TypeOK, AskedServe, IdleIsQuiet, [Next]_vars
             PROVE  (TypeOK /\ AskedServe /\ IdleIsQuiet)'
  OBVIOUS
<1> USE LeafSyncAssumption
<1> DEFINE Goal == (TypeOK /\ AskedServe /\ IdleIsQuiet)'
<1>r. \A a \in Leaf : Reach(a) \subseteq Responder /\ Reach(a) \subseteq serving \cup Server
  BY DEF TypeOK, Reach, Responder
<1>1. ASSUME NEW a \in Leaf, NEW c \in Commit, MakeCommit(a, c) PROVE Goal
  <2>1. TypeOK'
    BY <1>1 DEF MakeCommit, TypeOK, Cards, Node
  <2> QED
    BY <2>1, <1>1 DEF MakeCommit, AskedServe, IdleIsQuiet
<1>2. ASSUME NEW a \in Leaf, BeginSync(a) PROVE Goal
  <2>1. TypeOK'
    BY <1>2, <1>r DEF BeginSync, TypeOK, Cards, Node
  <2> QED
    BY <2>1, <1>2, <1>r DEF BeginSync, AskedServe, IdleIsQuiet, TypeOK
<1>3. ASSUME NEW a \in Leaf, NEW r \in Responder, Handle(a, r) PROVE Goal
  <2>1. TypeOK'
    BY <1>3 DEF Handle, TypeOK, Cards, Node, Responder
  <2> QED
    BY <2>1, <1>3 DEF Handle, AskedServe, IdleIsQuiet, TypeOK
<1>4. ASSUME NEW a \in Leaf, NEW r \in Responder, HandleFails(a, r) PROVE Goal
  <2>1. TypeOK'
    BY <1>4, EmptySession DEF HandleFails, Fail, TypeOK
  <2> QED
    BY <2>1, <1>4 DEF HandleFails, AskedServe, IdleIsQuiet, TypeOK
<1>5. ASSUME NEW a \in Leaf, TakeReply(a) PROVE Goal
  <2> DEFINE s == session[a]
             has == repo[a] \cup reply[a].files
             gimme == (s.gimme \cup reply[a].igot) \ has
  <2>1. has \in Cards /\ gimme \in Cards /\ s.files \in Cards /\ reply[a].gimme \in Cards
    BY DEF TypeOK, Cards, Node
  <2>2. /\ repo' = [repo EXCEPT ![a] = has] /\ unsent' = [unsent EXCEPT ![a] = @ \ s.files]
        /\ dropped' = [dropped EXCEPT ![a] = @ \ s.files]
        /\ UNCHANGED <<linked, failures, flaps, serving, bridged>>
    BY <1>5 DEF TakeReply, Answered
  <2>3. /\ repo' \in [Node -> Cards] /\ unsent' \in [Leaf -> Cards] /\ dropped' \in [Leaf -> Cards]
        /\ \A b \in Leaf : unsent'[b] \subseteq repo'[b]
    BY <2>1, <2>2 DEF TypeOK, Cards, Node
  <2>4. CASE Ends(a)
    BY <2>2, <2>3, <2>4, EndsKeeps DEF TypeOK
  <2>5. CASE Again(a, has, reply[a].gimme, gimme)
    BY <2>1, <2>2, <2>3, <2>5, AgainKeeps DEF TypeOK
  <2> QED
    BY <1>5, <2>4, <2>5 DEF TakeReply
<1>6. ASSUME NEW a \in Leaf, TakeEmpty(a) PROVE Goal
  <2>1. PICK resend \in {{}, session[a].files} :
          /\ Unanswered(a, resend)
          /\ Ends(a) \/ Again(a, repo[a], resend, session[a].gimme)
    BY <1>6 DEF TakeEmpty
  <2>2. UNCHANGED <<repo, linked, failures, flaps, serving, bridged>>
    BY <1>6 DEF TakeEmpty
  <2>3. repo[a] \in Cards /\ resend \in Cards /\ session[a].gimme \in Cards
    BY DEF TypeOK, Cards, Node
  <2>4. /\ unsent' \in [Leaf -> Cards] /\ dropped' \in [Leaf -> Cards]
        /\ \A b \in Leaf : unsent'[b] \subseteq repo'[b]
    BY <2>1, <2>2, UnansweredKeeps
  <2>5. CASE Ends(a)
    BY <2>2, <2>4, <2>5, EndsKeeps DEF TypeOK
  <2>6. CASE Again(a, repo[a], resend, session[a].gimme)
    BY <2>2, <2>3, <2>4, <2>6, AgainKeeps DEF TypeOK
  <2> QED
    BY <2>1, <2>5, <2>6
<1>7. ASSUME NEW a \in Leaf, Timeout(a) PROVE Goal
  <2>1. Ends(a) /\ UNCHANGED <<repo, linked, flaps, serving, bridged>>
    BY <1>7 DEF Timeout
  <2>2. failures' \in 0..MaxFailures
    BY <1>7 DEF Timeout, Fail, TypeOK
  <2>3. /\ unsent' \in [Leaf -> Cards] /\ dropped' \in [Leaf -> Cards]
        /\ \A b \in Leaf : unsent'[b] \subseteq repo'[b]
    BY <1>7, <2>1, UnansweredKeeps DEF Timeout
  <2> QED
    BY <2>1, <2>2, <2>3, EndsKeeps DEF TypeOK
<1>8. ASSUME NEW f \in Server, BridgeStops(f) PROVE Goal
  <2>1. PICK done \in SUBSET {a \in Leaf : f \in waiting[a]} :
          repo' = [repo EXCEPT ![f] = @ \cup UNION {session[a].files : a \in done}]
    BY <1>8 DEF BridgeStops
  <2>2. \A a \in done : session[a].files \in Cards
    BY DEF TypeOK
  <2>3. repo[f] \cup UNION {session[a].files : a \in done} \in Cards
    BY <2>2 DEF TypeOK, Cards, Node
  <2>4. repo' \in [Node -> Cards] /\ \A a \in Leaf : repo'[a] = repo[a]
    BY <2>1, <2>3 DEF TypeOK, Node
  <2>5. TypeOK'
    BY <1>8, <2>4 DEF BridgeStops, TypeOK
  <2> QED
    BY <1>8, <2>5 DEF BridgeStops, TypeOK, AskedServe, IdleIsQuiet
<1>9. ASSUME NEW f \in Server, BridgeStarts(f) PROVE Goal
  BY <1>9 DEF BridgeStarts, TypeOK, AskedServe, IdleIsQuiet
<1>10. CASE HandleStray
  <2>1. PICK x \in strays : /\ repo' = [repo EXCEPT ![x[1]] = @ \cup x[2]]
                            /\ strays' = strays \ {x}
                            /\ UNCHANGED <<unsent, dropped, session, waiting, reply, linked, failures, flaps,
                                           serving, bridged>>
    BY <1>10 DEF HandleStray
  <2>2. x[1] \in Node /\ x[2] \in Cards
    BY <2>1 DEF TypeOK, Responder, Node
  <2>3. repo' \in [Node -> Cards] /\ \A n \in Node : repo[n] \subseteq repo'[n]
    BY <2>1, <2>2 DEF TypeOK, Cards
  <2>4. TypeOK'
    BY <2>1, <2>3 DEF TypeOK, Node
  <2> QED
    BY <2>1, <2>4 DEF AskedServe, IdleIsQuiet
<1>11. CASE Unlink
  <2>0. flaps' \in 0..MaxFlaps
    BY <1>11 DEF Unlink, TypeOK
  <2>1. /\ waiting' = [a \in Leaf |-> waiting[a] \cap {a}] /\ linked' = FALSE
        /\ UNCHANGED <<repo, unsent, dropped, session, reply, strays, failures, serving, bridged>>
    BY <1>11 DEF Unlink
  <2>2. waiting' \in [Leaf -> SUBSET Responder] /\ \A a \in Leaf : waiting'[a] \subseteq waiting[a]
    BY <2>1 DEF TypeOK
  <2>3. TypeOK'
    BY <2>0, <2>1, <2>2 DEF TypeOK
  <2> QED
    BY <2>1, <2>2, <2>3 DEF AskedServe, IdleIsQuiet
<1>12. CASE Link
  BY <1>12 DEF Link, TypeOK, AskedServe, IdleIsQuiet
<1>13. CASE UNCHANGED vars
  BY <1>13 DEF vars, TypeOK, AskedServe, IdleIsQuiet
<1> QED
  BY <1>1, <1>2, <1>3, <1>4, <1>5, <1>6, <1>7, <1>8, <1>9, <1>10, <1>11, <1>12, <1>13 DEF Next

\* The parts that speak of what others have, for a leaf that does not serve.
LEMMA NextIInv == IInv /\ [Next]_vars => IInv'
<1> SUFFICES ASSUME IInv, [Next]_vars PROVE (RepliesBacked /\ SentMeansHeld)'
  BY NextSyncTypes DEF IInv
<1> USE LeafSyncAssumption
<1>t. TypeOK /\ AskedServe /\ IdleIsQuiet /\ RepliesBacked /\ SentMeansHeld
  BY DEF IInv
<1> DEFINE Goal == (RepliesBacked /\ SentMeansHeld)'
           Backed(b) == reply[b].kind = "cards" =>
                          session[b].files \cup reply[b].files \subseteq Elsewhere(b)
           Held(b) == repo[b] \ (unsent[b] \cup dropped[b]) \subseteq Elsewhere(b)
<1>u. \A b \in Leaf \ serving : b \notin waiting[b] /\ b \in Node
  BY <1>t DEF AskedServe, Node
\* It is enough to look at one leaf.
<1>g. ASSUME UNCHANGED serving, \A b \in Leaf \ serving : Backed(b)' /\ Held(b)' PROVE Goal
  BY <1>g DEF RepliesBacked, SentMeansHeld
<1>b. \A b \in Leaf \ serving : Backed(b) /\ Held(b)
  BY <1>t DEF RepliesBacked, SentMeansHeld
\* A step that only adds to repos, and to the repo of a leaf that does not
\* serve nothing, and leaves the leaf's own session alone or without cards.
<1>m. ASSUME NEW b \in Leaf \ serving, \A n \in Node : repo[n] \subseteq repo'[n],
             repo'[b] = repo[b], unsent[b] \cup dropped[b] \subseteq unsent'[b] \cup dropped'[b],
             \/ reply'[b] = reply[b] /\ session'[b] = session[b]
             \/ reply'[b].kind # "cards"
      PROVE  Backed(b)' /\ Held(b)'
  <2>1. Elsewhere(b) \subseteq Elsewhere(b)'
    BY <1>m, ElsewhereGrows
  <2> QED
    BY <1>m, <1>b, <2>1
<1> HIDE DEF Backed, Held
<1>1. ASSUME NEW a \in Leaf, NEW c \in Commit, MakeCommit(a, c) PROVE Goal
  <2>1. /\ UNCHANGED <<serving, reply, session, dropped>>
        /\ repo' = [repo EXCEPT ![a] = @ \cup {c}] /\ unsent' = [unsent EXCEPT ![a] = @ \cup {c}]
        /\ \A n \in Node : repo[n] \subseteq repo'[n]
    BY <1>1, <1>t DEF MakeCommit, TypeOK, Node
  <2>2. ASSUME NEW b \in Leaf \ serving, b # a PROVE Backed(b)' /\ Held(b)'
    <3>1. repo'[b] = repo[b] /\ unsent'[b] = unsent[b]
      BY <2>1, <2>2, <1>t DEF TypeOK, Node
    <3> QED
      BY <2>1, <3>1, <1>m
  <2>3. ASSUME a \notin serving PROVE Backed(a)' /\ Held(a)'
    <3>1. repo'[a] \ (unsent'[a] \cup dropped'[a]) \subseteq repo[a] \ (unsent[a] \cup dropped[a])
      BY <2>1, <1>t DEF TypeOK, Node
    <3>2. Elsewhere(a) \subseteq Elsewhere(a)'
      BY <2>1, ElsewhereGrows
    <3> QED
      BY <2>1, <2>3, <3>1, <3>2, <1>b DEF Backed, Held
  <2> QED
    BY <2>1, <2>2, <2>3, <1>g
<1>2. ASSUME NEW a \in Leaf, BeginSync(a) PROVE Goal
  <2>1. UNCHANGED <<serving, repo, unsent, dropped, reply>>
    BY <1>2 DEF BeginSync
  <2>2. reply[a].kind # "cards" /\ \A b \in Leaf \ {a} : session'[b] = session[b]
    BY <1>2, <1>t, EmptySession DEF BeginSync, IdleIsQuiet, TypeOK
  <2>3. ASSUME NEW b \in Leaf \ serving PROVE Backed(b)' /\ Held(b)'
    BY <2>1, <2>2, <1>m
  <2> QED
    BY <2>1, <2>3, <1>g
<1>3. ASSUME NEW a \in Leaf, NEW r \in Responder, Handle(a, r) PROVE Goal
  <2> DEFINE has == repo[r] \cup session[a].files
  <2>1. /\ UNCHANGED <<serving, unsent, dropped, session>> /\ r \in waiting[a] /\ r \in Node
        /\ repo' = [repo EXCEPT ![r] = has]
        /\ \A b \in Leaf \ {a} : reply'[b] = reply[b]
        /\ \/ reply'[a] = reply[a]
           \/ reply'[a].files \subseteq has
    BY <1>3, <1>t DEF Handle, TypeOK, Responder, Node
  <2>2. /\ \A n \in Node : repo[n] \subseteq repo'[n]
        /\ repo'[r] = has
        /\ \A b \in Leaf \ serving : repo'[b] = repo[b]
    BY <2>1, <1>t, <1>u DEF TypeOK, AskedServe, Node
  <2>3. ASSUME NEW b \in Leaf \ serving, b # a \/ reply'[b] = reply[b] PROVE Backed(b)' /\ Held(b)'
    BY <2>1, <2>2, <2>3, <1>m
  <2>4. ASSUME a \notin serving, reply'[a].files \subseteq has PROVE Backed(a)' /\ Held(a)'
    <3>1. r # a
      BY <2>1, <2>4, <1>u
    <3>2. has \subseteq Elsewhere(a)'
      BY <2>1, <2>2, <3>1, HeldElsewhere
    <3>3. Elsewhere(a) \subseteq Elsewhere(a)'
      BY <2>2, ElsewhereGrows
    <3>4. Held(a)'
      BY <2>1, <2>2, <2>4, <3>3, <1>b DEF Held
    <3>5. Backed(a)'
      BY <2>1, <2>4, <3>2 DEF Backed
    <3> QED
      BY <3>4, <3>5
  <2> QED
    BY <2>1, <2>3, <2>4, <1>g
<1>4. ASSUME NEW a \in Leaf, NEW r \in Responder, HandleFails(a, r) PROVE Goal
  <2>1. /\ UNCHANGED <<serving, repo, unsent, dropped, session>>
        /\ \A b \in Leaf : reply'[b] = reply[b] \/ reply'[b].kind # "cards"
    BY <1>4, <1>t, EmptySession DEF HandleFails, TypeOK
  <2>2. ASSUME NEW b \in Leaf \ serving PROVE Backed(b)' /\ Held(b)'
    BY <2>1, <1>m
  <2> QED
    BY <2>1, <2>2, <1>g
<1>5. ASSUME NEW a \in Leaf, TakeReply(a) PROVE Goal
  <2> DEFINE has == repo[a] \cup reply[a].files
             gimme == (session[a].gimme \cup reply[a].igot) \ has
  <2>1. /\ UNCHANGED serving /\ reply[a].kind = "cards"
        /\ repo' = [repo EXCEPT ![a] = has]
        /\ unsent' = [unsent EXCEPT ![a] = @ \ session[a].files]
        /\ dropped' = [dropped EXCEPT ![a] = @ \ session[a].files]
    BY <1>5 DEF TakeReply, Answered
  <2>2. /\ reply'[a].kind # "cards"
        /\ \A b \in Leaf \ {a} : reply'[b] = reply[b] /\ session'[b] = session[b]
    <3>1. CASE Ends(a)
      BY <3>1, <2>1, <1>t, EndsKeeps
    <3>2. has \in Cards /\ gimme \in Cards /\ reply[a].gimme \in Cards
      BY <1>t DEF TypeOK, Cards, Node
    <3>3. CASE Again(a, has, reply[a].gimme, gimme)
      BY <3>2, <3>3, <2>1, <1>t, AgainKeeps
    <3> QED
      BY <1>5, <3>1, <3>3 DEF TakeReply
  <2>3. /\ \A n \in Node : repo[n] \subseteq repo'[n]
        /\ repo'[a] = has /\ unsent'[a] = unsent[a] \ session[a].files
        /\ dropped'[a] = dropped[a] \ session[a].files
        /\ \A b \in Leaf \ {a} : repo'[b] = repo[b] /\ unsent'[b] = unsent[b] /\ dropped'[b] = dropped[b]
    BY <2>1, <1>t DEF TypeOK, Node
  <2>4. ASSUME NEW b \in Leaf \ serving, b # a PROVE Backed(b)' /\ Held(b)'
    BY <2>2, <2>3, <2>4, <1>m
  <2>5. ASSUME a \notin serving PROVE Backed(a)' /\ Held(a)'
    <3>1. /\ session[a].files \cup reply[a].files \subseteq Elsewhere(a)
          /\ repo[a] \ (unsent[a] \cup dropped[a]) \subseteq Elsewhere(a)
      BY <2>1, <2>5, <1>b DEF Backed, Held
    <3>2. Elsewhere(a) \subseteq Elsewhere(a)'
      BY <2>3, ElsewhereGrows
    <3>3. Held(a)'
      BY <2>3, <3>1, <3>2 DEF Held
    <3>4. Backed(a)'
      BY <2>2 DEF Backed
    <3> QED
      BY <3>3, <3>4
  <2> QED
    BY <2>1, <2>4, <2>5, <1>g
<1>6. ASSUME NEW a \in Leaf, TakeEmpty(a) \/ Timeout(a) PROVE Goal
  <2>1. PICK resend \in {{}, session[a].files} :
          /\ Unanswered(a, resend)
          /\ Ends(a) \/ Again(a, repo[a], resend, session[a].gimme)
    BY <1>6 DEF TakeEmpty, Timeout
  <2>2. UNCHANGED <<serving, repo>>
    BY <1>6 DEF TakeEmpty, Timeout
  <2>3. /\ reply'[a].kind # "cards"
        /\ \A b \in Leaf \ {a} : reply'[b] = reply[b] /\ session'[b] = session[b]
    <3>1. CASE Ends(a)
      BY <3>1, <2>2, <1>t, EndsKeeps
    <3>2. repo[a] \in Cards /\ resend \in Cards /\ session[a].gimme \in Cards
      BY <1>t DEF TypeOK, Cards, Node
    <3>3. CASE Again(a, repo[a], resend, session[a].gimme)
      BY <3>2, <3>3, <2>2, <1>t, AgainKeeps
    <3> QED
      BY <2>1, <3>1, <3>3
  <2>4. \A b \in Leaf : unsent[b] \cup dropped[b] \subseteq unsent'[b] \cup dropped'[b]
    BY <2>1, <2>2, <1>t, UnansweredKeeps
  <2>5. ASSUME NEW b \in Leaf \ serving PROVE Backed(b)' /\ Held(b)'
    BY <2>2, <2>3, <2>4, <1>m
  <2> QED
    BY <2>2, <2>5, <1>g
<1>7. ASSUME NEW f \in Server, BridgeStops(f) PROVE Goal
  <2>1. \E files : repo' = [repo EXCEPT ![f] = @ \cup files]
    BY <1>7 DEF BridgeStops
  <2>2. UNCHANGED <<serving, unsent, dropped, session, reply>>
    BY <1>7 DEF BridgeStops
  <2>3. (\A n \in Node : repo[n] \subseteq repo'[n]) /\ \A b \in Leaf : repo'[b] = repo[b]
    BY <2>1, <1>t DEF TypeOK, Node
  <2>4. ASSUME NEW b \in Leaf \ serving PROVE Backed(b)' /\ Held(b)'
    BY <2>2, <2>3, <1>m
  <2> QED
    BY <2>2, <2>4, <1>g
<1>8. CASE HandleStray
  <2>1. PICK x \in strays : /\ repo' = [repo EXCEPT ![x[1]] = @ \cup x[2]]
                            /\ UNCHANGED <<unsent, dropped, session, reply, serving>>
    BY <1>8 DEF HandleStray
  <2>2. x[1] \in serving \cup Server
    BY <1>t DEF AskedServe
  <2>3. /\ \A n \in Node : repo[n] \subseteq repo'[n]
        /\ \A b \in Leaf \ serving : repo'[b] = repo[b]
    BY <2>1, <2>2, <1>t DEF TypeOK, Node
  <2>4. ASSUME NEW b \in Leaf \ serving PROVE Backed(b)' /\ Held(b)'
    BY <2>1, <2>3, <1>m
  <2> QED
    BY <2>1, <2>4, <1>g
<1>9. CASE UNCHANGED <<serving, repo, unsent, dropped, session, reply>>
  <2>1. ASSUME NEW b \in Leaf \ serving PROVE Backed(b)' /\ Held(b)'
    BY <1>9, <1>m
  <2> QED
    BY <1>9, <2>1, <1>g
<1>10. (\E f \in Server : BridgeStarts(f)) \/ Unlink \/ Link \/ UNCHANGED vars
         => UNCHANGED <<serving, repo, unsent, dropped, session, reply>>
  BY DEF BridgeStarts, Unlink, Link, vars
<1> QED
  BY <1>1, <1>2, <1>3, <1>4, <1>5, <1>6, <1>7, <1>8, <1>9, <1>10 DEF Next

\* A commit of a leaf that does not serve is in the repo of some other node,
\* unless it is on the unsent list or libfossil dropped it from there after a
\* round that brought no cards, for any number of leaves, bridges, commits,
\* failures and link losses (RoundTrip in leaf/agent/nats.go, ServeNATS, the
\* bridge).
THEOREM SentCommitsAreHeld == Spec => []SentMeansHeld
<1>1. Spec => []IInv
  BY InitIInv, NextIInv, PTL DEF Spec
<1>2. IInv => SentMeansHeld
  BY DEF IInv
<1> QED
  BY <1>1, <1>2, PTL

-----------------------------------------------------------------------------
(***************************************************************************)
(* TunnelMesh: OneLink speaks of links only; the invariant carries what a  *)
(* link is made of: it came through a tunnel, and a tunnel was opened only *)
(* by a side that should solicit, towards a side that is not a leaf.  The  *)
(* order of the EndpointIds does the rest.                                 *)
(***************************************************************************)
LEMMA InitMeshInv == MeshInit => MeshInv
BY BoundsNat DEF MeshInit, MeshInv, MeshTypeOK, TunnelsWanted, LinksTunnelled, Role

LEMMA NextMeshTypes == MeshTypeOK /\ [MeshNext]_meshVars => MeshTypeOK'
<1> SUFFICES ASSUME MeshTypeOK, [MeshNext]_meshVars PROVE MeshTypeOK'
  OBVIOUS
<1>1. ASSUME NEW a \in Agent, StartSidecar(a) PROVE MeshTypeOK'
  BY <1>1, BoundsNat DEF MeshTypeOK, StartSidecar
<1>2. ASSUME NEW a \in Agent, StartNATS(a) PROVE MeshTypeOK'
  BY <1>2 DEF MeshTypeOK, StartNATS, LeafRemotes
<1>3. ASSUME NEW a \in Agent, Down(a) PROVE MeshTypeOK'
  BY <1>3 DEF MeshTypeOK, Down
<1>4. ASSUME NEW a \in Agent, NEW b \in Agent, OpenTunnel(a, b) PROVE MeshTypeOK'
  BY <1>4 DEF MeshTypeOK, OpenTunnel
<1>5. ASSUME NEW a \in Agent, NEW b \in Agent, SkipPeer(a, b) PROVE MeshTypeOK'
  BY <1>5 DEF MeshTypeOK, SkipPeer
<1>6. ASSUME NEW a \in Agent, NEW b \in Agent, Solicit(a, b) PROVE MeshTypeOK'
  BY <1>6 DEF MeshTypeOK, Solicit
<1>7. ASSUME NEW a \in Agent, NEW b \in Agent, Drop(a, b) PROVE MeshTypeOK'
  BY <1>7, BoundsNat DEF MeshTypeOK, Drop
<1>8. CASE UNCHANGED meshVars
  BY <1>8 DEF MeshTypeOK, meshVars
<1> QED
  BY <1>1, <1>2, <1>3, <1>4, <1>5, <1>6, <1>7, <1>8 DEF MeshNext

LEMMA NextMeshInv == MeshInv /\ [MeshNext]_meshVars => MeshInv'
<1> SUFFICES ASSUME MeshInv, [MeshNext]_meshVars PROVE (TunnelsWanted /\ LinksTunnelled)'
  BY NextMeshTypes DEF MeshInv
<1> USE DEF MeshInv, MeshTypeOK, TunnelsWanted, LinksTunnelled, ShouldSolicit
<1> DEFINE Goal == (TunnelsWanted /\ LinksTunnelled)'
<1>1. ASSUME NEW a \in Agent, StartSidecar(a) PROVE Goal
  BY <1>1 DEF StartSidecar
<1>2. ASSUME NEW a \in Agent, StartNATS(a) PROVE Goal
  BY <1>2 DEF StartNATS
<1>3. ASSUME NEW a \in Agent, Down(a) PROVE Goal
  <2>1. ASSUME NEW c \in Agent, NEW d \in Agent, tunnel'[c][d] # "none"
        PROVE  c # a /\ tunnel[c][d] # "none"
    BY <1>3, <2>1 DEF Down
  <2>2. ASSUME NEW c \in Agent, NEW d \in Agent, link'[c][d]
        PROVE  c # a /\ link[c][d]
    BY <1>3, <2>2 DEF Down
  <2>3. ASSUME NEW c \in Agent, c # a
        PROVE  up'[c] = up[c] /\ tunnel'[c] = tunnel[c]
    BY <1>3, <2>3 DEF Down
  <2>4. TunnelsWanted'
    <3>1. role' = role
      BY <1>3 DEF Down
    <3>2. ASSUME NEW c \in Agent, NEW d \in Agent, tunnel'[c][d] # "none"
          PROVE  ShouldSolicit(c, d)' /\ role'[d] # "leaf"
      <4>1. tunnel[c][d] # "none"
        BY <2>1, <3>2
      <4>2. ShouldSolicit(c, d) /\ role[d] # "leaf"
        BY <4>1
      <4> QED
        BY <3>1, <4>2
    <3> QED
      BY <3>2
  <2>5. LinksTunnelled'
    BY <2>2, <2>3
  <2> QED
    BY <2>4, <2>5
<1>4. ASSUME NEW a \in Agent, NEW b \in Agent, OpenTunnel(a, b) PROVE Goal
  BY <1>4 DEF OpenTunnel, OffersTunnel
<1>5. ASSUME NEW a \in Agent, NEW b \in Agent, SkipPeer(a, b) PROVE Goal
  BY <1>5 DEF SkipPeer
<1>6. ASSUME NEW a \in Agent, NEW b \in Agent, Solicit(a, b) PROVE Goal
  BY <1>6 DEF Solicit
<1>7. ASSUME NEW a \in Agent, NEW b \in Agent, Drop(a, b) PROVE Goal
  BY <1>7 DEF Drop
<1>8. CASE UNCHANGED meshVars
  BY <1>8 DEF meshVars
<1> QED
  BY <1>1, <1>2, <1>3, <1>4, <1>5, <1>6, <1>7, <1>8 DEF MeshNext

\* Of two leaves neither offers a tunnel; of a leaf and another only the leaf
\* solicits; of two peers only the one with the smaller id.
LEMMA MeshInvOneLink == MeshInv => OneLink
<1> SUFFICES ASSUME MeshInv, NEW a \in Agent, NEW b \in Agent, link[a][b], link[b][a]
             PROVE FALSE
  BY DEF OneLink
<1>1. /\ ShouldSolicit(a, b) /\ role[b] # "leaf"
      /\ ShouldSolicit(b, a) /\ role[a] # "leaf"
  BY DEF MeshInv, TunnelsWanted, LinksTunnelled
<1>2. a < b /\ b < a
  BY <1>1 DEF ShouldSolicit
<1> QED
  BY <1>2, EndpointIdsOrdered

\* Two servers are never leaves of each other through the tunnels, for any
\* number of agents (shouldSolicit, ReserveLeafPort, establish_outbound).
THEOREM OneLinkPerPair == MeshSpec => []OneLink
<1>1. MeshSpec => []MeshInv
  BY InitMeshInv, NextMeshInv, PTL DEF MeshSpec
<1> QED
  BY <1>1, MeshInvOneLink, PTL

-----------------------------------------------------------------------------
(***************************************************************************)
(* IrohExchange: OneConnection is not inductive.  A request that has       *)
(* looked at the cache and is connecting must be the only one to do so,    *)
(* and its entry must stay empty until it fills it.  Both are what the     *)
(* lock across the connect gives.  FailureHasCause rests on the look at    *)
(* the cached connection: an exchange whose stream is in use has a live    *)
(* connection or saw it die.                                               *)
(***************************************************************************)
LEMMA InitExchangeInv == ExchangeInit => ExchangeInv
BY ExchangeAssumption DEF ExchangeInit, ExchangeInv, ExchangeTypeOK, InFlight, AliveCached, ConnectorHoldsLock

LEMMA NextExchangeTypes == ExchangeTypeOK /\ [ExchangeNext]_exchangeVars => ExchangeTypeOK'
<1> SUFFICES ASSUME ExchangeTypeOK, [ExchangeNext]_exchangeVars PROVE ExchangeTypeOK'
  OBVIOUS
<1> USE ExchangeAssumption DEF ExchangeTypeOK, InFlight, Finish
<1>1. ASSUME NEW r \in Request, Begin(r) \/ Reuse(r) \/ Connect(r) PROVE ExchangeTypeOK'
  BY <1>1 DEF Begin, Reuse, Connect
<1>2. ASSUME NEW r \in Request, Connected(r) PROVE ExchangeTypeOK'
  BY <1>2 DEF Connected
<1>3. ASSUME NEW r \in Request, ConnectFails(r) \/ BadRequest(r) \/ CancelRequest(r) PROVE ExchangeTypeOK'
  BY <1>3 DEF ConnectFails, BadRequest, CancelRequest
<1>4. ASSUME NEW r \in Request, Send(r) \/ Accept(r) \/ Receive(r) \/ ReceiveTooLarge(r) \/ StreamFails(r)
      PROVE ExchangeTypeOK'
  BY <1>4 DEF Send, Accept, Receive, ReceiveTooLarge, StreamFails
<1>5. ASSUME NEW r \in Request, AgentHandles(r) PROVE ExchangeTypeOK'
  BY <1>5 DEF AgentHandles
<1>6. ASSUME NEW p \in Peer, NEW n \in 1..MaxConns, ConnDies(p, n) PROVE ExchangeTypeOK'
  BY <1>6 DEF ConnDies
<1>7. CASE UNCHANGED exchangeVars
  BY <1>7 DEF exchangeVars
<1> QED
  BY <1>1, <1>2, <1>3, <1>4, <1>5, <1>6, <1>7 DEF ExchangeNext, Step

LEMMA NextExchangeInv == ExchangeInv /\ [ExchangeNext]_exchangeVars => ExchangeInv'
<1> SUFFICES ASSUME ExchangeInv, [ExchangeNext]_exchangeVars PROVE (AliveCached /\ ConnectorHoldsLock)'
  BY NextExchangeTypes DEF ExchangeInv
<1> USE ExchangeAssumption DEF ExchangeInv, ExchangeTypeOK, InFlight, Finish, AliveCached, ConnectorHoldsLock
<1> DEFINE Goal == (AliveCached /\ ConnectorHoldsLock)'
<1>1. ASSUME NEW r \in Request, Begin(r) \/ Reuse(r) PROVE Goal
  BY <1>1 DEF Begin, Reuse
<1>2. ASSUME NEW r \in Request, Connect(r) PROVE Goal
  \* The lock was free, so nobody else is connecting; the entry it empties is
  \* not that of a live connection.
  BY <1>2 DEF Connect
<1>3. ASSUME NEW r \in Request, Connected(r) PROVE Goal
  <2>1. \A x \in alive : x[1] # to[r]
    BY <1>3 DEF Connected
  <2>2. AliveCached'
    BY <1>3, <2>1 DEF Connected
  <2>3. ConnectorHoldsLock'
    BY <1>3 DEF Connected
  <2> QED
    BY <2>2, <2>3
<1>4. ASSUME NEW r \in Request, ConnectFails(r) \/ BadRequest(r) \/ CancelRequest(r) PROVE Goal
  BY <1>4 DEF ConnectFails, BadRequest, CancelRequest
<1>5. ASSUME NEW r \in Request, Send(r) \/ Accept(r) \/ Receive(r) \/ ReceiveTooLarge(r) \/ StreamFails(r)
      PROVE Goal
  BY <1>5 DEF Send, Accept, Receive, ReceiveTooLarge, StreamFails
<1>6. ASSUME NEW r \in Request, AgentHandles(r) PROVE Goal
  BY <1>6 DEF AgentHandles
<1>7. ASSUME NEW p \in Peer, NEW n \in 1..MaxConns, ConnDies(p, n) PROVE Goal
  BY <1>7 DEF ConnDies
<1>8. CASE UNCHANGED exchangeVars
  BY <1>8 DEF exchangeVars
<1> QED
  BY <1>1, <1>2, <1>3, <1>4, <1>5, <1>6, <1>7, <1>8 DEF ExchangeNext, Step

LEMMA IInvOneConnection == ExchangeInv => OneConnection
BY DEF ExchangeInv, ExchangeTypeOK, AliveCached, OneConnection

\* A peer never has two live connections from one sidecar, however many
\* requests race, are cancelled or find their connection dead
\* (get_or_connect in iroh-sidecar/src/server.rs).
THEOREM OneConnectionPerPeer == ExchangeSpec => []OneConnection
<1>1. ExchangeSpec => []ExchangeInv
  BY InitExchangeInv, NextExchangeInv, PTL DEF ExchangeSpec
<1> QED
  BY <1>1, IInvOneConnection, PTL

-----------------------------------------------------------------------------
\* An exchange takes up a connection that is alive at that moment, and a
\* connection that dies marks the exchanges that use it.
LEMMA NextCauseInv == CauseInv /\ [ExchangeNext]_exchangeVars => CauseInv'
<1> SUFFICES ASSUME CauseInv, [ExchangeNext]_exchangeVars PROVE (StreamAccounted /\ FailureHasCause)'
  BY NextExchangeTypes DEF CauseInv
<1> USE ExchangeAssumption
    DEF CauseInv, ExchangeTypeOK, InFlight, Live, Finish, StreamAccounted, FailureHasCause
<1> DEFINE Goal == (StreamAccounted /\ FailureHasCause)'
<1>1. ASSUME NEW r \in Request, Begin(r) \/ Reuse(r) \/ Connect(r) PROVE Goal
  BY <1>1 DEF Begin, Reuse, Connect
<1>2. ASSUME NEW r \in Request, Connected(r) PROVE Goal
  BY <1>2 DEF Connected
<1>3. ASSUME NEW r \in Request, ConnectFails(r) \/ BadRequest(r) \/ CancelRequest(r) PROVE Goal
  BY <1>3 DEF ConnectFails, BadRequest, CancelRequest
<1>4. ASSUME NEW r \in Request, Send(r) \/ Accept(r) \/ Receive(r) \/ ReceiveTooLarge(r) PROVE Goal
  BY <1>4 DEF Send, Accept, Receive, ReceiveTooLarge
<1>5. ASSUME NEW r \in Request, AgentHandles(r) PROVE Goal
  BY <1>5 DEF AgentHandles
<1>6. ASSUME NEW r \in Request, StreamFails(r) PROVE Goal
  \* Its connection is dead, so it has seen that happen.
  BY <1>6 DEF StreamFails
<1>7. ASSUME NEW p \in Peer, NEW n \in 1..MaxConns, ConnDies(p, n) PROVE Goal
  BY <1>7 DEF ConnDies
<1>8. CASE UNCHANGED exchangeVars
  BY <1>8 DEF exchangeVars
<1> QED
  BY <1>1, <1>2, <1>3, <1>4, <1>5, <1>6, <1>7, <1>8 DEF ExchangeNext, Step

\* Every exchange that fails had a fault of its own while it ran: a cached
\* connection that was already closed when it began is never used
\* (close_reason in get_or_connect, iroh-sidecar/src/server.rs).
THEOREM FailuresHaveCauses == ExchangeSpec => []FailureHasCause
<1>1. ExchangeInit => CauseInv
  BY InitExchangeInv DEF ExchangeInit, ExchangeInv, CauseInv, StreamAccounted, FailureHasCause
<1>2. ExchangeSpec => []CauseInv
  BY <1>1, NextCauseInv, PTL DEF ExchangeSpec
<1>3. CauseInv => FailureHasCause
  BY DEF CauseInv
<1> QED
  BY <1>2, <1>3, PTL

=============================================================================
