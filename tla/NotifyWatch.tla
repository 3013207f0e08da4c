---------------------------- MODULE NotifyWatch -----------------------------
(***************************************************************************)
(* One Service.Watch call (leaf/agent/notify/notify.go, pubsub.go).        *)
(*                                                                         *)
(* Three goroutines share the output channel: the dispatcher nats.go runs  *)
(* for the subscription (one callback at a time), the closer that waits    *)
(* for the context, and the consumer.  A message is the number of its      *)
(* arrival.  Ids are 1, 2, ... in the order of their first publication; a  *)
(* message with the same id may come again, and the Subscriber may have    *)
(* been told to filter duplicates (EnableDedup).                           *)
(***************************************************************************)
EXTENDS Naturals, Sequences, SequencesExt

CONSTANTS
  Capacity,   \* of the channel: 16 in the code
  MaxSeen,    \* ids the filter remembers: maxSeenIDs, 10000 in the code
  MaxMsgs,    \* bound on messages that arrive
  MaxId       \* bound on their ids

ASSUME WatchAssumption ==
  /\ {Capacity, MaxSeen} \subseteq Nat \ {0}
  /\ {MaxMsgs, MaxId} \subseteq Nat

Id == 1..MaxId

VARIABLES
  call,        \* Watch: subscribing, then returned with a live or a failed subscription
  subActive,   \* nats.go still dispatches for the subscription
  pending,     \* messages queued for the dispatcher
  callback,    \* idle, popped (before mu.Lock), or selecting (mu held)
  current,     \* the callback's message, 0 when idle
  mu,          \* holder of the Watch mutex: nobody, callback or closer
  closer,      \* the goroutine: none, waiting, unsubscribed, holding, done
  closedFlag,  \* the closed variable
  ctxDone,     \* the context is cancelled
  chan,        \* the buffered channel
  chanClosed,
  panicked,    \* send on, or close of, a closed channel
  dedup,       \* EnableDedup was called
  seenOrder,   \* ids the filter remembers, oldest first
  arrived,     \* ids of the messages that have arrived at the subscription
  received     \* what the consumer took out

watchVars == <<call, subActive, pending, callback, current, mu, closer, closedFlag,
          ctxDone, chan, chanClosed, panicked, dedup, seenOrder, arrived, received>>

WatchTypeOK ==
  /\ call \in {"subscribing", "live", "failed"}
  /\ subActive \in BOOLEAN
  /\ pending \in Seq(Nat)
  /\ callback \in {"idle", "popped", "selecting"}
  /\ current \in Nat
  /\ mu \in {"nobody", "callback", "closer"}
  /\ closer \in {"none", "waiting", "unsubscribed", "holding", "done"}
  /\ closedFlag \in BOOLEAN
  /\ ctxDone \in BOOLEAN
  /\ chan \in Seq(Nat) /\ Len(chan) <= Capacity
  /\ chanClosed \in BOOLEAN
  /\ panicked \in BOOLEAN
  /\ dedup \in BOOLEAN
  /\ seenOrder \in Seq(Id) /\ Len(seenOrder) <= MaxSeen /\ IsInjective(seenOrder)
  /\ arrived \in Seq(Id) /\ Len(arrived) <= MaxMsgs
  /\ received \in Seq(Nat)

WatchInit ==
  /\ call = "subscribing"
  /\ subActive = TRUE           \* conn.Subscribe has returned, Flush has not
  /\ pending = <<>>
  /\ callback = "idle"
  /\ current = 0
  /\ mu = "nobody"
  /\ closer = "none"
  /\ closedFlag = FALSE
  /\ ctxDone = FALSE
  /\ chan = <<>>
  /\ chanClosed = FALSE
  /\ panicked = FALSE
  /\ dedup \in BOOLEAN
  /\ seenOrder = <<>>
  /\ arrived = <<>>
  /\ received = <<>>

Running == ~panicked
-----------------------------------------------------------------------------
(* Watch itself *)

\* Flush succeeds; Watch starts the closer and returns the channel.
WatchReturns ==
  /\ Running
  /\ call = "subscribing"
  /\ call' = "live"
  /\ closer' = "waiting"
  /\ UNCHANGED <<subActive, pending, callback, current, mu, closedFlag, ctxDone,
                 chan, chanClosed, panicked, dedup, seenOrder, arrived, received>>

\* Flush fails: subscribeReturn hands back the subscription and the error,
\* Watch closes the channel and leaves the subscription alone.
WatchFails ==
  /\ Running
  /\ call = "subscribing"
  /\ call' = "failed"
  /\ chanClosed' = TRUE
  /\ UNCHANGED <<subActive, pending, callback, current, mu, closer, closedFlag,
                 ctxDone, chan, panicked, dedup, seenOrder, arrived, received>>

Cancel ==
  /\ Running
  /\ ~ctxDone
  /\ ctxDone' = TRUE
  /\ UNCHANGED <<call, subActive, pending, callback, current, mu, closer, closedFlag,
                 chan, chanClosed, panicked, dedup, seenOrder, arrived, received>>

\* Service.Close, or the end of the connection, ends the subscription.
Unsubscribed ==
  /\ Running
  /\ call # "subscribing"
  /\ subActive
  /\ subActive' = FALSE
  /\ UNCHANGED <<call, pending, callback, current, mu, closer, closedFlag, ctxDone,
                 chan, chanClosed, panicked, dedup, seenOrder, arrived, received>>

Arrive ==
  /\ Running
  /\ subActive
  /\ Len(arrived) < MaxMsgs
  /\ \E id \in Id :
       /\ \A older \in 1..(id - 1) : Contains(arrived, older)
       /\ arrived' = Append(arrived, id)
  /\ pending' = Append(pending, Len(arrived) + 1)
  /\ UNCHANGED <<call, subActive, callback, current, mu, closer, closedFlag, ctxDone,
                 chan, chanClosed, panicked, dedup, seenOrder, received>>

-----------------------------------------------------------------------------
(* The callback *)

\* isDuplicate, under the Subscriber's mutex: past the bound the older half is
\* forgotten.
IsDuplicate(id) == dedup /\ Contains(seenOrder, id)

\* Fault: the newer half is forgotten.
RememberNewest(id) ==
  LET order == Append(seenOrder, id) IN
    IF Len(order) > MaxSeen THEN SubSeq(order, 1, Len(order) \div 2) ELSE order

Remember(id) ==
  LET order == Append(seenOrder, id) IN
    IF Len(order) > MaxSeen
      THEN SubSeq(order, Len(order) \div 2 + 1, Len(order))
      ELSE order

\* The dispatcher takes the next message.  Unsubscribe does not wait for it.
Pop ==
  /\ Running
  /\ subActive
  /\ callback = "idle"
  /\ pending # <<>>
  /\ pending' = Tail(pending)
  /\ LET id == arrived[Head(pending)] IN
       IF IsDuplicate(id)
         THEN UNCHANGED <<callback, current, seenOrder>>
         ELSE /\ callback' = "popped"
              /\ current' = Head(pending)
              /\ seenOrder' = IF dedup THEN Remember(id) ELSE seenOrder
  /\ UNCHANGED <<call, subActive, mu, closer, closedFlag, ctxDone, chan, chanClosed,
                 panicked, dedup, arrived, received>>

\* Fault: no closed flag, as before issue #100 was closed for good.
LockUnflagged ==
  /\ Running
  /\ callback = "popped"
  /\ mu = "nobody"
  /\ callback' = "selecting"
  /\ mu' = "callback"
  /\ UNCHANGED <<call, subActive, pending, current, closer, closedFlag, ctxDone, chan,
                 chanClosed, panicked, dedup, seenOrder, arrived, received>>

\* mu.Lock(); return at once when the closer was here.
Lock ==
  /\ Running
  /\ callback = "popped"
  /\ mu = "nobody"
  /\ IF closedFlag
       THEN callback' = "idle" /\ current' = 0 /\ mu' = mu
       ELSE callback' = "selecting" /\ current' = current /\ mu' = "callback"
  /\ UNCHANGED <<call, subActive, pending, closer, closedFlag, ctxDone, chan,
                 chanClosed, panicked, dedup, seenOrder, arrived, received>>

\* Fault: a default case drops the message when the channel is full.
SelectSendDrops ==
  /\ Running
  /\ callback = "selecting"
  /\ panicked' = chanClosed
  /\ chan' = IF chanClosed \/ Len(chan) = Capacity THEN chan ELSE Append(chan, current)
  /\ callback' = "idle"
  /\ current' = 0
  /\ mu' = "nobody"
  /\ UNCHANGED <<call, subActive, pending, closer, closedFlag, ctxDone, chanClosed,
                 dedup, seenOrder, arrived, received>>

\* select, case ch <- msg: a closed channel panics, a full one is not ready.
SelectSend ==
  /\ Running
  /\ callback = "selecting"
  /\ \/ /\ chanClosed
        /\ panicked' = TRUE
        /\ UNCHANGED chan
     \/ /\ ~chanClosed
        /\ Len(chan) < Capacity
        /\ chan' = Append(chan, current)
        /\ UNCHANGED panicked
  /\ callback' = "idle"
  /\ current' = 0
  /\ mu' = "nobody"
  /\ UNCHANGED <<call, subActive, pending, closer, closedFlag, ctxDone, chanClosed,
                 dedup, seenOrder, arrived, received>>

\* Fault: a plain send instead of the select.
SelectNever == FALSE /\ UNCHANGED watchVars

\* select, case <-ctx.Done(): the message is dropped.
SelectDone ==
  /\ Running
  /\ callback = "selecting"
  /\ ctxDone
  /\ callback' = "idle"
  /\ current' = 0
  /\ mu' = "nobody"
  /\ UNCHANGED <<call, subActive, pending, closer, closedFlag, ctxDone, chan,
                 chanClosed, panicked, dedup, seenOrder, arrived, received>>

-----------------------------------------------------------------------------
(* The closer and the consumer *)

CloserUnsubscribes ==
  /\ Running
  /\ closer = "waiting"
  /\ ctxDone
  /\ closer' = "unsubscribed"
  /\ subActive' = FALSE
  /\ UNCHANGED <<call, pending, callback, current, mu, closedFlag, ctxDone, chan,
                 chanClosed, panicked, dedup, seenOrder, arrived, received>>

CloserLocks ==
  /\ Running
  /\ closer = "unsubscribed"
  /\ mu = "nobody"
  /\ mu' = "closer"
  /\ closer' = "holding"
  /\ UNCHANGED <<call, subActive, pending, callback, current, closedFlag, ctxDone,
                 chan, chanClosed, panicked, dedup, seenOrder, arrived, received>>

\* closed = true; close(ch); mu.Unlock().
CloserCloses ==
  /\ Running
  /\ closer = "holding"
  /\ closer' = "done"
  /\ closedFlag' = TRUE
  /\ chanClosed' = TRUE
  /\ panicked' = chanClosed
  /\ mu' = "nobody"
  /\ UNCHANGED <<call, subActive, pending, callback, current, ctxDone, chan,
                 dedup, seenOrder, arrived, received>>

Consume ==
  /\ Running
  /\ chan # <<>>
  /\ received' = Append(received, Head(chan))
  /\ chan' = Tail(chan)
  /\ UNCHANGED <<call, subActive, pending, callback, current, mu, closer, closedFlag,
                 ctxDone, chanClosed, panicked, dedup, seenOrder, arrived>>

-----------------------------------------------------------------------------
Callback == Pop \/ Lock \/ SelectSend \/ SelectDone
Closer == CloserUnsubscribes \/ CloserLocks \/ CloserCloses

WatchNext ==
  \/ WatchReturns
  \/ WatchFails
  \/ Cancel
  \/ Unsubscribed
  \/ Arrive
  \/ Callback
  \/ Closer
  \/ Consume

WatchSpec == WatchInit /\ [][WatchNext]_watchVars

(***************************************************************************)
(* Goroutines run on and the mutex is handed to a starving waiter; nobody  *)
(* has to publish, cancel or read the channel.                             *)
(***************************************************************************)
WatchFairSpec ==
  /\ WatchSpec
  /\ WF_watchVars(WatchReturns \/ WatchFails)
  /\ WF_watchVars(Lock)
  /\ WF_watchVars(SelectSend \/ SelectDone)
  /\ WF_watchVars(CloserUnsubscribes)
  /\ SF_watchVars(CloserLocks)
  /\ WF_watchVars(CloserCloses)

-----------------------------------------------------------------------------
(* Properties *)

\* No interleaving of cancel, Unsubscribe, a late callback and the close
\* sends on a closed channel or closes it twice, once the subscription was
\* set up without an error.
LiveWatchNeverPanics == panicked => call = "failed"

\* notify.go:187: "The `closed` flag keeps callbacks scheduled after teardown
\* from re-entering the select once ch is closed".  The error path of Watch
\* closes ch without the flag and leaves the subscription dispatching.
NeverPanics == ~panicked

\* How many of the messages that arrived the dispatcher has taken, and those
\* it took that are in or behind the callback, in order.
Taken == Len(arrived) - Len(pending)
Given == received \o chan \o (IF current = 0 THEN <<>> ELSE <<current>>)

First(n) == \A m \in 1..(n - 1) : arrived[m] # arrived[n]

\* What the filter keeps when it forgets.
Half == MaxSeen + 1 - (MaxSeen + 1) \div 2

\* The consumer gets what arrived, in the order of arrival.
InOrder ==
  /\ \A i \in DOMAIN Given : Given[i] \in 1..Taken
  /\ \A i, j \in DOMAIN Given : i < j => Given[i] < Given[j]

\* A message is missing only if the context was cancelled, the subscription
\* failed, or the filter has seen its id before.
NoGaps ==
  ~ctxDone /\ call # "failed" =>
    \A n \in 1..Taken : ~dedup \/ First(n) => \E i \in DOMAIN Given : Given[i] = n

\* The filter lets an id through again only after as many others as the half
\* it remembers.
FarApart ==
  dedup /\ ~ctxDone => \A i, j \in DOMAIN Given :
    i < j /\ arrived[Given[i]] = arrived[Given[j]] => j - i > Half

\* notify.go:177: "Watch returns a channel of messages, closed when ctx is
\* cancelled": nothing is reordered, lost or doubled before that, whatever the
\* interleaving of dispatcher, callback, closer and consumer, with the channel
\* full and the filter at its limit.
InOrderNoGaps == InOrder /\ NoGaps /\ FarApart

\* Cancelling the context closes the channel even when the consumer is gone,
\* the channel is full and a callback is blocked in its select.
CancelCloses == ctxDone ~> chanClosed

-----------------------------------------------------------------------------
(* Inductive invariants *)

\* Who holds the mutex, and how far closer and close are.
Gated ==
  /\ mu = "callback" <=> callback = "selecting"
  /\ mu = "closer" <=> closer = "holding"
  /\ closer = "none" <=> call # "live"
  /\ closer \in {"unsubscribed", "holding", "done"} => ctxDone
  /\ closedFlag <=> closer = "done"
  /\ ~panicked => (chanClosed <=> closedFlag \/ call = "failed")
  /\ callback = "selecting" => ~closedFlag
  /\ current = 0 <=> callback = "idle"

\* The queue is what arrived and was not taken.
PendingIsRest ==
  /\ Len(pending) <= Len(arrived)
  /\ \A i \in DOMAIN pending : pending[i] = Taken + i

\* The filter remembers ids that were taken; before the first loss these are
\* the ids of the last messages, all of them or at least the half.
SeenTaken == \A k \in DOMAIN seenOrder : \E m \in 1..Taken : arrived[m] = seenOrder[k]
SeenAreLast ==
  dedup /\ ~ctxDone /\ ~panicked =>
    /\ Len(seenOrder) <= Len(Given)
    /\ Len(seenOrder) = Len(Given) \/ Len(seenOrder) >= Half
    /\ \A k \in DOMAIN seenOrder :
         seenOrder[k] = arrived[Given[Len(Given) - Len(seenOrder) + k]]

GateInv == WatchTypeOK /\ Gated /\ PendingIsRest /\ LiveWatchNeverPanics
WatchInv == GateInv /\ SeenTaken /\ SeenAreLast /\ InOrderNoGaps
=============================================================================
