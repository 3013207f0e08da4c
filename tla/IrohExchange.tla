---------------------------- MODULE IrohExchange ----------------------------
(***************************************************************************)
(* Xfer exchanges over iroh: IrohTransport posts a request to its sidecar, *)
(* which takes a cached QUIC connection to the peer or opens one under the *)
(* cache's lock (iroh-sidecar/src/server.rs); the peer's sidecar accepts   *)
(* the stream and forwards it to its agent (acceptor.rs).                  *)
(*                                                                         *)
(* One requesting sidecar, concurrent requests, several peers.             *)
(***************************************************************************)
EXTENDS Naturals

CONSTANTS
    Request,      \* exchanges
    Peer,         \* remote endpoint ids
    Nobody,       \* the lock is free
    MaxConns      \* bound: connections opened

ASSUME ExchangeAssumption == Nobody \notin Request /\ MaxConns \in Nat

VARIABLES
    at,           \* at[r]: how far exchange r is
    to,           \* to[r]: its peer
    conn,         \* conn[r]: the connection it uses, 0 for none
    lock,         \* holder of conn_cache's mutex across a connect
    cache,        \* conn_cache: the connection kept for each peer, 0 for none
    alive,        \* connections <<peer, number>> with close_reason() none
    opened,       \* connections opened so far
    fault         \* observer: something went wrong during exchange r

exchangeVars == <<at, to, conn, lock, cache, alive, opened, fault>>

InFlight == {"queued", "connecting", "ready", "sent", "accepted", "answered"}

ExchangeTypeOK ==
    /\ at \in [Request -> InFlight \cup {"idle", "ok", "error"}]
    /\ to \in [Request -> Peer]
    /\ conn \in [Request -> 0..MaxConns]
    /\ lock \in Request \cup {Nobody}
    /\ cache \in [Peer -> 0..MaxConns]
    /\ alive \subseteq Peer \X (1..MaxConns)
    /\ opened \in 0..MaxConns
    /\ fault \in [Request -> BOOLEAN]

ExchangeInit ==
    /\ at = [r \in Request |-> "idle"]
    /\ to \in [Request -> Peer]
    /\ conn = [r \in Request |-> 0]
    /\ lock = Nobody
    /\ cache = [p \in Peer |-> 0]
    /\ alive = {}
    /\ opened = 0
    /\ fault = [r \in Request |-> FALSE]
-----------------------------------------------------------------------------
Live(r) == <<to[r], conn[r]>> \in alive

\* The handler returns or is dropped, and with it the guard of the lock, if the
\* handler still has it.
Finish(r, end) ==
    /\ at' = [at EXCEPT ![r] = end]
    /\ lock' = IF lock = r THEN Nobody ELSE lock

\* RoundTrip: POST /exchange/{endpoint-id}.
Begin(r) ==
    /\ at[r] = "idle"
    /\ at' = [at EXCEPT ![r] = "queued"]
    /\ UNCHANGED <<to, conn, lock, cache, alive, opened, fault>>

\* The endpoint id does not parse: HTTP 400, before the cache is looked at.
BadRequest(r) ==
    /\ at[r] = "idle"
    /\ Finish(r, "error")
    /\ fault' = [fault EXCEPT ![r] = TRUE]
    /\ UNCHANGED <<to, conn, cache, alive, opened>>

\* Fault: close_reason() is not looked at.
ReuseAny(r) ==
    /\ at[r] = "queued" /\ lock = Nobody
    /\ cache[to[r]] # 0
    /\ at' = [at EXCEPT ![r] = "ready"]
    /\ conn' = [conn EXCEPT ![r] = cache[to[r]]]
    /\ UNCHANGED <<to, lock, cache, alive, opened, fault>>

\* get_or_connect with the lock: a live cached connection is cloned, and the
\* lock is free again.
Reuse(r) ==
    /\ at[r] = "queued" /\ lock = Nobody
    /\ <<to[r], cache[to[r]]>> \in alive
    /\ at' = [at EXCEPT ![r] = "ready"]
    /\ conn' = [conn EXCEPT ![r] = cache[to[r]]]
    /\ UNCHANGED <<to, lock, cache, alive, opened, fault>>

\* Fault: the lock is not held across the connect.
ConnectUnlocked(r) ==
    /\ at[r] = "queued" /\ lock = Nobody
    /\ <<to[r], cache[to[r]]>> \notin alive
    /\ at' = [at EXCEPT ![r] = "connecting"]
    /\ cache' = [cache EXCEPT ![to[r]] = 0]
    /\ UNCHANGED <<to, conn, lock, alive, opened, fault>>

\* There is none, or it is closed and removed: connect, with the lock held.
Connect(r) ==
    /\ at[r] = "queued" /\ lock = Nobody
    /\ <<to[r], cache[to[r]]>> \notin alive
    /\ at' = [at EXCEPT ![r] = "connecting"]
    /\ lock' = r
    /\ cache' = [cache EXCEPT ![to[r]] = 0]
    /\ UNCHANGED <<to, conn, alive, opened, fault>>

\* Fault: the guard lives on in handle_exchange.
ConnectedLocked(r) ==
    /\ at[r] = "connecting" /\ opened < MaxConns
    /\ opened' = opened + 1
    /\ alive' = alive \cup {<<to[r], opened + 1>>}
    /\ cache' = [cache EXCEPT ![to[r]] = opened + 1]
    /\ conn' = [conn EXCEPT ![r] = opened + 1]
    /\ at' = [at EXCEPT ![r] = "ready"]
    /\ UNCHANGED <<to, lock, fault>>

\* The new connection is cached; the guard goes with get_or_connect.
Connected(r) ==
    /\ at[r] = "connecting" /\ opened < MaxConns
    /\ opened' = opened + 1
    /\ alive' = alive \cup {<<to[r], opened + 1>>}
    /\ cache' = [cache EXCEPT ![to[r]] = opened + 1]
    /\ conn' = [conn EXCEPT ![r] = opened + 1]
    /\ at' = [at EXCEPT ![r] = "ready"]
    /\ lock' = Nobody
    /\ UNCHANGED <<to, fault>>

\* The peer cannot be reached: HTTP 500.
ConnectFails(r) ==
    /\ at[r] = "connecting"
    /\ Finish(r, "error")
    /\ fault' = [fault EXCEPT ![r] = TRUE]
    /\ UNCHANGED <<to, conn, cache, alive, opened>>

\* open_bi, write_all, finish.
Send(r) ==
    /\ at[r] = "ready" /\ Live(r)
    /\ at' = [at EXCEPT ![r] = "sent"]
    /\ UNCHANGED <<to, conn, lock, cache, alive, opened, fault>>

\* The peer's accept loop takes the stream into a task of its own.
Accept(r) ==
    /\ at[r] = "sent" /\ Live(r)
    /\ at' = [at EXCEPT ![r] = "accepted"]
    /\ UNCHANGED <<to, conn, lock, cache, alive, opened, fault>>

\* handle_stream: the agent's handler answers, with whatever status, and its
\* bytes are written back; or the request is too large or the callback fails,
\* and the stream is given up.
AgentHandles(r) ==
    /\ at[r] = "accepted" /\ Live(r)
    /\ \/ at' = [at EXCEPT ![r] = "answered"] /\ UNCHANGED <<lock, fault>>
       \/ Finish(r, "error") /\ fault' = [fault EXCEPT ![r] = TRUE]
    /\ UNCHANGED <<to, conn, cache, alive, opened>>

\* read_to_end: HTTP 200 with the bytes.
Receive(r) ==
    /\ at[r] = "answered" /\ Live(r)
    /\ Finish(r, "ok")
    /\ UNCHANGED <<to, conn, cache, alive, opened, fault>>

\* read_to_end: the answer is larger than 50 MB, on a connection that lives.
ReceiveTooLarge(r) ==
    /\ at[r] = "answered" /\ Live(r)
    /\ Finish(r, "error")
    /\ fault' = [fault EXCEPT ![r] = TRUE]
    /\ UNCHANGED <<to, conn, cache, alive, opened>>

\* open_bi, write_all or read_to_end fails on a connection that is closed.
StreamFails(r) ==
    /\ at[r] \in {"ready", "sent", "accepted", "answered"} /\ ~Live(r)
    /\ Finish(r, "error")
    /\ UNCHANGED <<to, conn, cache, alive, opened, fault>>

\* The agent cancels the request's context: the handler is dropped where it
\* stands.
CancelRequest(r) ==
    /\ at[r] \in InFlight
    /\ Finish(r, "error")
    /\ fault' = [fault EXCEPT ![r] = TRUE]
    /\ UNCHANGED <<to, conn, cache, alive, opened>>

\* A connection closes: idle timeout, network, the peer's shutdown.
ConnDies(p, n) ==
    /\ <<p, n>> \in alive
    /\ alive' = alive \ {<<p, n>>}
    /\ fault' = [r \in Request |->
         fault[r] \/ (at[r] \in InFlight /\ to[r] = p /\ conn[r] = n)]
    /\ UNCHANGED <<at, to, conn, lock, cache, opened>>

Step(r) ==
    \/ Begin(r) \/ BadRequest(r)
    \/ Reuse(r) \/ Connect(r) \/ Connected(r) \/ ConnectFails(r)
    \/ Send(r) \/ Accept(r) \/ AgentHandles(r)
    \/ Receive(r) \/ ReceiveTooLarge(r) \/ StreamFails(r)
    \/ CancelRequest(r)

ExchangeNext ==
    \/ \E r \in Request : Step(r)
    \/ \E p \in Peer, n \in 1..MaxConns : ConnDies(p, n)

ExchangeSpec == ExchangeInit /\ [][ExchangeNext]_exchangeVars

\* tokio's mutex is handed over in order, and iroh's connect ends, with a
\* connection or an error.  Nothing makes the peer take a stream or answer it:
\* neither the sidecars nor RoundTrip set a timeout.
ExchangeFairSpec ==
    /\ ExchangeSpec
    /\ \A r \in Request :
         /\ SF_exchangeVars(Reuse(r) \/ Connect(r))
         /\ WF_exchangeVars(Connected(r) \/ ConnectFails(r))
-----------------------------------------------------------------------------
\* "Holds the lock across the connect call to prevent duplicate connections
\* for the same peer from concurrent requests": a peer never has two live
\* connections, also with cancelled requests and connections that die.
OneConnection == \A x, y \in alive : x[1] = y[1] => x = y

\* A connection that died before an exchange began cannot make it fail: every
\* failed exchange had a fault of its own, while it ran.
FailureHasCause == \A r \in Request : at[r] = "error" => fault[r]

\* A request gets past the cache's lock, to a connection or an error, behind
\* unreachable peers and cancelled requests, and although the exchange of
\* every other request may hang for ever with a peer that does not answer.
LockPassedOn == \A r \in Request : at[r] = "queued" ~> at[r] \notin {"queued", "connecting"}
-----------------------------------------------------------------------------
\* The inductive invariant behind OneConnection: what is alive is cached, and
\* the one request that connects holds the lock and has emptied its entry.
AliveCached == \A x \in alive : cache[x[1]] = x[2]

ConnectorHoldsLock ==
    \A r \in Request : at[r] = "connecting" => lock = r /\ cache[to[r]] = 0

\* Behind FailureHasCause: an exchange whose stream is in use has a live
\* connection, or saw it die.
StreamAccounted ==
    \A r \in Request :
        at[r] \in {"ready", "sent", "accepted", "answered"} => Live(r) \/ fault[r]

ExchangeInv == ExchangeTypeOK /\ AliveCached /\ ConnectorHoldsLock
CauseInv == ExchangeTypeOK /\ StreamAccounted /\ FailureHasCause
=============================================================================
