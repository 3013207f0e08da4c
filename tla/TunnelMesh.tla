----------------------------- MODULE TunnelMesh -----------------------------
(***************************************************************************)
(* NATS over iroh: the leaf-node links between the embedded NATS servers   *)
(* of agents that know each other's EndpointIds.  NATSMesh.Start asks the  *)
(* sidecar for a tunnel to every peer it should solicit, then starts the   *)
(* NATS server with the tunnels' local ports as leaf remotes; the sidecar  *)
(* accepts one connection per tunnel listener and pipes it through QUIC to *)
(* the other side's leaf port.                                             *)
(*                                                                         *)
(* Every agent lists every other one in Config.IrohPeers.  EndpointIds are *)
(* compared as strings; here they are numbers.                             *)
(***************************************************************************)
EXTENDS Naturals

CONSTANTS
    Agent,          \* agents, named by their EndpointId
    MaxDrops,       \* bound: QUIC streams that break
    MaxStarts       \* bound: starts of one agent

ASSUME EndpointIdsOrdered == Agent \subseteq Nat

ASSUME BoundsNat == MaxDrops \in Nat /\ MaxStarts \in Nat

VARIABLES
    role,           \* Config.NATSRole of every agent
    up,             \* how far Agent.Start got
    pending,        \* irohPeers that establishTunnels has still to visit
    tunnel,         \* tunnel[a][b]: a's tunnel listener towards b
    quic,           \* quic[a][b]: a's QUIC connection to b is alive
    remotes,        \* leaf remotes the NATS server of a was started with
    link,           \* link[a][b]: a's server is a leaf of b's through the tunnel
    drops, starts   \* how often the bounded events happened

meshVars == <<role, up, pending, tunnel, quic, remotes, link, drops, starts>>

Role == {"peer", "hub", "leaf"}

MeshTypeOK ==
    /\ role \in [Agent -> Role]
    /\ up \in [Agent -> {"down", "tunnels", "nats"}]
    /\ pending \in [Agent -> SUBSET Agent]
    /\ tunnel \in [Agent -> [Agent -> {"none", "listening", "spent"}]]
    /\ quic \in [Agent -> [Agent -> BOOLEAN]]
    /\ remotes \in [Agent -> SUBSET Agent]
    /\ link \in [Agent -> [Agent -> BOOLEAN]]
    /\ drops \in 0..MaxDrops
    /\ starts \in [Agent -> 0..MaxStarts]

MeshInit ==
    /\ role \in [Agent -> Role]
    /\ up = [a \in Agent |-> "down"]
    /\ pending = [a \in Agent |-> {}]
    /\ tunnel = [a \in Agent |-> [b \in Agent |-> "none"]]
    /\ quic = [a \in Agent |-> [b \in Agent |-> FALSE]]
    /\ remotes = [a \in Agent |-> {}]
    /\ link = [a \in Agent |-> [b \in Agent |-> FALSE]]
    /\ drops = 0
    /\ starts = [a \in Agent |-> 0]
-----------------------------------------------------------------------------
\* The plausible bug: the tie between two peers is not broken.
ShouldSolicitAny(a, b) == role[a] \in {"leaf", "peer"}

ShouldSolicit(a, b) ==
    \/ role[a] = "leaf"
    \/ role[a] = "peer" /\ a < b

\* The sidecar is ready: it accepts QUIC connections from now on.
StartSidecar(a) ==
    /\ up[a] = "down" /\ starts[a] < MaxStarts
    /\ starts' = [starts EXCEPT ![a] = @ + 1]
    /\ up' = [up EXCEPT ![a] = "tunnels"]
    /\ pending' = [pending EXCEPT ![a] = Agent \ {a}]
    /\ UNCHANGED <<role, tunnel, quic, remotes, link, drops>>

\* The NATS ALPN is offered by a running sidecar that was given --nats-addr,
\* which a leaf never is: ReserveLeafPort returns early for it.
OffersTunnel(b) == up[b] # "down" /\ role[b] # "leaf"

\* One turn of the loop in establishTunnels for a peer to solicit: the
\* sidecar connects and binds a listener, and the port is remembered.
OpenTunnel(a, b) ==
    /\ up[a] = "tunnels" /\ b \in pending[a]
    /\ ShouldSolicit(a, b) /\ OffersTunnel(b)
    /\ tunnel' = [tunnel EXCEPT ![a][b] = "listening"]
    /\ quic' = [quic EXCEPT ![a][b] = TRUE]
    /\ pending' = [pending EXCEPT ![a] = @ \ {b}]
    /\ UNCHANGED <<role, up, remotes, link, drops, starts>>

\* A turn for a peer that is not to be solicited, or whose tunnel cannot be
\* opened (it is away, offers none, or the 10 seconds of the request pass): the
\* error is collected and the loop goes on.
SkipPeer(a, b) ==
    /\ up[a] = "tunnels" /\ b \in pending[a]
    /\ pending' = [pending EXCEPT ![a] = @ \ {b}]
    /\ UNCHANGED <<role, up, tunnel, quic, remotes, link, drops, starts>>

\* buildServerOpts turns every tunnel port into a leaf remote.
LeafRemotes(a) == {b \in Agent : tunnel[a][b] = "listening"}

\* All peers have been visited: the embedded server is started.  A server that
\* does not come up ends Start, and the process with it (Down).
StartNATS(a) ==
    /\ up[a] = "tunnels" /\ pending[a] = {}
    /\ up' = [up EXCEPT ![a] = "nats"]
    /\ remotes' = [remotes EXCEPT ![a] = LeafRemotes(a)]
    /\ UNCHANGED <<role, pending, tunnel, quic, link, drops, starts>>

\* The NATS server dials its remote.  The listener's task accepts this one
\* connection and no other.  open_bi needs the QUIC connection, and the other
\* side a NATS server on its leaf port; the handshake of the two servers,
\* external, may fail too.  Then the connection is closed again.
Solicit(a, b) ==
    /\ up[a] = "nats" /\ b \in remotes[a]
    /\ tunnel[a][b] = "listening"
    /\ tunnel' = [tunnel EXCEPT ![a][b] = "spent"]
    /\ \E handshake \in BOOLEAN :
         link' = [link EXCEPT ![a][b] = quic[a][b] /\ up[b] = "nats" /\ handshake]
    /\ UNCHANGED <<role, up, pending, quic, remotes, drops, starts>>

\* The stream breaks; both ends close their TCP side.
Drop(a, b) ==
    /\ link[a][b] /\ drops < MaxDrops
    /\ drops' = drops + 1
    /\ link' = [link EXCEPT ![a][b] = FALSE]
    /\ UNCHANGED <<role, up, pending, tunnel, quic, remotes, starts>>

\* Stop or crash of an agent with its sidecar.
Down(a) ==
    /\ up[a] # "down"
    /\ up' = [up EXCEPT ![a] = "down"]
    /\ pending' = [pending EXCEPT ![a] = {}]
    /\ remotes' = [remotes EXCEPT ![a] = {}]
    /\ tunnel' = [tunnel EXCEPT ![a] = [b \in Agent |-> "none"]]
    /\ quic' = [c \in Agent |-> [b \in Agent |-> quic[c][b] /\ a \notin {b, c}]]
    /\ link' = [c \in Agent |-> [b \in Agent |-> link[c][b] /\ a \notin {b, c}]]
    /\ UNCHANGED <<role, drops, starts>>

MeshNext ==
    \/ \E a \in Agent : StartSidecar(a) \/ StartNATS(a) \/ Down(a)
    \/ \E a, b \in Agent :
         OpenTunnel(a, b) \/ SkipPeer(a, b) \/ Solicit(a, b) \/ Drop(a, b)

MeshSpec == MeshInit /\ [][MeshNext]_meshVars

\* Agent.Start runs on and the NATS server dials its remotes.  Agents need
\* not be started, and nothing is assumed about stops and drops.
MeshFairSpec ==
    /\ MeshSpec
    /\ \A a \in Agent : WF_meshVars(StartNATS(a))
    /\ \A a, b \in Agent :
         WF_meshVars(OpenTunnel(a, b)) /\ WF_meshVars(SkipPeer(a, b)) /\ WF_meshVars(Solicit(a, b))

\* The same with agents that are all started, again after every stop.
AllStart == MeshFairSpec /\ \A a \in Agent : WF_meshVars(StartSidecar(a))
-----------------------------------------------------------------------------
\* Two servers are never leaves of each other, whatever their roles and the
\* order in which they start: shouldSolicit breaks the tie between two peers,
\* and a leaf offers no tunnel.
OneLink == \A a, b \in Agent : ~(link[a][b] /\ link[b][a])

\* The design note on a peer with the higher id: "skip (they will connect to
\* me)": whoever a peer does not solicit solicits it.
SkippedSolicitsMe ==
    \A a, b \in Agent :
        (a # b /\ role[a] = "peer" /\ up[a] = "nats" /\ up[b] = "nats")
            => (ShouldSolicit(a, b) \/ ShouldSolicit(b, a))

\* The design note on tunnels that drop: "NATS's built-in disconnect/reconnect
\* handles detection. Tunnel failure is defined out of existence from the
\* agent's perspective": agents that were linked and stay up are linked again.
PeersStayLinked ==
    \A a, b \in Agent :
        (<>link[a][b] /\ <>[](up[a] = "nats" /\ up[b] = "nats")) => []<>link[a][b]
-----------------------------------------------------------------------------
\* The parts of the inductive invariant behind OneLink.
TunnelsWanted ==
    \A a, b \in Agent :
        tunnel[a][b] # "none" => ShouldSolicit(a, b) /\ role[b] # "leaf"

LinksTunnelled ==
    \A a, b \in Agent : link[a][b] => tunnel[a][b] = "spent" /\ up[a] = "nats"

MeshInv == MeshTypeOK /\ TunnelsWanted /\ LinksTunnelled
=============================================================================
