----------------------------- MODULE Discovery ------------------------------
(***************************************************************************)
(* Capability advertisement (network/discovery/advertiser.go): nodes       *)
(* publish manifests to a GossipSub topic again and again, GossipSub       *)
(* relays them and delivers the first copy only, and a node stores what it *)
(* received from the peer the manifest claims to be of.                    *)
(*                                                                         *)
(* The store of a node is the one its orchestrator asks.  Its own manifest *)
(* reaches it too, and says that the node is no provider: nothing is lost  *)
(* by leaving that copy out.  Nothing calls CleanupStaleProviders.         *)
(***************************************************************************)
EXTENDS Integers, FiniteSets

CONSTANTS Nodes,
          Links,            \* sets of two nodes that are connected
          Manifests,        \* what is advertised: [peer, provider]
          Orchestrators,    \* nodes that keep a store
          MaxLeaves,        \* bound: nodes that leave, in all
          NoManifest

ASSUME LinksAssumption == Links \subseteq SUBSET Nodes
ASSUME ManifestsAssumption == Manifests \subseteq [peer : Nodes, provider : BOOLEAN]
ASSUME OrchestratorsAssumption == Orchestrators \subseteq Nodes
ASSUME LeavesAssumption == MaxLeaves \in Nat
ASSUME NoManifestAssumption == NoManifest \notin Manifests

VARIABLES online,
          copies,           \* copies of manifests on their way
          seen,             \* nodes that have received the current message
          caps,             \* CapabilityStore.providers
          leaves

discoveryVars == <<online, copies, seen, caps, leaves>>

Copies == [manifest : Manifests, from : Nodes, to : Nodes]

DiscoveryInit ==
    /\ online = Nodes
    /\ copies = {}
    /\ seen = [m \in Manifests |-> {}]
    /\ caps = [n \in Orchestrators |-> [p \in Nodes |-> NoManifest]]
    /\ leaves = 0

\* The copies a node sends to its neighbours, but not back.
Sent(m, from, except) ==
    {[manifest |-> m, from |-> from, to |-> n] :
        n \in {k \in online \ except : {from, k} \in Links}}

\* Mutant: published when the node starts only.
PublishesOnce(m) == seen[m] = {}

\* Every 60 seconds, when the message before has reached everyone.
Publishes(m) == \A c \in copies : c.manifest # m

Publish(m) ==
    /\ m.peer \in online
    /\ Publishes(m)
    /\ seen' = [seen EXCEPT ![m] = {m.peer}]
    /\ copies' = copies \cup Sent(m, m.peer, {m.peer})
    /\ UNCHANGED <<online, caps, leaves>>

\* Mutant: stored for the node it came from, and not compared.
StoredFor(c) == {c.from}

\* The peer that is claimed, if it is the one it was received from.
Updated(c) == {c.manifest.peer} \cap {c.from}

\* The first copy: GossipSub relays it, and handleCapabilityMessage stores it.
Receive(c) ==
    /\ c \in copies
    /\ c.to \notin seen[c.manifest]
    /\ seen' = [seen EXCEPT ![c.manifest] = @ \cup {c.to}]
    /\ copies' = (copies \ {c}) \cup Sent(c.manifest, c.to, {c.from, c.manifest.peer})
    /\ caps' = IF c.to \in Orchestrators
               THEN [caps EXCEPT ![c.to] =
                       [p \in Nodes |-> IF p \in Updated(c) THEN c.manifest ELSE @[p]]]
               ELSE caps
    /\ UNCHANGED <<online, leaves>>

\* A copy of a message that was seen is not delivered.
Duplicate(c) ==
    /\ c \in copies
    /\ c.to \in seen[c.manifest]
    /\ copies' = copies \ {c}
    /\ UNCHANGED <<online, seen, caps, leaves>>

\* A process ends, and with it its connections, its store and its cache.
Leave(n) ==
    /\ n \in online /\ leaves < MaxLeaves
    /\ online' = online \ {n}
    /\ copies' = {c \in copies : n \notin {c.from, c.to}}
    /\ seen' = [m \in Manifests |-> seen[m] \ {n}]
    /\ caps' = IF n \in Orchestrators
               THEN [caps EXCEPT ![n] = [p \in Nodes |-> NoManifest]] ELSE caps
    /\ leaves' = leaves + 1

Join(n) ==
    /\ n \notin online
    /\ online' = online \cup {n}
    /\ UNCHANGED <<copies, seen, caps, leaves>>

\* A message is published again and again, its copies arrive, and the one from
\* its publisher is not always the later one.
DiscoveryFairness ==
    \A m \in Manifests :
        /\ WF_discoveryVars(Publish(m))
        /\ WF_discoveryVars(\E c \in copies : c.manifest = m /\ (Receive(c) \/ Duplicate(c)))
        /\ \A n \in Orchestrators :
             SF_discoveryVars(Receive([manifest |-> m, from |-> m.peer, to |-> n]))

-----------------------------------------------------------------------------
DiscoveryTypeOK ==
    /\ online \subseteq Nodes
    /\ copies \subseteq Copies
    /\ seen \in [Manifests -> SUBSET Nodes]
    /\ caps \in [Orchestrators -> [Nodes -> Manifests \cup {NoManifest}]]
    /\ leaves \in 0 .. MaxLeaves

\* advertiser.go:194 "Validate that the sender matches the claimed peer ID":
\* whoever relays it, a manifest is stored for the node that published it, and
\* only at a node that is connected to that one: a provider further away is
\* never known, as every copy of its manifest is relayed.
StoredForItsPublisher ==
    \A n \in Orchestrators, p \in Nodes :
        caps[n][p] # NoManifest => caps[n][p].peer = p /\ {n, p} \in Links

ProvidersOnly == {p \in Nodes : \A m \in Manifests : m.peer = p => m.provider}

\* docs/protocol.md:95: a node that is connected to a provider comes to know it
\* and goes on knowing it, after either has restarted and although relayed
\* copies, which it does not store, arrive before and instead of the others.
ConnectedProvidersKnown ==
    \A n \in Orchestrators, m \in Manifests :
        (m.peer \in ProvidersOnly /\ {n, m.peer} \in Links) =>
            ((<>[]({n, m.peer} \subseteq online)) => <>[](caps[n][m.peer] = m))
=============================================================================
