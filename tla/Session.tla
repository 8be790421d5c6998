------------------------------ MODULE Session -------------------------------
(***************************************************************************)
(* Orchestrator.RequestInference (pipeline/orchestrator.go) for calls that *)
(* run on one node: providers from its capability store, one tunnel for    *)
(* each stage, one llama-cli for the call, and karma for the providers.    *)
(*                                                                         *)
(* AllocateLayers gives stages to the first of the providers at least (see *)
(* LayerAllocator), in the order of their karma, which here is any order.  *)
(***************************************************************************)
EXTENDS Discovery

CONSTANTS Consumer,         \* the node
          Calls,
          NumProviders      \* req.NumProviders

ASSUME ConsumerAssumption == Consumer \in Orchestrators
ASSUME NumProvidersAssumption == NumProviders \in Nat \ {0}

VARIABLES call,             \* where each call is
          todo,             \* providers of stages it has not visited
          used,             \* activeProviders, the ones with a tunnel
          credited,         \* the ones AddContribution was called for
          listening,        \* [call, provider] of the tunnels' listeners
          done              \* the node's context is done

sessionVars == <<call, todo, used, credited, listening, done>>
vars == <<discoveryVars, sessionVars>>

Init ==
    /\ DiscoveryInit
    /\ call = [r \in Calls |-> "idle"]
    /\ todo = [r \in Calls |-> {}]
    /\ used = [r \in Calls |-> {}]
    /\ credited = [r \in Calls |-> {}]
    /\ listening = {}
    /\ done = FALSE

Known == {p \in Nodes : caps[Consumer][p] # NoManifest}
Valid == {p \in Known : caps[Consumer][p].provider}

NoProviders(r) ==
    /\ call[r] = "idle"
    /\ Valid = {}
    /\ call' = [call EXCEPT ![r] = "failed"]
    /\ UNCHANGED <<discoveryVars, todo, used, credited, listening, done>>

\* findBestProviders and AllocateLayers.
Allocate(r) ==
    /\ call[r] = "idle"
    /\ \E chosen \in SUBSET Valid \ {{}} :
         /\ Cardinality(chosen) <= NumProviders
         /\ todo' = [todo EXCEPT ![r] = chosen]
    /\ call' = [call EXCEPT ![r] = "open"]
    /\ UNCHANGED <<discoveryVars, used, credited, listening, done>>

\* The loop goes on to the next stage.
OtherStages(r, p) == [todo EXCEPT ![r] = @ \ {p}]

\* connectToProvider or OpenTunnel fails: the stage is skipped.
SkipStage(r, p) ==
    /\ call[r] = "open" /\ p \in todo[r]
    /\ todo' = OtherStages(r, p)
    /\ UNCHANGED <<discoveryVars, call, used, credited, listening, done>>

\* The tunnel is a local listener: nothing is sent to a provider that is still
\* taken for connected.
OpenTunnel(r, p) ==
    /\ call[r] = "open" /\ p \in todo[r]
    /\ todo' = OtherStages(r, p)
    /\ used' = [used EXCEPT ![r] = @ \cup {p}]
    /\ listening' = listening \cup {[call |-> r, provider |-> p]}
    /\ UNCHANGED <<discoveryVars, call, credited, done>>

\* Mutant: no check that any tunnel was opened.
HasTargetsAlways(r) == TRUE

HasTargets(r) == used[r] # {}

RunMaster(r) ==
    /\ call[r] = "open" /\ todo[r] = {}
    /\ call' = [call EXCEPT ![r] = IF HasTargets(r) THEN "running" ELSE "failed"]
    /\ UNCHANGED <<discoveryVars, todo, used, credited, listening, done>>

\* llama-cli ends without an error when it has reached all its RPC servers.
MasterSucceeds(r) ==
    /\ call[r] = "running" /\ ~ done /\ used[r] \subseteq online
    /\ call' = [call EXCEPT ![r] = "credit"]
    /\ UNCHANGED <<discoveryVars, todo, used, credited, listening, done>>

MasterFails(r) ==
    /\ call[r] = "running"
    /\ call' = [call EXCEPT ![r] = "failed"]
    /\ UNCHANGED <<discoveryVars, todo, used, credited, listening, done>>

\* AddContribution for one provider after the other, then the request is kept.
Credit(r, p) ==
    /\ call[r] = "credit" /\ p \in used[r] \ credited[r]
    /\ credited' = [credited EXCEPT ![r] = @ \cup {p}]
    /\ UNCHANGED <<discoveryVars, call, todo, used, listening, done>>

Return(r) ==
    /\ call[r] = "credit" /\ credited[r] = used[r]
    /\ call' = [call EXCEPT ![r] = "done"]
    /\ UNCHANGED <<discoveryVars, todo, used, credited, listening, done>>

Cancel ==
    /\ ~ done
    /\ done' = TRUE
    /\ UNCHANGED <<discoveryVars, call, todo, used, credited, listening>>

\* Mutant: the listener goes on until its call has failed.
ListenerStopsLate(t) == call[t.call] = "failed"

\* Mutant: the listener returns when Accept has timed out.
ListenerStopsIdle(t) == TRUE

\* The listener looks at the node's context once a second.
ListenerStops(t) == done

CloseListener(t) ==
    /\ t \in listening
    /\ ListenerStops(t)
    /\ listening' = listening \ {t}
    /\ UNCHANGED <<discoveryVars, call, todo, used, credited, done>>

DiscoveryStep ==
    \/ \E m \in Manifests : Publish(m)
    \/ \E c \in copies : Receive(c) \/ Duplicate(c)
    \/ \E n \in Nodes \ {Consumer} : Leave(n) \/ Join(n)

Goes(r) ==
    \/ NoProviders(r) \/ Allocate(r)
    \/ \E p \in Nodes : SkipStage(r, p) \/ OpenTunnel(r, p) \/ Credit(r, p)
    \/ RunMaster(r) \/ MasterSucceeds(r) \/ MasterFails(r) \/ Return(r)

Next ==
    \/ DiscoveryStep /\ UNCHANGED sessionVars
    \/ \E r \in Calls : Goes(r)
    \/ Cancel
    \/ \E t \in listening : CloseListener(t)

Spec == Init /\ [][Next]_vars

Listeners == [call : Calls, provider : Nodes]

\* Time passes, GossipSub delivers, a connection is not slower than the others
\* for ever, llama-cli ends, and the goroutines run.
FairSpec ==
    /\ Spec /\ DiscoveryFairness
    /\ \A r \in Calls : WF_vars(Goes(r) /\ call[r] # "idle")
    /\ \A t \in Listeners : WF_vars(CloseListener(t))

-----------------------------------------------------------------------------
\* Type invariant of the discovery and the calls that use it.
TypeOK ==
    /\ DiscoveryTypeOK
    /\ call \in [Calls -> {"idle", "open", "running", "credit", "done", "failed"}]
    /\ todo \in [Calls -> SUBSET Nodes]
    /\ used \in [Calls -> SUBSET Nodes]
    /\ \A r \in Calls : todo[r] \cap used[r] = {}
    /\ credited \in [Calls -> SUBSET Nodes]
    /\ listening \subseteq Listeners
    /\ done \in BOOLEAN

\* orchestrator.go:169 "Update karma for participating providers": the providers
\* of a call are credited after it has succeeded, all that it had a tunnel to
\* and nobody else, and a call that returns a result had a provider.
CreditsMatchUse ==
    \A r \in Calls :
        /\ credited[r] \subseteq used[r]
        /\ credited[r] # {} => call[r] \in {"credit", "done"}
        /\ call[r] = "done" => used[r] # {} /\ credited[r] = used[r]

\* llama-cli finds a listener on every port it was given, whatever stages were
\* skipped and whichever providers have left.
TargetsListen ==
    \A r \in Calls : (call[r] = "running" /\ ~ done) =>
        \A p \in used[r] : [call |-> r, provider |-> p] \in listening

\* tunnel.go:72: after the node's context is done no listener is left.
ListenersEnd == done ~> [](listening = {})
=============================================================================
