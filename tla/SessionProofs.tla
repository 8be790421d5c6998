--------------------------- MODULE SessionProofs ----------------------------
(***************************************************************************)
(* What a consumer knows of the providers, whom its calls credit and what  *)
(* listens for them, for any network, any number of providers and calls.   *)
(***************************************************************************)
EXTENDS Session, TLAPS

\* A copy is on its way along a connection only.
CopiesOnLinks == \A c \in copies : {c.from, c.to} \in Links

DiscoveryInv == DiscoveryTypeOK /\ CopiesOnLinks /\ StoredForItsPublisher

\* A call has used providers from its allocation on, and has some when it runs.
UseOK ==
    \A r \in Calls :
        /\ call[r] = "idle" => used[r] = {}
        /\ call[r] \in {"running", "credit", "done"} => used[r] # {}

\* A tunnel that was opened listens until the node's context is done, and not
\* only while llama-cli runs.
TunnelsListen ==
    ~ done => \A r \in Calls : \A p \in used[r] :
                  [call |-> r, provider |-> p] \in listening

SessionInv == TypeOK /\ UseOK /\ CreditsMatchUse /\ TunnelsListen

IInv == DiscoveryInv /\ SessionInv

-----------------------------------------------------------------------------
LEMMA InitHolds == Init => IInv
<1> SUFFICES ASSUME Init PROVE IInv
  OBVIOUS
<1>1. DiscoveryInv
  BY LeavesAssumption
  DEF Init, DiscoveryInit, DiscoveryInv, DiscoveryTypeOK, CopiesOnLinks, StoredForItsPublisher
<1>2. SessionInv
  BY <1>1 DEF Init, DiscoveryInv, SessionInv, TypeOK, UseOK, CreditsMatchUse, TunnelsListen
<1> QED
  BY <1>1, <1>2 DEF IInv

-----------------------------------------------------------------------------
\* What a node sends goes to nodes it is connected to.
LEMMA SentOnLinks ==
  ASSUME DiscoveryTypeOK, NEW m \in Manifests, NEW from \in Nodes, NEW except
  PROVE  /\ Sent(m, from, except) \subseteq Copies
         /\ \A c \in Sent(m, from, except) : {c.from, c.to} \in Links
<1> SUFFICES ASSUME NEW c \in Sent(m, from, except)
             PROVE  c \in Copies /\ {c.from, c.to} \in Links
  OBVIOUS
<1>1. PICK n \in {k \in online \ except : {from, k} \in Links} :
              c = [manifest |-> m, from |-> from, to |-> n]
  BY DEF Sent
<1>2. n \in Nodes
  BY <1>1 DEF DiscoveryTypeOK
<1> QED
  BY <1>1, <1>2 DEF Copies

LEMMA DiscoveryHolds == DiscoveryInv /\ DiscoveryStep => DiscoveryInv'
<1> SUFFICES ASSUME DiscoveryInv, DiscoveryStep PROVE DiscoveryInv'
  OBVIOUS
<1> USE DEF DiscoveryInv, DiscoveryTypeOK
<1>1. ASSUME NEW m \in Manifests, Publish(m)
      PROVE  DiscoveryInv'
  <2>1. m.peer \in Nodes
    BY <1>1 DEF Publish
  <2>2. copies' \subseteq Copies /\ CopiesOnLinks'
    BY <1>1, <2>1, SentOnLinks DEF Publish, CopiesOnLinks
  <2> QED
    BY <1>1, <2>1, <2>2 DEF Publish, StoredForItsPublisher
<1>2. ASSUME NEW c \in copies, Receive(c)
      PROVE  DiscoveryInv'
  <2>1. c.manifest \in Manifests /\ c.to \in Nodes /\ c.from \in Nodes
    BY DEF Copies
  <2>2. copies' \subseteq Copies /\ CopiesOnLinks'
    BY <1>2, <2>1, SentOnLinks DEF Receive, CopiesOnLinks
  <2>3. seen' \in [Manifests -> SUBSET Nodes]
    BY <1>2, <2>1 DEF Receive
  <2>4. caps' \in [Orchestrators -> [Nodes -> Manifests \cup {NoManifest}]]
    BY <1>2, <2>1 DEF Receive
  <2>5. StoredForItsPublisher'
    <3> SUFFICES ASSUME NEW n \in Orchestrators, NEW p \in Nodes, caps'[n][p] # NoManifest
                 PROVE  caps'[n][p].peer = p /\ {n, p} \in Links
      BY DEF StoredForItsPublisher
    <3>1. CASE caps'[n][p] = caps[n][p]
      BY <3>1 DEF StoredForItsPublisher
    <3>2. CASE caps'[n][p] # caps[n][p]
      <4>1. n = c.to /\ p \in Updated(c) /\ caps'[n][p] = c.manifest
        BY <1>2, <2>1, <3>2 DEF Receive
      <4>2. p = c.manifest.peer /\ p = c.from
        BY <4>1 DEF Updated
      <4>3. {c.from, c.to} = {n, p}
        BY <4>1, <4>2
      <4> QED
        BY <4>1, <4>2, <4>3 DEF CopiesOnLinks
    <3> QED
      BY <3>1, <3>2
  <2> QED
    BY <1>2, <2>2, <2>3, <2>4, <2>5 DEF Receive
<1>3. ASSUME NEW c \in copies, Duplicate(c)
      PROVE  DiscoveryInv'
  BY <1>3 DEF Duplicate, CopiesOnLinks, StoredForItsPublisher
<1>4. ASSUME NEW n \in Nodes, Leave(n)
      PROVE  DiscoveryInv'
  <2>1. leaves' \in 0 .. MaxLeaves
    BY <1>4, LeavesAssumption DEF Leave
  <2>2. copies' \subseteq Copies /\ CopiesOnLinks' /\ online' \subseteq Nodes
    BY <1>4 DEF Leave, CopiesOnLinks
  <2>3. seen' \in [Manifests -> SUBSET Nodes]
    BY <1>4 DEF Leave
  <2>4. caps' \in [Orchestrators -> [Nodes -> Manifests \cup {NoManifest}]]
    BY <1>4 DEF Leave
  <2>5. StoredForItsPublisher'
    BY <1>4 DEF Leave, StoredForItsPublisher
  <2> QED
    BY <2>1, <2>2, <2>3, <2>4, <2>5
<1>5. ASSUME NEW n \in Nodes, Join(n)
      PROVE  DiscoveryInv'
  BY <1>5 DEF Join, CopiesOnLinks, StoredForItsPublisher
<1> QED
  BY <1>1, <1>2, <1>3, <1>4, <1>5 DEF DiscoveryStep

-----------------------------------------------------------------------------
\* The steps of a call leave the discovery alone.
LEMMA SessionOnly ==
  ASSUME Next
  PROVE  \/ DiscoveryStep /\ UNCHANGED sessionVars
         \/ UNCHANGED discoveryVars
BY DEF Next, Goes, NoProviders, Allocate, SkipStage, OpenTunnel, Credit, RunMaster,
   MasterSucceeds, MasterFails, Return, Cancel, CloseListener

LEMMA DiscoverySame == DiscoveryInv /\ UNCHANGED discoveryVars => DiscoveryInv'
BY DEF DiscoveryInv, discoveryVars, DiscoveryTypeOK, CopiesOnLinks, StoredForItsPublisher

\* The steps of a call up to the start of llama-cli.
LEMMA SetupHolds ==
  ASSUME SessionInv, DiscoveryTypeOK', NEW r \in Calls,
         \/ NoProviders(r) \/ Allocate(r)
         \/ \E p \in Nodes : SkipStage(r, p) \/ OpenTunnel(r, p)
         \/ RunMaster(r)
  PROVE  SessionInv'
<1> USE DEF SessionInv, TypeOK, UseOK
<1>1. CASE NoProviders(r)
  BY <1>1 DEF NoProviders, CreditsMatchUse, TunnelsListen
<1>2. CASE Allocate(r)
  <2>1. PICK chosen \in SUBSET Valid : todo' = [todo EXCEPT ![r] = chosen]
    BY <1>2 DEF Allocate
  <2>2. chosen \subseteq Nodes
    BY DEF Valid, Known
  <2> QED
    BY <1>2, <2>1, <2>2 DEF Allocate, CreditsMatchUse, TunnelsListen
<1>3. ASSUME NEW p \in Nodes, SkipStage(r, p)
      PROVE  SessionInv'
  BY <1>3 DEF SkipStage, OtherStages, CreditsMatchUse, TunnelsListen
<1>4. ASSUME NEW p \in Nodes, OpenTunnel(r, p)
      PROVE  SessionInv'
  <2>1. TypeOK'
    BY <1>4 DEF OpenTunnel, OtherStages, Listeners
  <2>2. UseOK' /\ CreditsMatchUse'
    BY <1>4 DEF OpenTunnel, CreditsMatchUse
  <2>3. TunnelsListen'
    BY <1>4 DEF OpenTunnel, TunnelsListen
  <2> QED
    BY <2>1, <2>2, <2>3
<1>5. CASE RunMaster(r)
  BY <1>5 DEF RunMaster, HasTargets, CreditsMatchUse, TunnelsListen
<1> QED
  BY <1>1, <1>2, <1>3, <1>4, <1>5

\* llama-cli's end, and the steps after it.
LEMMA ResultHolds ==
  ASSUME SessionInv, DiscoveryTypeOK', NEW r \in Calls,
         \/ MasterSucceeds(r) \/ MasterFails(r)
         \/ \E p \in Nodes : Credit(r, p)
         \/ Return(r)
  PROVE  SessionInv'
<1> USE DEF SessionInv, TypeOK, UseOK
<1>1. CASE MasterSucceeds(r)
  BY <1>1 DEF MasterSucceeds, CreditsMatchUse, TunnelsListen
<1>2. CASE MasterFails(r)
  BY <1>2 DEF MasterFails, CreditsMatchUse, TunnelsListen
<1>3. ASSUME NEW p \in Nodes, Credit(r, p)
      PROVE  SessionInv'
  BY <1>3 DEF Credit, CreditsMatchUse, TunnelsListen
<1>4. CASE Return(r)
  BY <1>4 DEF Return, CreditsMatchUse, TunnelsListen
<1> QED
  BY <1>1, <1>2, <1>3, <1>4

LEMMA OthersHold ==
  ASSUME SessionInv, DiscoveryTypeOK',
         \/ Cancel
         \/ \E t \in listening : CloseListener(t)
         \/ UNCHANGED sessionVars
  PROVE  SessionInv'
<1> USE DEF SessionInv, TypeOK, UseOK
<1>1. CASE Cancel
  BY <1>1 DEF Cancel, CreditsMatchUse, TunnelsListen
<1>2. ASSUME NEW t \in listening, CloseListener(t)
      PROVE  SessionInv'
  BY <1>2 DEF CloseListener, ListenerStops, CreditsMatchUse, TunnelsListen
<1>3. CASE UNCHANGED sessionVars
  BY <1>3 DEF sessionVars, CreditsMatchUse, TunnelsListen
<1> QED
  BY <1>1, <1>2, <1>3

LEMMA StepHolds == IInv /\ [Next]_vars => IInv'
<1> SUFFICES ASSUME IInv, [Next]_vars PROVE IInv'
  OBVIOUS
<1>1. DiscoveryInv'
  BY DiscoveryHolds, DiscoverySame, SessionOnly DEF IInv, vars
<1>2. DiscoveryTypeOK'
  BY <1>1 DEF DiscoveryInv
<1>3. SessionInv'
  BY <1>2, SetupHolds, ResultHolds, OthersHold DEF IInv, Next, Goes, vars
<1> QED
  BY <1>1, <1>3 DEF IInv

LEMMA InvariantHolds == Spec => []IInv
BY InitHolds, StepHolds, PTL DEF Spec

-----------------------------------------------------------------------------
\* Type correctness of the discovery and the calls, for any network.
THEOREM SessionTypes == Spec => []TypeOK
<1>1. IInv => TypeOK
  BY DEF IInv, SessionInv
<1> QED
  BY InvariantHolds, <1>1, PTL

\* In any network, however manifests are relayed and nodes come and go, a
\* manifest is stored for its publisher and at that node's neighbours only.
THEOREM ManifestsAreStoredForPublishers == Spec => []StoredForItsPublisher
<1>1. IInv => StoredForItsPublisher
  BY DEF IInv, DiscoveryInv
<1> QED
  BY InvariantHolds, <1>1, PTL

\* Calls that run concurrently each credit the providers they had a tunnel to,
\* all of them and no others, and only after llama-cli has succeeded.
THEOREM CreditsAreExact == Spec => []CreditsMatchUse
<1>1. IInv => CreditsMatchUse
  BY DEF IInv, SessionInv
<1> QED
  BY InvariantHolds, <1>1, PTL

\* While llama-cli runs, every tunnel it was given listens.
THEOREM GivenTunnelsListen == Spec => []TargetsListen
<1>1. IInv => TargetsListen
  BY DEF IInv, SessionInv, TunnelsListen, TargetsListen
<1> QED
  BY InvariantHolds, <1>1, PTL

-----------------------------------------------------------------------------
\* A call turns to providers that are connected to the consumer and have said
\* themselves that they are providers.
Advertised(p) ==
    /\ {Consumer, p} \in Links
    /\ \E m \in Manifests : m.peer = p /\ m.provider

ChosenAdvertised == \A r \in Calls : \A p \in todo[r] \cup used[r] : Advertised(p)

CreditedAdvertised == \A r \in Calls : \A p \in credited[r] : Advertised(p)

LEMMA ValidAdvertised == IInv => \A p \in Valid : Advertised(p)
<1> SUFFICES ASSUME IInv, NEW p \in Valid PROVE Advertised(p)
  OBVIOUS
<1>1. p \in Nodes /\ caps[Consumer][p] # NoManifest /\ caps[Consumer][p].provider
  BY DEF Valid, Known
<1>2. caps[Consumer][p] \in Manifests
  BY <1>1, ConsumerAssumption DEF IInv, DiscoveryInv, DiscoveryTypeOK
<1>3. caps[Consumer][p].peer = p /\ {Consumer, p} \in Links
  BY <1>1, ConsumerAssumption DEF IInv, DiscoveryInv, StoredForItsPublisher
<1> QED
  BY <1>1, <1>2, <1>3 DEF Advertised

LEMMA ChosenHold == IInv /\ ChosenAdvertised /\ [Next]_vars => ChosenAdvertised'
<1> SUFFICES ASSUME IInv, ChosenAdvertised, [Next]_vars PROVE ChosenAdvertised'
  OBVIOUS
<1>1. /\ todo \in [Calls -> SUBSET Nodes] /\ used \in [Calls -> SUBSET Nodes]
  BY DEF IInv, SessionInv, TypeOK
<1>2. ASSUME NEW r \in Calls, Allocate(r)
      PROVE  ChosenAdvertised'
  <2>1. PICK chosen \in SUBSET Valid : todo' = [todo EXCEPT ![r] = chosen] /\ used' = used
    BY <1>2 DEF Allocate
  <2> QED
    BY <1>1, <2>1, ValidAdvertised DEF ChosenAdvertised, Advertised
<1>3. ASSUME NEW r \in Calls, NEW p \in Nodes, SkipStage(r, p) \/ OpenTunnel(r, p)
      PROVE  ChosenAdvertised'
  <2>1. todo' = [todo EXCEPT ![r] = @ \ {p}] /\ p \in todo[r]
    BY <1>3 DEF SkipStage, OpenTunnel, OtherStages
  <2>2. used' = used \/ used' = [used EXCEPT ![r] = @ \cup {p}]
    BY <1>3 DEF SkipStage, OpenTunnel
  <2> QED
    BY <1>1, <2>1, <2>2 DEF ChosenAdvertised, Advertised
<1>4. CASE UNCHANGED <<todo, used>>
  BY <1>4 DEF ChosenAdvertised, Advertised
<1>5. \/ \E r \in Calls : Allocate(r)
      \/ \E r \in Calls, p \in Nodes : SkipStage(r, p) \/ OpenTunnel(r, p)
      \/ UNCHANGED <<todo, used>>
  BY DEF Next, Goes, NoProviders, Credit, RunMaster, MasterSucceeds, MasterFails, Return,
     Cancel, CloseListener, sessionVars, vars
<1> QED
  BY <1>2, <1>3, <1>4, <1>5

\* advertiser.go:194, orchestrator.go:169: karma goes to nodes that are connected
\* to the consumer and advertised themselves as providers, whatever a third node
\* relayed, and although stores change while a call runs.
THEOREM CreditedHaveAdvertised == Spec => []CreditedAdvertised
<1>1. Init => ChosenAdvertised
  BY DEF Init, ChosenAdvertised
<1>2. IInv /\ ChosenAdvertised => CreditedAdvertised
  BY DEF IInv, SessionInv, CreditsMatchUse, ChosenAdvertised, CreditedAdvertised
<1> QED
  BY InvariantHolds, ChosenHold, <1>1, <1>2, PTL DEF Spec

-----------------------------------------------------------------------------
\* A listener is one of a provider its call uses.
ListenersUsed == \A t \in listening : t.provider \in used[t.call]

\* One that has closed is not opened again, nor does its call forget that it was.
ListenersStayClosed ==
    [][\A t \in Listeners : t.provider \in used[t.call] =>
          /\ t.provider \in used'[t.call]
          /\ t \in listening' => t \in listening]_vars

LEMMA ListenersHold ==
  IInv /\ ListenersUsed /\ [Next]_vars =>
    /\ ListenersUsed'
    /\ \A t \in Listeners : t.provider \in used[t.call] =>
         /\ t.provider \in used'[t.call]
         /\ t \in listening' => t \in listening
<1> DEFINE Goal == /\ ListenersUsed'
                   /\ \A t \in Listeners : t.provider \in used[t.call] =>
                        /\ t.provider \in used'[t.call]
                        /\ t \in listening' => t \in listening
<1> SUFFICES ASSUME IInv, ListenersUsed, [Next]_vars PROVE Goal
  OBVIOUS
<1>1. /\ used \in [Calls -> SUBSET Nodes] /\ listening \subseteq Listeners
      /\ \A r \in Calls : todo[r] \cap used[r] = {}
  BY DEF IInv, SessionInv, TypeOK
<1>2. ASSUME NEW r \in Calls, NEW p \in Nodes, OpenTunnel(r, p)
      PROVE  Goal
  <2>1. /\ p \in todo[r] /\ p \notin used[r]
        /\ used' = [used EXCEPT ![r] = @ \cup {p}]
        /\ listening' = listening \cup {[call |-> r, provider |-> p]}
    BY <1>1, <1>2 DEF OpenTunnel
  <2> QED
    BY <1>1, <2>1 DEF ListenersUsed, Listeners
<1>3. CASE used' = used /\ listening' \subseteq listening
  BY <1>3 DEF ListenersUsed
<1>4. \/ \E r \in Calls, p \in Nodes : OpenTunnel(r, p)
      \/ used' = used /\ listening' \subseteq listening
  BY DEF Next, Goes, NoProviders, Allocate, SkipStage, Credit, RunMaster, MasterSucceeds,
     MasterFails, Return, Cancel, CloseListener, sessionVars, vars
<1> QED
  BY <1>2, <1>3, <1>4

\* tunnel.go:72: each tunnel of a call has one listener in its life, so after the node's
\* context is done the listeners that are left are closed for good.
THEOREM ClosedListenersStayClosed == Spec => []ListenersUsed /\ ListenersStayClosed
<1>1. Init => ListenersUsed
  BY DEF Init, ListenersUsed
<1>2. Spec => [](IInv /\ ListenersUsed)
  BY InvariantHolds, ListenersHold, <1>1, PTL DEF Spec
<1>3. Spec => ListenersStayClosed
  BY <1>2, ListenersHold, PTL DEF Spec, ListenersStayClosed
<1> QED
  BY <1>2, <1>3, PTL
=============================================================================
