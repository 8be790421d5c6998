------------------------------- MODULE Karma -------------------------------
(***************************************************************************)
(* karma.Reputer (karma/reputer.go) on a network of nodes: each keeps a    *)
(* score per peer, changes it when work succeeds or fails, gossips it,     *)
(* merges what it receives, and (cmd/provider/main.go) saves it to a file  *)
(* that it loads when it starts.                                           *)
(*                                                                         *)
(* A score is its TotalContribution and its Karma; the request counters    *)
(* and the time stamp decide nothing.  Karma is an integer: Earned is the  *)
(* scaled 1.0 + log(1 + contribution), Base the scaled 1.0.                *)
(*                                                                         *)
(* AddContribution, AddFailure, MergeScores, Save and Load hold the mutex. *)
(* propagateOnce copies the pointers to the scores under it and marshals   *)
(* what they point to without it: a score is read field by field, the      *)
(* contribution first, while AddContribution and AddFailure change it.     *)
(***************************************************************************)
EXTENDS Integers, FiniteSets

CONSTANTS Nodes, Peers,
          MaxTotal,         \* bound: milliseconds contributed by a peer
          MaxRecorded,      \* bound: contributions and failures recorded in all
          MaxStops,         \* bound: crashes and shutdowns in all
          MaxSaves,         \* bound: saves in all
          MaxInbox,         \* bound: messages on their way to a node
          Base, Earned,
          Unknown, Live, Unreadable

ASSUME BoundsAssumption ==
    /\ MaxTotal \in Nat /\ MaxRecorded \in Nat
    /\ MaxStops \in Nat /\ MaxSaves \in Nat /\ MaxInbox \in Nat
ASSUME EarnedAssumption ==
    /\ Base \in Nat /\ Earned \in [0 .. MaxTotal -> Nat]
    /\ \A t \in 0 .. MaxTotal : Earned[t] >= Base
    /\ \A t, u \in 0 .. MaxTotal : t <= u => Earned[t] <= Earned[u]

Scores == [tc : 0 .. MaxTotal, karma : Nat]
ScoreMaps == [Peers -> Scores \cup {Unknown}]
Messages == [peer : Peers, tc : 0 .. MaxTotal, karma : Nat]
Publishing == [peer : Peers, tc : 0 .. MaxTotal, karma : Nat \cup {Live}]

ASSUME NullsAssumption ==
    /\ Unknown \notin Scores \cup Publishing
    /\ Unreadable \notin ScoreMaps
    /\ Live \notin Nat

VARIABLES phase,            \* process of each node: "up", "stopping", "down"
          scores,           \* Reputer.localScores
          saving,           \* Save is writing the file, holding the mutex
          file,             \* karma_scores.json: scores, or missing or cut off
          publishing,       \* the score propagateOnce is marshalling
          inbox,            \* gossip on its way to each node
          total,            \* contribution ever recorded for each peer
          recorded, stops, saves

process == <<phase, saving, file, stops, saves>>
vars == <<process, scores, publishing, inbox, total, recorded>>

NoScores == [p \in Peers |-> Unknown]

Init ==
    /\ phase = [n \in Nodes |-> "up"]
    /\ scores = [n \in Nodes |-> NoScores]
    /\ saving = [n \in Nodes |-> FALSE]
    /\ file = [n \in Nodes |-> Unreadable]
    /\ publishing = [n \in Nodes |-> Unknown]
    /\ inbox = [n \in Nodes |-> {}]
    /\ total = [p \in Peers |-> 0]
    /\ recorded = 0
    /\ stops = 0
    /\ saves = 0

-----------------------------------------------------------------------------
\* The score a peer starts with.
Known(n, p) == IF scores[n][p] = Unknown THEN [tc |-> 0, karma |-> Base] ELSE scores[n][p]

\* A score map is touched only by a running process that gets the mutex.
Unlocked(n) == phase[n] # "down" /\ ~saving[n]

\* Mutant: a contribution is credited on top of the karma already there.
ContributedOnTop(score, ms) ==
    [tc |-> score.tc + ms, karma |-> score.karma + Earned[score.tc + ms]]

\* AddContribution: the karma is computed from the total again.
Contributed(score, ms) == [tc |-> score.tc + ms, karma |-> Earned[score.tc + ms]]

AddContribution(n, p, ms) ==
    /\ Unlocked(n)
    /\ recorded < MaxRecorded /\ total[p] + ms <= MaxTotal
    /\ Known(n, p).tc + ms <= MaxTotal
    /\ scores' = [scores EXCEPT ![n][p] = Contributed(Known(n, p), ms)]
    /\ total' = [total EXCEPT ![p] = @ + ms]
    /\ recorded' = recorded + 1
    /\ UNCHANGED <<process, publishing, inbox>>

\* karma * 0.95, but not below 1.0.
Penalized(k) == IF (k * 95) \div 100 < Base THEN Base ELSE (k * 95) \div 100

AddFailure(n, p) ==
    /\ Unlocked(n)
    /\ recorded < MaxRecorded
    /\ scores' = [scores EXCEPT ![n][p] = [tc |-> Known(n, p).tc,
                                           karma |-> Penalized(Known(n, p).karma)]]
    /\ recorded' = recorded + 1
    /\ UNCHANGED <<process, publishing, inbox, total>>

\* propagateOnce, up to the contribution of one of the scores it marshals.
ReadContribution(n, p) ==
    /\ Unlocked(n)
    /\ publishing[n] = Unknown
    /\ scores[n][p] # Unknown
    /\ publishing' = [publishing EXCEPT ![n] = [peer |-> p, tc |-> scores[n][p].tc,
                                                karma |-> Live]]
    /\ UNCHANGED <<process, scores, inbox, total, recorded>>

\* The karma of the same score: of the object it was when its pointer was
\* copied, which MergeScores may have taken out of the map meanwhile.
Marshalled(n) ==
    LET m == publishing[n]
    IN  [peer |-> m.peer, tc |-> m.tc,
         karma |-> IF m.karma = Live THEN scores[n][m.peer].karma ELSE m.karma]

\* The rest of the marshalling, and Publish: GossipSub is best-effort, so any
\* of the other running nodes may get the message.
Publish(n, reached) ==
    /\ phase[n] # "down"
    /\ publishing[n] # Unknown
    /\ inbox' = [m \in Nodes |->
                   IF /\ m \in reached /\ phase[m] # "down"
                      /\ Cardinality(inbox[m]) < MaxInbox
                   THEN inbox[m] \cup {Marshalled(n)} ELSE inbox[m]]
    /\ publishing' = [publishing EXCEPT ![n] = Unknown]
    /\ UNCHANGED <<process, scores, total, recorded>>

\* Mutant: the last score received wins.
KeepsRemoteAlways(local, remote) == TRUE

\* MergeScores: a new peer, or "keep the higher score".
KeepsRemote(local, remote) == local = Unknown \/ remote.karma > local.karma

\* Mutant: contributions are added up when scores are merged.
AdoptedSum(local, remote) ==
    [tc |-> IF local = Unknown THEN remote.tc ELSE local.tc + remote.tc,
     karma |-> remote.karma]

Adopted(local, remote) == [tc |-> remote.tc, karma |-> remote.karma]

\* A score that is being marshalled keeps its karma when it leaves the map.
Detached(n, p) ==
    IF publishing[n] # Unknown /\ publishing[n].peer = p /\ publishing[n].karma = Live
    THEN [publishing EXCEPT ![n].karma = scores[n][p].karma]
    ELSE publishing

Merge(n, msg) ==
    /\ Unlocked(n)
    /\ msg \in inbox[n]
    /\ inbox' = [inbox EXCEPT ![n] = @ \ {msg}]
    /\ IF KeepsRemote(scores[n][msg.peer], msg)
       THEN /\ scores' = [scores EXCEPT ![n][msg.peer] = Adopted(@, msg)]
            /\ publishing' = Detached(n, msg.peer)
       ELSE UNCHANGED <<scores, publishing>>
    /\ UNCHANGED <<process, total, recorded>>

-----------------------------------------------------------------------------
\* Save: os.WriteFile truncates the file and then writes it.  A process that
\* ends in between leaves a file that does not parse.
BeginSave(n) ==
    /\ Unlocked(n)
    /\ saving' = [saving EXCEPT ![n] = TRUE]
    /\ file' = [file EXCEPT ![n] = Unreadable]
    /\ saves < MaxSaves
    /\ saves' = saves + 1
    /\ UNCHANGED <<phase, stops, scores, publishing, inbox, total, recorded>>

EndSave(n) ==
    /\ phase[n] # "down" /\ saving[n]
    /\ saving' = [saving EXCEPT ![n] = FALSE]
    /\ file' = [file EXCEPT ![n] = scores[n]]
    /\ UNCHANGED <<phase, stops, saves, scores, publishing, inbox, total, recorded>>

\* The signal handler cancels the context.  The goroutine that saves then
\* wakes up, and so does main, which returns and ends the process.
Shutdown(n) ==
    /\ phase[n] = "up" /\ stops < MaxStops
    /\ phase' = [phase EXCEPT ![n] = "stopping"]
    /\ stops' = stops + 1
    /\ UNCHANGED <<saving, file, saves, scores, publishing, inbox, total, recorded>>

ProcessEnds(n) ==
    /\ phase' = [phase EXCEPT ![n] = "down"]
    /\ saving' = [saving EXCEPT ![n] = FALSE]
    /\ scores' = [scores EXCEPT ![n] = NoScores]
    /\ publishing' = [publishing EXCEPT ![n] = Unknown]
    /\ inbox' = [inbox EXCEPT ![n] = {}]
    /\ UNCHANGED <<file, saves, total, recorded>>

MainReturns(n) ==
    /\ phase[n] = "stopping"
    /\ ProcessEnds(n)
    /\ UNCHANGED stops

Crash(n) ==
    /\ phase[n] = "up" /\ stops < MaxStops
    /\ ProcessEnds(n)
    /\ stops' = stops + 1

\* Load: a missing file is no error, and one that does not parse only logged.
Loaded(f) == IF f = Unreadable THEN NoScores ELSE f

Restart(n) ==
    /\ phase[n] = "down"
    /\ phase' = [phase EXCEPT ![n] = "up"]
    /\ scores' = [scores EXCEPT ![n] = Loaded(file[n])]
    /\ UNCHANGED <<saving, file, stops, saves, publishing, inbox, total, recorded>>

-----------------------------------------------------------------------------
Next ==
    \E n \in Nodes :
        \/ \E p \in Peers, ms \in 0 .. MaxTotal : AddContribution(n, p, ms)
        \/ \E p \in Peers : AddFailure(n, p)
        \/ \E p \in Peers : ReadContribution(n, p)
        \/ \E reached \in SUBSET (Nodes \ {n}) : Publish(n, reached)
        \/ \E msg \in inbox[n] : Merge(n, msg)
        \/ BeginSave(n) \/ EndSave(n)
        \/ Shutdown(n) \/ MainReturns(n) \/ Crash(n) \/ Restart(n)

Spec == Init /\ [][Next]_vars

\* The propagation ticker keeps firing for every score, gossip that is repeated
\* for ever reaches all nodes again and again, and the mutex is not starved.
FairSpec ==
    /\ Spec
    /\ \A n \in Nodes :
         /\ WF_vars(EndSave(n))
         /\ SF_vars(Publish(n, Nodes \ {n}))
         /\ \A p \in Peers : SF_vars(ReadContribution(n, p))
         /\ SF_vars(\E msg \in inbox[n] : Merge(n, msg))

-----------------------------------------------------------------------------
\* Type invariant of the reputers, their files and the gossip between them.
TypeOK ==
    /\ phase \in [Nodes -> {"up", "stopping", "down"}]
    /\ scores \in [Nodes -> ScoreMaps]
    /\ saving \in [Nodes -> BOOLEAN]
    /\ file \in [Nodes -> ScoreMaps \cup {Unreadable}]
    /\ publishing \in [Nodes -> Publishing \cup {Unknown}]
    /\ inbox \in [Nodes -> SUBSET Messages]
    /\ total \in [Peers -> 0 .. MaxTotal]
    /\ recorded \in 0 .. MaxRecorded /\ stops \in 0 .. MaxStops
    /\ saves \in 0 .. MaxSaves

Backed(p, score) ==
    score # Unknown => score.tc <= total[p] /\ score.karma <= Earned[total[p]]

\* Gossip invents no karma: whatever is merged, merged again, read half-way
\* through an update, saved or restored, a score never claims more contribution
\* or more karma than all that was ever recorded for the peer, on any node.
KarmaBacked ==
    /\ \A n \in Nodes, p \in Peers : Backed(p, scores[n][p])
    /\ \A n \in Nodes : \A msg \in inbox[n] : Backed(msg.peer, msg)
    /\ \A n \in Nodes, p \in Peers :
         file[n] # Unreadable => Backed(p, file[n][p])

\* protocol.md:249 "propagates via GossipSub": once no more work is recorded,
\* all running nodes come to show the same karma for every peer that one of
\* them knows, also those that were restarted from an old or torn file.
KarmaConverges ==
    <>[](\A m, n \in Nodes, p \in Peers :
            phase[m] # "down" /\ phase[n] # "down" /\ scores[m][p] # Unknown =>
                /\ scores[n][p] # Unknown
                /\ scores[m][p].karma = scores[n][p].karma)
=============================================================================
