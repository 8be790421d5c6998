----------------------------- MODULE KarmaProofs -----------------------------
(***************************************************************************)
(* No karma out of nothing, for any number of nodes and peers and any      *)
(* amount of work: what the reputers hold, publish, save and restore stays *)
(* within the contribution that the peers really made.                     *)
(***************************************************************************)
EXTENDS Karma, TLAPS

\* What has been read of a score that is being marshalled.
PublishingBacked ==
    \A n \in Nodes :
        LET m == publishing[n]
        IN  m # Unknown =>
              /\ m.tc <= total[m.peer]
              /\ m.karma = Live => scores[n][m.peer] # Unknown
              /\ m.karma # Live => m.karma <= Earned[total[m.peer]]

ScoresBacked == \A n \in Nodes, p \in Peers : Backed(p, scores[n][p])
InboxBacked == \A n \in Nodes : \A msg \in inbox[n] : Backed(msg.peer, msg)
FileBacked == \A n \in Nodes, p \in Peers :
                  file[n] # Unreadable => Backed(p, file[n][p])

DownIsSilent == \A n \in Nodes : phase[n] = "down" => publishing[n] = Unknown

IInv == TypeOK /\ DownIsSilent /\ ScoresBacked /\ InboxBacked /\ FileBacked /\ PublishingBacked

-----------------------------------------------------------------------------
\* More work by a peer backs whatever was backed before.
LEMMA BackedGrows ==
  ASSUME NEW t \in 0 .. MaxTotal, NEW u \in 0 .. MaxTotal, t <= u
  PROVE  Earned[t] \in Nat /\ Earned[u] \in Nat /\ Earned[t] <= Earned[u]
BY EarnedAssumption, BoundsAssumption

LEMMA InitHolds == Init => IInv
<1> SUFFICES ASSUME Init PROVE IInv
  OBVIOUS
<1>1. NoScores \in ScoreMaps
  BY DEF NoScores, ScoreMaps
<1>2. TypeOK
  BY <1>1, BoundsAssumption DEF Init, TypeOK
<1> QED
  BY <1>2 DEF Init, IInv, DownIsSilent, ScoresBacked, InboxBacked, FileBacked, PublishingBacked,
     Backed, NoScores

LEMMA AddContributionHolds ==
  ASSUME IInv, NEW n \in Nodes, NEW p \in Peers, NEW ms \in 0 .. MaxTotal,
         AddContribution(n, p, ms)
  PROVE  IInv'
<1> USE DEF IInv, TypeOK, DownIsSilent, AddContribution, process
<1> DEFINE old == Known(n, p)
           new == Contributed(old, ms)
<1>1. old \in Scores /\ old.tc <= total[p]
  <2>1. CASE scores[n][p] = Unknown
    BY <2>1, EarnedAssumption, BoundsAssumption DEF Known, Scores
  <2>2. CASE scores[n][p] # Unknown
    BY <2>2 DEF Known, ScoresBacked, Backed, ScoreMaps
  <2> QED
    BY <2>1, <2>2
<1>2. total'[p] = total[p] + ms /\ total'[p] \in 0 .. MaxTotal
      /\ old.tc + ms \in 0 .. MaxTotal /\ old.tc + ms <= total'[p]
  BY <1>1, BoundsAssumption DEF Scores
<1>3. new \in Scores /\ new.tc <= total'[p] /\ new.karma <= Earned[total'[p]]
  <2>1. new.tc = old.tc + ms /\ new.karma = Earned[old.tc + ms]
    BY DEF Contributed
  <2>2. Earned[old.tc + ms] \in Nat /\ Earned[old.tc + ms] <= Earned[total'[p]]
    BY <1>2, BackedGrows
  <2>3. new = [tc |-> old.tc + ms, karma |-> Earned[old.tc + ms]]
    BY DEF Contributed
  <2> QED
    BY <1>2, <2>1, <2>2, <2>3 DEF Scores
<1> HIDE DEF new, old
<1>4. scores' = [scores EXCEPT ![n][p] = new]
  BY DEF new, old
<1>5. \A q \in Peers : /\ total[q] \in 0 .. MaxTotal /\ total'[q] \in 0 .. MaxTotal
                       /\ total[q] <= total'[q]
  BY <1>2, BoundsAssumption
<1>6. \A q \in Peers : /\ Earned[total[q]] \in Nat /\ Earned[total'[q]] \in Nat
                       /\ Earned[total[q]] <= Earned[total'[q]]
  BY <1>5, BackedGrows
<1>7. TypeOK'
  BY <1>2, <1>3, <1>4, BoundsAssumption DEF ScoreMaps
<1>8. ScoresBacked'
  <2> SUFFICES ASSUME NEW m \in Nodes, NEW q \in Peers
               PROVE  Backed(q, scores[m][q])'
    BY DEF ScoresBacked
  <2>1. CASE m = n /\ q = p
    BY <1>3, <1>4, <2>1 DEF Backed, ScoreMaps
  <2>2. CASE ~(m = n /\ q = p)
    <3>1. scores'[m][q] = scores[m][q] /\ scores[m][q] \in Scores \cup {Unknown}
      BY <1>4, <2>2 DEF ScoreMaps
    <3>2. Backed(q, scores[m][q])
      BY DEF ScoresBacked
    <3> QED
      BY <1>5, <1>6, <3>1, <3>2 DEF Backed, Scores
  <2> QED
    BY <2>1, <2>2
<1>9. InboxBacked'
  <2> SUFFICES ASSUME NEW m \in Nodes, NEW msg \in inbox[m]
               PROVE  Backed(msg.peer, msg)'
    BY DEF InboxBacked
  <2>1. msg \in Messages /\ Backed(msg.peer, msg)
    BY DEF InboxBacked
  <2> QED
    BY <1>5, <1>6, <2>1 DEF Backed, Messages
<1>10. FileBacked'
  <2> SUFFICES ASSUME NEW m \in Nodes, NEW q \in Peers, file[m] # Unreadable
               PROVE  Backed(q, file[m][q])'
    BY DEF FileBacked
  <2>1. file[m][q] \in Scores \cup {Unknown} /\ Backed(q, file[m][q])
    BY DEF FileBacked, ScoreMaps
  <2> QED
    BY <1>5, <1>6, <2>1 DEF Backed, Scores
<1>11. PublishingBacked'
  <2> SUFFICES ASSUME NEW m \in Nodes, publishing[m] # Unknown
               PROVE  /\ publishing[m].tc <= total'[publishing[m].peer]
                      /\ publishing[m].karma = Live =>
                            scores'[m][publishing[m].peer] # Unknown
                      /\ publishing[m].karma # Live =>
                            publishing[m].karma <= Earned[total'[publishing[m].peer]]
    BY DEF PublishingBacked
  <2>1. publishing[m] \in Publishing
    OBVIOUS
  <2>2. /\ publishing[m].tc <= total[publishing[m].peer]
        /\ publishing[m].karma = Live => scores[m][publishing[m].peer] # Unknown
        /\ publishing[m].karma # Live =>
              publishing[m].karma <= Earned[total[publishing[m].peer]]
    BY DEF PublishingBacked
  <2>3. publishing[m].karma = Live => scores'[m][publishing[m].peer] # Unknown
    BY <1>3, <1>4, <2>1, <2>2, NullsAssumption DEF Publishing, ScoreMaps
  <2> QED
    BY <1>5, <1>6, <2>1, <2>2, <2>3 DEF Publishing
<1> QED
  BY <1>7, <1>8, <1>9, <1>10, <1>11

LEMMA AddFailureHolds ==
  ASSUME IInv, NEW n \in Nodes, NEW p \in Peers, AddFailure(n, p)
  PROVE  IInv'
<1> USE DEF IInv, TypeOK, DownIsSilent, AddFailure, process
<1> DEFINE old == Known(n, p)
           new == [tc |-> old.tc, karma |-> Penalized(old.karma)]
<1>1. old \in Scores /\ Backed(p, old) /\ old # Unknown
  <2>1. CASE scores[n][p] = Unknown
    BY <2>1, EarnedAssumption, BoundsAssumption, NullsAssumption
       DEF Known, Scores, Backed
  <2>2. CASE scores[n][p] # Unknown
    BY <2>2 DEF Known, ScoresBacked, ScoreMaps
  <2> QED
    BY <2>1, <2>2
<1>2. /\ total[p] \in 0 .. MaxTotal /\ Earned[total[p]] \in Nat
      /\ Base <= Earned[total[p]] /\ Base \in Nat
  BY EarnedAssumption, BoundsAssumption
<1>3. Penalized(old.karma) \in Nat /\ Penalized(old.karma) <= Earned[total[p]]
  <2>1. old.karma \in Nat /\ old.karma <= Earned[total[p]]
    BY <1>1 DEF Scores, Backed
  <2>2. (old.karma * 95) \div 100 \in Nat /\ (old.karma * 95) \div 100 <= old.karma
    BY <2>1
  <2> QED
    BY <1>2, <2>1, <2>2 DEF Penalized
<1>4. new \in Scores /\ new.tc <= total[p] /\ new.karma <= Earned[total[p]]
  BY <1>1, <1>3 DEF Scores, Backed
<1> HIDE DEF new, old
<1>5. scores' = [scores EXCEPT ![n][p] = new]
  BY DEF new, old
<1>6. TypeOK'
  BY <1>4, <1>5, BoundsAssumption DEF ScoreMaps
<1>7. ScoresBacked'
  <2> SUFFICES ASSUME NEW m \in Nodes, NEW q \in Peers
               PROVE  Backed(q, scores[m][q])'
    BY DEF ScoresBacked
  <2>1. scores'[m][q] = IF m = n /\ q = p THEN new ELSE scores[m][q]
    BY <1>5 DEF ScoreMaps
  <2> QED
    BY <1>4, <2>1 DEF ScoresBacked, Backed
<1>8. InboxBacked' /\ FileBacked'
  BY DEF InboxBacked, FileBacked, Backed
<1>9. PublishingBacked'
  <2> SUFFICES ASSUME NEW m \in Nodes, publishing[m] # Unknown,
                      publishing[m].karma = Live
               PROVE  scores'[m][publishing[m].peer] # Unknown
    BY DEF PublishingBacked
  <2>1. publishing[m].peer \in Peers /\ scores[m][publishing[m].peer] # Unknown
    BY DEF PublishingBacked, Publishing
  <2>2. scores'[m][publishing[m].peer] = new
        \/ scores'[m][publishing[m].peer] = scores[m][publishing[m].peer]
    BY <1>5, <2>1 DEF ScoreMaps
  <2> QED
    BY <1>4, <2>1, <2>2, NullsAssumption
<1> QED
  BY <1>6, <1>7, <1>8, <1>9

LEMMA ReadContributionHolds ==
  ASSUME IInv, NEW n \in Nodes, NEW p \in Peers, ReadContribution(n, p)
  PROVE  IInv'
<1> USE DEF IInv, TypeOK, DownIsSilent, ReadContribution, process
<1> DEFINE m == [peer |-> p, tc |-> scores[n][p].tc, karma |-> Live]
<1>1. scores[n][p] \in Scores /\ scores[n][p].tc <= total[p] /\ scores[n][p] # Unknown
  BY DEF ScoresBacked, Backed, ScoreMaps
<1>2. m \in Publishing /\ m.peer = p /\ m.tc <= total[p] /\ m.karma = Live
  BY <1>1 DEF Publishing, Scores
<1> HIDE DEF m
<1>3. publishing' = [publishing EXCEPT ![n] = m]
  BY DEF m
<1>4. TypeOK'
  BY <1>2, <1>3
<1>5. ScoresBacked' /\ InboxBacked' /\ FileBacked'
  BY DEF ScoresBacked, InboxBacked, FileBacked, Backed
<1>6. PublishingBacked'
  BY <1>1, <1>2, <1>3 DEF PublishingBacked
<1>7. DownIsSilent'
  BY <1>3 DEF Unlocked
<1> QED
  BY <1>4, <1>5, <1>6, <1>7

LEMMA PublishHolds ==
  ASSUME IInv, NEW n \in Nodes, NEW reached \in SUBSET (Nodes \ {n}),
         Publish(n, reached)
  PROVE  IInv'
<1> USE DEF IInv, TypeOK, DownIsSilent, Publish, process
<1> DEFINE m == publishing[n]
           msg == Marshalled(n)
<1>1. m \in Publishing /\ scores[n] \in ScoreMaps
  OBVIOUS
<1>2. msg \in Messages /\ Backed(msg.peer, msg)
  <2>1. m.peer \in Peers /\ m.tc \in 0 .. MaxTotal /\ m.karma \in Nat \cup {Live}
    BY <1>1 DEF Publishing
  <2>2. /\ m.tc <= total[m.peer]
        /\ m.karma = Live => scores[n][m.peer] # Unknown
        /\ m.karma # Live => m.karma <= Earned[total[m.peer]]
    BY DEF PublishingBacked
  <2>3. CASE m.karma = Live
    <3>1. scores[n][m.peer] \in Scores /\ Backed(m.peer, scores[n][m.peer])
      BY <1>1, <2>1, <2>2, <2>3 DEF ScoresBacked, ScoreMaps
    <3> QED
      BY <2>1, <2>2, <2>3, <3>1 DEF Marshalled, Messages, Backed, Scores
  <2>4. CASE m.karma # Live
    BY <2>1, <2>2, <2>4 DEF Marshalled, Messages, Backed
  <2> QED
    BY <2>3, <2>4
<1> HIDE DEF msg
<1>3. \A k \in Nodes : inbox'[k] \subseteq inbox[k] \cup {msg}
  BY DEF msg
<1>4. TypeOK'
  <2>1. inbox' \in [Nodes -> SUBSET Messages]
    BY <1>2 DEF msg
  <2>2. publishing' \in [Nodes -> Publishing \cup {Unknown}]
    OBVIOUS
  <2> QED
    BY <2>1, <2>2
<1>5. ScoresBacked' /\ FileBacked'
  BY DEF ScoresBacked, FileBacked, Backed
<1>6. InboxBacked'
  BY <1>2, <1>3 DEF InboxBacked, Backed
<1>7. PublishingBacked'
  BY DEF PublishingBacked
<1> QED
  BY <1>4, <1>5, <1>6, <1>7

LEMMA MergeHolds ==
  ASSUME IInv, NEW n \in Nodes, NEW msg \in inbox[n], Merge(n, msg)
  PROVE  IInv'
<1> USE DEF IInv, TypeOK, DownIsSilent, Merge, process
<1>1. msg \in Messages /\ Backed(msg.peer, msg) /\ inbox' \in [Nodes -> SUBSET Messages]
      /\ \A k \in Nodes : inbox'[k] \subseteq inbox[k]
  BY DEF InboxBacked
<1>2. InboxBacked' /\ FileBacked'
  BY <1>1 DEF InboxBacked, FileBacked, Backed
<1>3. CASE UNCHANGED <<scores, publishing>>
  BY <1>1, <1>2, <1>3 DEF ScoresBacked, PublishingBacked, Backed
<1>4. CASE /\ scores' = [scores EXCEPT ![n][msg.peer] = Adopted(@, msg)]
           /\ publishing' = Detached(n, msg.peer)
  <2> DEFINE p == msg.peer
             new == [tc |-> msg.tc, karma |-> msg.karma]
  <2>1. p \in Peers /\ new \in Scores /\ new # Unknown
        /\ total[p] \in 0 .. MaxTotal /\ Earned[total[p]] \in Nat
    BY <1>1, NullsAssumption, BackedGrows, BoundsAssumption DEF Messages, Scores
  <2>2. new.tc <= total[p] /\ new.karma <= Earned[total[p]]
    <3>1. msg # Unknown \/ (msg.tc \in 0 .. MaxTotal /\ msg.karma \in Nat)
      BY <1>1 DEF Messages
    <3>2. msg # Unknown
      BY <1>1, NullsAssumption DEF Messages, Publishing
    <3> QED
      BY <1>1, <3>2 DEF Backed
  <2> HIDE DEF new
  <2>3. \A k \in Nodes, q \in Peers :
           scores'[k][q] = IF k = n /\ q = p THEN new ELSE scores[k][q]
    BY <1>4, <2>1 DEF Adopted, new, ScoreMaps
  <2>4. scores' \in [Nodes -> ScoreMaps]
    BY <1>4, <2>1 DEF Adopted, new, ScoreMaps
  <2>5. ScoresBacked'
    BY <2>1, <2>2, <2>3 DEF ScoresBacked, Backed
  <2>6. \A k \in Nodes : k # n => publishing'[k] = publishing[k]
    BY <1>4 DEF Detached
  <2>7. CASE publishing[n] # Unknown /\ publishing[n].peer = p /\ publishing[n].karma = Live
    <3> DEFINE frozen == [publishing[n] EXCEPT !.karma = scores[n][p].karma]
    <3>1. /\ publishing[n] \in Publishing
          /\ scores[n][p] \in Scores /\ Backed(p, scores[n][p]) /\ scores[n][p] # Unknown
      BY <2>1, <2>7 DEF PublishingBacked, ScoresBacked, ScoreMaps
    <3>2. scores[n][p].karma \in Nat /\ scores[n][p].karma <= Earned[total[p]]
      BY <3>1 DEF Backed, Scores
    <3>3. /\ frozen \in Publishing /\ frozen.peer = p /\ frozen.tc = publishing[n].tc
          /\ frozen.karma = scores[n][p].karma
      BY <2>7, <3>1, <3>2 DEF Publishing
    <3> HIDE DEF frozen
    <3>4. publishing' = [publishing EXCEPT ![n] = frozen]
      BY <1>4, <2>7 DEF Detached, frozen
    <3>5. publishing' \in [Nodes -> Publishing \cup {Unknown}]
      BY <3>3, <3>4
    <3>6. frozen.tc <= total[p] /\ frozen.karma # Live
      BY <2>7, <3>2, <3>3, NullsAssumption DEF PublishingBacked
    <3>7. PublishingBacked'
      <4> SUFFICES ASSUME NEW k \in Nodes, publishing'[k] # Unknown
                   PROVE  /\ publishing'[k].tc <= total[publishing'[k].peer]
                          /\ publishing'[k].karma = Live =>
                                scores'[k][publishing'[k].peer] # Unknown
                          /\ publishing'[k].karma # Live =>
                                publishing'[k].karma <= Earned[total[publishing'[k].peer]]
        BY DEF PublishingBacked
      <4>1. CASE k = n
        BY <3>2, <3>3, <3>4, <3>6, <4>1
      <4>2. CASE k # n
        <5>1. publishing'[k] = publishing[k] /\ publishing[k].peer \in Peers
          BY <2>6, <4>2 DEF Publishing
        <5> QED
          BY <2>3, <4>2, <5>1 DEF PublishingBacked
      <4> QED
        BY <4>1, <4>2
    <3>8. DownIsSilent'
      BY <3>4 DEF Unlocked
    <3> QED
      BY <1>1, <1>2, <2>4, <2>5, <3>5, <3>7, <3>8
  <2>8. CASE ~(publishing[n] # Unknown /\ publishing[n].peer = p
                 /\ publishing[n].karma = Live)
    <3>1. publishing' = publishing
      BY <1>4, <2>8 DEF Detached
    <3>2. PublishingBacked'
      <4> SUFFICES ASSUME NEW k \in Nodes, publishing[k] # Unknown,
                          publishing[k].karma = Live
                   PROVE  scores'[k][publishing[k].peer] # Unknown
        BY <3>1 DEF PublishingBacked
      <4>1. publishing[k].peer \in Peers
            /\ scores[k][publishing[k].peer] # Unknown
        BY DEF PublishingBacked, Publishing
      <4> QED
        BY <2>1, <2>3, <4>1
    <3> QED
      BY <1>1, <1>2, <2>4, <2>5, <3>1, <3>2
  <2> QED
    BY <2>7, <2>8
<1> QED
  BY <1>3, <1>4

\* Saving copies what is backed; the end of a process forgets; Load restores.
LEMMA ProcessStepHolds ==
  ASSUME IInv, NEW n \in Nodes,
         \/ BeginSave(n) \/ EndSave(n) \/ Shutdown(n)
         \/ MainReturns(n) \/ Crash(n) \/ Restart(n)
  PROVE  IInv'
<1> USE DEF IInv, TypeOK, DownIsSilent
<1>1. CASE BeginSave(n)
  BY <1>1, BoundsAssumption
     DEF BeginSave, ScoresBacked, InboxBacked, FileBacked, PublishingBacked, Backed
<1>2. CASE EndSave(n)
  BY <1>2 DEF EndSave, ScoresBacked, InboxBacked, FileBacked, PublishingBacked, Backed
<1>3. CASE Shutdown(n)
  BY <1>3, BoundsAssumption
     DEF Shutdown, ScoresBacked, InboxBacked, FileBacked, PublishingBacked, Backed
<1>4. ASSUME ProcessEnds(n), stops' \in 0 .. MaxStops
      PROVE  IInv'
  <2>1. NoScores \in ScoreMaps /\ \A p \in Peers : NoScores[p] = Unknown
    BY DEF NoScores, ScoreMaps
  <2>2. TypeOK'
    BY <1>4, <2>1 DEF ProcessEnds
  <2>3. ScoresBacked' /\ InboxBacked' /\ FileBacked' /\ PublishingBacked'
    BY <1>4, <2>1 DEF ProcessEnds, ScoresBacked, InboxBacked, FileBacked,
       PublishingBacked, Backed
  <2>4. DownIsSilent'
    BY <1>4 DEF ProcessEnds
  <2> QED
    BY <2>2, <2>3, <2>4
<1>5. CASE MainReturns(n)
  BY <1>4, <1>5 DEF MainReturns
<1>6. CASE Crash(n)
  BY <1>4, <1>6, BoundsAssumption DEF Crash
<1>7. CASE Restart(n)
  <2>1. Loaded(file[n]) \in ScoreMaps
        /\ \A p \in Peers : Backed(p, Loaded(file[n])[p])
    BY DEF Loaded, NoScores, ScoreMaps, FileBacked, Backed
  <2>2. TypeOK' /\ ScoresBacked' /\ InboxBacked' /\ FileBacked'
    BY <1>7, <2>1 DEF Restart, ScoresBacked, InboxBacked, FileBacked, Backed
  <2>3. PublishingBacked'
    BY <1>7, <2>1 DEF Restart, PublishingBacked
  <2>4. DownIsSilent'
    BY <1>7 DEF Restart
  <2> QED
    BY <2>2, <2>3, <2>4
<1> QED
  BY <1>1, <1>2, <1>3, <1>5, <1>6, <1>7

LEMMA StepHolds == IInv /\ [Next]_vars => IInv'
<1> SUFFICES ASSUME IInv, [Next]_vars PROVE IInv'
  OBVIOUS
<1>1. CASE UNCHANGED vars
  BY <1>1 DEF vars, process, IInv, TypeOK, DownIsSilent, ScoresBacked, InboxBacked, FileBacked,
     PublishingBacked, Backed
<1>2. CASE Next
  BY <1>2, AddContributionHolds, AddFailureHolds, ReadContributionHolds, PublishHolds,
     MergeHolds, ProcessStepHolds
     DEF Next
<1> QED
  BY <1>1, <1>2

\* The reputers, their files and the gossip keep their types.
THEOREM KarmaTypes == Spec => []TypeOK
<1>1. IInv => TypeOK
  BY DEF IInv
<1> QED
  BY InitHolds, StepHolds, <1>1, PTL DEF Spec

\* Gossip, torn reads, saves and restarts never make karma that no work backs.
THEOREM KarmaIsBacked == Spec => []KarmaBacked
<1>1. IInv => KarmaBacked
  BY DEF IInv, KarmaBacked, ScoresBacked, InboxBacked, FileBacked
<1> QED
  BY InitHolds, StepHolds, <1>1, PTL DEF Spec

-----------------------------------------------------------------------------
\* While no work is recorded, a running process forgets no peer, and the karma it
\* shows for one only rises: merges in any order never set it back.
Settles(n, p) ==
    (phase[n] # "down" /\ phase'[n] # "down" /\ scores[n][p] # Unknown) =>
        /\ scores'[n][p] # Unknown
        /\ scores'[n][p] = scores[n][p] \/ scores'[n][p].karma > scores[n][p].karma

\* No score of the peer, on a node, in a file, half read or in a message, has more
\* karma than k.
AtMost(p, k) ==
    /\ \A n \in Nodes : scores[n][p] # Unknown => scores[n][p].karma <= k
    /\ \A n \in Nodes :
         file[n] # Unreadable /\ file[n][p] # Unknown => file[n][p].karma <= k
    /\ \A n \in Nodes : \A msg \in inbox[n] : msg.peer = p => msg.karma <= k
    /\ \A n \in Nodes :
         LET m == publishing[n]
         IN  m # Unknown /\ m.peer = p /\ m.karma # Live => m.karma <= k

\* Both are about steps that record no work.
GossipSettles ==
    [][recorded' = recorded =>
          \A p \in Peers :
              /\ \A n \in Nodes : Settles(n, p)
              /\ \A k \in Nat : AtMost(p, k) => AtMost(p, k)']_vars

\* Merging is the only such step that changes the score of a running process.
LEMMA MergeSettles ==
  ASSUME IInv, NEW n \in Nodes, NEW msg \in inbox[n], Merge(n, msg),
         NEW p \in Peers, NEW k \in Nat
  PROVE  /\ \A m \in Nodes : Settles(m, p)
         /\ AtMost(p, k) => AtMost(p, k)'
<1> USE DEF IInv, TypeOK
<1>1. /\ inbox' = [inbox EXCEPT ![n] = @ \ {msg}]
      /\ UNCHANGED <<process, total, recorded>>
      /\ msg \in Messages
  BY DEF Merge
<1>2. CASE KeepsRemote(scores[n][msg.peer], msg)
  <2>1. scores' = [scores EXCEPT ![n][msg.peer] = [tc |-> msg.tc, karma |-> msg.karma]]
    BY <1>2 DEF Merge, Adopted
  <2>2. publishing' = Detached(n, msg.peer)
    BY <1>2 DEF Merge
  <2>3. [tc |-> msg.tc, karma |-> msg.karma] # Unknown
    BY <1>1, NullsAssumption DEF Messages, Scores
  <2>4. \A m \in Nodes : Settles(m, p)
    <3> SUFFICES ASSUME NEW m \in Nodes PROVE Settles(m, p)
      OBVIOUS
    <3>1. CASE m = n /\ p = msg.peer
      <4>1. scores'[n][p] = [tc |-> msg.tc, karma |-> msg.karma]
        BY <2>1, <3>1 DEF ScoreMaps
      <4> QED
        BY <1>2, <2>3, <3>1, <4>1 DEF KeepsRemote, Settles
    <3>2. CASE ~ (m = n /\ p = msg.peer)
      <4>1. scores'[m][p] = scores[m][p]
        BY <2>1, <3>2 DEF ScoreMaps
      <4> QED
        BY <4>1 DEF Settles
    <3> QED
      BY <3>1, <3>2
  <2>5. ASSUME AtMost(p, k)
        PROVE  AtMost(p, k)'
    <3>1. \A m \in Nodes : scores'[m][p] # Unknown => scores'[m][p].karma <= k
      <4> SUFFICES ASSUME NEW m \in Nodes, scores'[m][p] # Unknown
                   PROVE  scores'[m][p].karma <= k
        OBVIOUS
      <4>1. scores'[m][p] = scores[m][p]
            \/ (p = msg.peer /\ scores'[m][p] = [tc |-> msg.tc, karma |-> msg.karma])
        BY <2>1 DEF ScoreMaps
      <4> QED
        BY <2>5, <4>1 DEF AtMost
    <3>2. /\ \A m \in Nodes :
               file'[m] # Unreadable /\ file'[m][p] # Unknown => file'[m][p].karma <= k
          /\ \A m \in Nodes : \A x \in inbox'[m] : x.peer = p => x.karma <= k
      BY <1>1, <2>5 DEF AtMost, process
    <3>3. ASSUME NEW m \in Nodes, publishing'[m] # Unknown, publishing'[m].peer = p,
                 publishing'[m].karma # Live
          PROVE  publishing'[m].karma <= k
      <4>1. CASE publishing'[m] = publishing[m]
        BY <2>5, <3>3, <4>1 DEF AtMost
      <4>2. CASE publishing'[m] # publishing[m]
        <5>1. /\ m = n /\ publishing[n] # Unknown /\ publishing[n].peer = msg.peer
              /\ publishing[n].karma = Live
              /\ publishing' = [publishing EXCEPT ![n].karma = scores[n][msg.peer].karma]
          BY <2>2, <4>2 DEF Detached
        <5>2. publishing[n] \in Publishing
          BY <5>1
        <5>3. /\ publishing'[n].peer = publishing[n].peer
              /\ publishing'[n].karma = scores[n][msg.peer].karma
          BY <5>1, <5>2 DEF Publishing
        <5>4. scores[n][msg.peer] # Unknown
          BY <5>1 DEF PublishingBacked
        <5> QED
          BY <2>5, <3>3, <5>1, <5>3, <5>4 DEF AtMost
      <4> QED
        BY <4>1, <4>2
    <3> QED
      BY <3>1, <3>2, <3>3 DEF AtMost
  <2> QED
    BY <2>4, <2>5
<1>3. CASE UNCHANGED <<scores, publishing>>
  BY <1>1, <1>3 DEF Settles, AtMost, process
<1> QED
  BY <1>2, <1>3 DEF Merge

\* What is published has the karma of the score, now or when it was read.
LEMMA PublishSettles ==
  ASSUME IInv, NEW n \in Nodes, NEW reached \in SUBSET (Nodes \ {n}), Publish(n, reached),
         NEW p \in Peers, NEW k \in Nat
  PROVE  /\ \A m \in Nodes : Settles(m, p)
         /\ AtMost(p, k) => AtMost(p, k)'
<1> USE DEF IInv, TypeOK
<1>1. /\ UNCHANGED <<process, scores, total, recorded>>
      /\ publishing' = [publishing EXCEPT ![n] = Unknown]
      /\ publishing[n] # Unknown
      /\ \A m \in Nodes : \A x \in inbox'[m] : x \in inbox[m] \/ x = Marshalled(n)
  BY DEF Publish
<1>2. \A m \in Nodes : Settles(m, p)
  BY <1>1 DEF Settles
<1>3. ASSUME AtMost(p, k)
      PROVE  AtMost(p, k)'
  <2>1. Marshalled(n).peer = p => Marshalled(n).karma <= k
    <3>1. CASE publishing[n].karma = Live
      BY <1>1, <1>3, <3>1 DEF Marshalled, AtMost, PublishingBacked
    <3>2. CASE publishing[n].karma # Live
      BY <1>1, <1>3, <3>2 DEF Marshalled, AtMost
    <3> QED
      BY <3>1, <3>2
  <2>2. \A m \in Nodes : \A x \in inbox'[m] : x.peer = p => x.karma <= k
    BY <1>1, <1>3, <2>1 DEF AtMost
  <2> QED
    BY <1>1, <1>3, <2>2 DEF AtMost, process
<1> QED
  BY <1>2, <1>3

\* Reading a score, saving, and the ends and starts of processes.
LEMMA OthersSettle ==
  ASSUME IInv, NEW n \in Nodes,
         \/ \E q \in Peers : ReadContribution(n, q)
         \/ BeginSave(n) \/ EndSave(n) \/ Shutdown(n)
         \/ MainReturns(n) \/ Crash(n) \/ Restart(n),
         NEW p \in Peers, NEW k \in Nat
  PROVE  /\ \A m \in Nodes : Settles(m, p)
         /\ AtMost(p, k) => AtMost(p, k)'
<1> USE DEF IInv, TypeOK, Settles, AtMost
<1>1. ASSUME NEW q \in Peers, ReadContribution(n, q)
      PROVE  /\ \A m \in Nodes : Settles(m, p)
             /\ AtMost(p, k) => AtMost(p, k)'
  BY <1>1 DEF ReadContribution, process
<1>2. CASE BeginSave(n) \/ EndSave(n) \/ Shutdown(n)
  BY <1>2 DEF BeginSave, EndSave, Shutdown
<1>3. CASE MainReturns(n) \/ Crash(n)
  BY <1>3 DEF MainReturns, Crash, ProcessEnds, NoScores
<1>4. CASE Restart(n)
  BY <1>4 DEF Restart, Loaded, NoScores
<1> QED
  BY <1>1, <1>2, <1>3, <1>4

\* reputer.go:250 "keep the higher score": once no more work is recorded, whatever messages
\* are lost, repeated or reordered and whoever stops and restarts, the karma a running
\* node shows for a peer only rises, and never above the highest there is of it anywhere.
THEOREM KarmaSettles == Spec => GossipSettles
<1> DEFINE A == recorded' = recorded =>
                    \A p \in Peers :
                        /\ \A n \in Nodes : Settles(n, p)
                        /\ \A k \in Nat : AtMost(p, k) => AtMost(p, k)'
<1>1. ASSUME IInv, Next
      PROVE  A
  <2> SUFFICES ASSUME recorded' = recorded, NEW p \in Peers, NEW k \in Nat
               PROVE  /\ \A n \in Nodes : Settles(n, p)
                      /\ AtMost(p, k) => AtMost(p, k)'
    OBVIOUS
  <2>1. recorded \in Nat
    BY <1>1, BoundsAssumption DEF IInv, TypeOK
  <2>2. \A n \in Nodes : /\ \A q \in Peers, ms \in 0 .. MaxTotal : ~ AddContribution(n, q, ms)
                         /\ \A q \in Peers : ~ AddFailure(n, q)
    BY <2>1 DEF AddContribution, AddFailure
  <2> QED
    BY <1>1, <2>2, MergeSettles, PublishSettles, OthersSettle DEF Next
<1>2. IInv /\ [Next]_vars => [A]_vars
  BY <1>1
<1>3. Spec => []IInv
  BY InitHolds, StepHolds, PTL DEF Spec
<1> QED
  BY <1>2, <1>3, PTL DEF Spec, GossipSettles
=============================================================================
