--------------------------- MODULE VerifierProofs ---------------------------
(***************************************************************************)
(* The verdicts of VerifyResults and the audit flags of its statistical    *)
(* re-verification, for any number of providers, answers, requests and     *)
(* concurrent calls; what a checkpoint is bound to; and that the texts     *)
(* that are hashed are those of one result each.                           *)
(***************************************************************************)
EXTENDS ResultHash, Checkpoint, FiniteSetTheorems, SequenceTheorems, WellFoundedInduction,
        TLAPS

\* What a call decided and whom it penalized for it.
VerdictOK ==
    \A c \in Calls :
        /\ Voted(c) => majority[c] \in Majorities(results[c])
        /\ Voted(c) => \A p \in dissented[c] : results[c][p] # majority[c]
        /\ ~ Voted(c) => dissented[c] = {}

IInv == TypeOK /\ VerdictOK /\ FailedFlagJustified

-----------------------------------------------------------------------------
\* The results of a call come from finitely many providers.
LEMMA ResultsFinite ==
  ASSUME NEW rs \in Results
  PROVE  /\ DOMAIN rs \subseteq Providers
         /\ IsFiniteSet(DOMAIN rs)
         /\ \A a : /\ Group(rs, a) \subseteq DOMAIN rs
                   /\ Count(rs, a) \in Nat
<1>1. DOMAIN rs \in SUBSET Providers
  BY DEF Results
<1>2. IsFiniteSet(DOMAIN rs)
  BY <1>1, FS_Subset, ProvidersAssumption
<1>3. ASSUME NEW a
      PROVE  Group(rs, a) \subseteq DOMAIN rs /\ Count(rs, a) \in Nat
  <2>1. Group(rs, a) \in SUBSET (DOMAIN rs)
    BY DEF Group
  <2>2. IsFiniteSet(Group(rs, a))
    BY <2>1, <1>2, FS_Subset
  <2> QED
    BY <2>1, <2>2, FS_CardinalityType DEF Count
<1> QED
  BY <1>1, <1>2, <1>3

\* Of two answers that more than half of the results agree on, there is one.
LEMMA QuorumsAgree ==
  ASSUME NEW rs \in Results, NEW a, NEW b, NEW t \in Nat,
         Count(rs, a) >= t, Count(rs, b) >= t, 2 * t > Cardinality(DOMAIN rs)
  PROVE  a = b
<1>1. /\ IsFiniteSet(DOMAIN rs)
      /\ Group(rs, a) \subseteq DOMAIN rs /\ Group(rs, b) \subseteq DOMAIN rs
      /\ Count(rs, a) \in Nat /\ Count(rs, b) \in Nat
  BY ResultsFinite
<1>2. Cardinality(DOMAIN rs) \in Nat
  BY <1>1, FS_CardinalityType
<1>3. Cardinality(Group(rs, a)) + Cardinality(Group(rs, b)) > Cardinality(DOMAIN rs)
  BY <1>1, <1>2 DEF Count
<1>4. Group(rs, a) \cap Group(rs, b) # {}
  BY <1>1, <1>3, FS_MajoritiesIntersect
<1> QED
  BY <1>4 DEF Group

\* What every majority of the results is.
LEMMA MajorityReached ==
  ASSUME NEW rs \in Results, NEW m \in Majorities(rs), NEW a \in Answers,
         NEW t \in Nat, Count(rs, a) >= t, 2 * t > Cardinality(DOMAIN rs)
  PROVE  m = a
<1>1. Count(rs, m) >= Count(rs, a)
  BY DEF Majorities
<1>2. Count(rs, m) >= t
  BY <1>1, ResultsFinite
<1> QED
  BY <1>2, QuorumsAgree

-----------------------------------------------------------------------------
LEMMA InitHolds == Init => IInv
<1> SUFFICES ASSUME Init PROVE IInv
  OBVIOUS
<1>1. NoResults \in Results
  <2>1. NoResults \in [{} -> Answers]
    BY DEF NoResults
  <2> QED
    BY <2>1 DEF Results
<1>2. TypeOK
  BY <1>1 DEF Init, TypeOK, Voted
<1> QED
  BY <1>2 DEF Init, IInv, VerdictOK, FailedFlagJustified, Voted

\* VerifyResults up to the recording of the challenge.
LEMMA VerdictHolds ==
  ASSUME IInv, NEW c \in Calls,
         \/ \E r \in Requests, rs \in Results, t \in Thresholds : VerifyResults(c, r, rs, t)
         \/ \E rs \in Results, t \in Thresholds : Insufficient(c, rs, t)
         \/ PenalizeDissenters(c)
         \/ CreditMajority(c)
  PROVE  IInv'
<1> USE DEF IInv, TypeOK, Voted, args, verdict, rerun
<1>1. ASSUME NEW r \in Requests, NEW rs \in Results, NEW t \in Thresholds,
             VerifyResults(c, r, rs, t)
      PROVE  IInv'
  <2>1. PICK a \in Majorities(rs) : majority' = [majority EXCEPT ![c] = a]
    BY <1>1 DEF VerifyResults
  <2>2. a \in Answers
    BY DEF Majorities
  <2>3. TypeOK'
    BY <1>1, <2>1, <2>2, ThresholdsAssumption DEF VerifyResults
  <2>4. VerdictOK'
    <3> SUFFICES ASSUME NEW d \in Calls
                 PROVE  VerdictOK!(d)'
      BY DEF VerdictOK
    <3>1. CASE d = c
      BY <1>1, <2>1, <3>1 DEF VerifyResults, VerdictOK
    <3>2. CASE d # c
      BY <1>1, <2>1, <3>2 DEF VerifyResults, VerdictOK
    <3> QED
      BY <3>1, <3>2
  <2>5. FailedFlagJustified'
    BY <1>1, <2>1 DEF VerifyResults, FailedFlagJustified, Matches
  <2> QED
    BY <2>3, <2>4, <2>5
<1>2. ASSUME NEW rs \in Results, NEW t \in Thresholds, Insufficient(c, rs, t)
      PROVE  IInv'
  BY <1>2 DEF Insufficient, VerdictOK, FailedFlagJustified, Matches
<1>3. CASE PenalizeDissenters(c)
  <2>1. \A d \in Calls : DOMAIN results[d] \subseteq Providers
    BY ResultsFinite
  <2>2. TypeOK'
    BY <1>3, <2>1 DEF PenalizeDissenters
  <2> QED
    BY <1>3, <2>2 DEF PenalizeDissenters, VerdictOK, FailedFlagJustified, Matches
<1>4. CASE CreditMajority(c)
  <2>1. \A d \in Calls : Group(results[d], majority[d]) \subseteq Providers
    BY ResultsFinite
  <2>2. TypeOK'
    BY <1>4, <2>1 DEF CreditMajority
  <2> QED
    BY <1>4, <2>2 DEF CreditMajority, VerdictOK, FailedFlagJustified, Matches
<1> QED
  BY <1>1, <1>2, <1>3, <1>4

\* The recording, and the goroutine that it may start.
LEMMA SamplingHolds ==
  ASSUME IInv, NEW c \in Calls,
         \/ RecordVerification(c)
         \/ ReExecutionFails(c)
         \/ \E ps \in SUBSET Providers \ {{}}, a \in Answers : ReExecuted(c, ps, a)
         \/ Compare(c)
         \/ StoreVerification(c)
  PROVE  IInv'
<1> USE DEF IInv, TypeOK, Voted, args, verdict, rerun
<1>1. CASE RecordVerification(c)
  <2>1. [by |-> c, verified |-> TRUE] \in Challenges /\ request[c] \in Requests
    BY <1>1 DEF RecordVerification, Challenges
  <2>2. TypeOK'
    BY <1>1, <2>1 DEF RecordVerification, Recorded
  <2>3. FailedFlagJustified'
    BY <1>1, <2>1 DEF RecordVerification, Recorded, FailedFlagJustified, Matches
  <2> QED
    BY <1>1, <2>2, <2>3 DEF RecordVerification, VerdictOK
<1>2. CASE ReExecutionFails(c)
  BY <1>2 DEF ReExecutionFails, VerdictOK, FailedFlagJustified, Matches
<1>3. ASSUME NEW ps \in SUBSET Providers, NEW a \in Answers, ReExecuted(c, ps, a)
      PROVE  IInv'
  BY <1>3 DEF ReExecuted, VerdictOK, FailedFlagJustified, Matches
<1>4. CASE Compare(c)
  <2>1. \A d \in Calls : DOMAIN results[d] \subseteq Providers
    BY ResultsFinite
  <2>2. TypeOK'
    BY <1>4, <2>1 DEF Compare
  <2> QED
    BY <1>4, <2>2 DEF Compare, VerdictOK, FailedFlagJustified, Matches
<1>5. CASE StoreVerification(c)
  <2>1. Voted(c) /\ request[c] \in Requests /\ sampler[c] = "store"
    BY <1>5 DEF StoreVerification
  <2>2. Flag(c) \in BOOLEAN
    BY DEF Flag, Matches
  <2>3. pendingChallenges' \in [Requests -> Challenges \cup {None}]
    BY <1>5, <2>1, <2>2, NoneAssumption DEF StoreVerification, Challenges
  <2>4. TypeOK'
    BY <1>5, <2>3 DEF StoreVerification
  <2>5. FailedFlagJustified'
    <3> SUFFICES ASSUME NEW r \in Requests, pendingChallenges'[r] # None,
                        ~ pendingChallenges'[r].verified
                 PROVE  \E d \in Calls : /\ request'[d] = r /\ sampler'[d] = "ended"
                                         /\ ~ Matches(d)'
      BY DEF FailedFlagJustified
    <3>1. CASE r = request[c]
      <4>1. pendingChallenges[r] # None
        BY <1>5, <3>1 DEF StoreVerification
      <4>2. pendingChallenges'[r].verified = Flag(c)
        BY <1>5, <3>1, <4>1, <2>2 DEF StoreVerification, Challenges
      <4>3. ~ Matches(c)
        BY <4>2 DEF Flag
      <4> QED
        BY <1>5, <3>1, <4>3 DEF StoreVerification, Matches
    <3>2. CASE r # request[c]
      <4>1. pendingChallenges'[r] = pendingChallenges[r]
        BY <1>5, <3>2, <2>1 DEF StoreVerification
      <4> QED
        BY <1>5, <4>1 DEF StoreVerification, FailedFlagJustified, Matches
    <3> QED
      BY <3>1, <3>2
  <2> QED
    BY <1>5, <2>4, <2>5 DEF StoreVerification, VerdictOK
<1> QED
  BY <1>1, <1>2, <1>3, <1>4, <1>5

LEMMA StepHolds == IInv /\ [Next]_vars => IInv'
<1> SUFFICES ASSUME IInv, [Next]_vars PROVE IInv'
  OBVIOUS
<1>1. CASE UNCHANGED vars
  BY <1>1 DEF vars, args, verdict, rerun, IInv, TypeOK, VerdictOK, FailedFlagJustified,
     Voted, Matches
<1>2. CASE Next
  BY <1>2, VerdictHolds, SamplingHolds DEF Next
<1> QED
  BY <1>1, <1>2

LEMMA InvariantHolds == Spec => []IInv
BY InitHolds, StepHolds, PTL DEF Spec

\* The verifier, its calls and their re-verifications keep their types.
THEOREM VerifierTypes == Spec => []TypeOK
<1>1. IInv => TypeOK
  BY DEF IInv
<1> QED
  BY InvariantHolds, <1>1, PTL

\* An answer that a threshold of more than half of the results agrees on wins,
\* in whatever order the map of groups is visited, and its providers are not
\* penalized.
THEOREM QuorumsWin == Spec => []QuorumWins
<1>1. IInv => QuorumWins
  <2> SUFFICES ASSUME IInv, NEW c \in Calls, NEW a \in Answers, Voted(c),
                      Count(results[c], a) >= threshold[c],
                      2 * threshold[c] > Cardinality(DOMAIN results[c])
               PROVE  /\ majority[c] = a
                      /\ ConsensusAchieved(c)
                      /\ dissented[c] \cap Group(results[c], a) = {}
    BY DEF QuorumWins
  <2>1. results[c] \in Results /\ threshold[c] \in Nat
    BY DEF IInv, TypeOK
  <2>2. majority[c] \in Majorities(results[c])
    BY DEF IInv, VerdictOK
  <2>3. majority[c] = a
    BY <2>1, <2>2, MajorityReached
  <2>4. ConsensusAchieved(c)
    BY <2>3 DEF ConsensusAchieved
  <2>5. dissented[c] \cap Group(results[c], a) = {}
    BY <2>3 DEF IInv, VerdictOK, Group
  <2> QED
    BY <2>3, <2>4, <2>5
<1> QED
  BY InvariantHolds, <1>1, PTL

\* A challenge is marked as failed only by a re-execution of its request that
\* disagreed.
THEOREM FailedFlagsAreJustified == Spec => []FailedFlagJustified
<1>1. IInv => FailedFlagJustified
  BY DEF IInv
<1> QED
  BY InvariantHolds, <1>1, PTL

-----------------------------------------------------------------------------
Alone(c) == \A d \in Calls : pc[d] = "returned" /\ request[d] = request[c] => d = c

\* What the challenge of a request says while one call only has recorded it.
AuditOK ==
    \A c \in Calls :
        /\ sampler[c] \in {"none", "executing"} => reAnswer[c] = None
        /\ pc[c] = "returned" /\ Alone(c) =>
             /\ pendingChallenges[request[c]] \in Challenges
             /\ pendingChallenges[request[c]].by = c
             /\ sampler[c] = "ended" /\ reAnswer[c] # None =>
                  pendingChallenges[request[c]].verified = Matches(c)

LEMMA AuditStarts == Init => AuditOK
BY DEF Init, AuditOK

\* A call that has not recorded anything leaves the audits alone.
LEMMA AuditUnrecorded ==
  ASSUME IInv, AuditOK, NEW c \in Calls, pc[c] # "returned", pc'[c] # "returned",
         \A d \in Calls \ {c} : /\ pc'[d] = pc[d] /\ request'[d] = request[d]
                               /\ majority'[d] = majority[d],
         UNCHANGED <<sampler, reAnswer, pendingChallenges>>
  PROVE  AuditOK'
<1> SUFFICES ASSUME NEW d \in Calls PROVE AuditOK!(d)'
  BY DEF AuditOK
<1>1. sampler[c] = "none"
  BY DEF IInv, TypeOK
<1>2. CASE d = c
  BY <1>1, <1>2 DEF AuditOK
<1>3. ASSUME d # c, Alone(d)', pc'[d] = "returned" PROVE Alone(d)
  BY <1>3 DEF Alone
<1>4. CASE d # c
  BY <1>3, <1>4 DEF AuditOK, Matches
<1> QED
  BY <1>2, <1>4

LEMMA AuditHolds == IInv /\ AuditOK /\ [Next]_vars => AuditOK'
<1> SUFFICES ASSUME IInv, AuditOK, [Next]_vars PROVE AuditOK'
  OBVIOUS
<1>1. TypeOK
  BY DEF IInv
<1> USE DEF args, verdict, rerun
<1>2. CASE UNCHANGED vars
  BY <1>2 DEF vars, AuditOK, Alone, Matches
<1>3. ASSUME NEW c \in Calls,
             \/ \E r \in Requests, rs \in Results, t \in Thresholds : VerifyResults(c, r, rs, t)
             \/ \E rs \in Results, t \in Thresholds : Insufficient(c, rs, t)
             \/ PenalizeDissenters(c)
             \/ CreditMajority(c)
      PROVE  AuditOK'
  <2>1. pc[c] # "returned" /\ pc'[c] # "returned"
    BY <1>1, <1>3
    DEF TypeOK, VerifyResults, Insufficient, PenalizeDissenters, CreditMajority
  <2>2. \A d \in Calls \ {c} : /\ pc'[d] = pc[d] /\ request'[d] = request[d]
                               /\ majority'[d] = majority[d]
    BY <1>1, <1>3
    DEF TypeOK, VerifyResults, Insufficient, PenalizeDissenters, CreditMajority
  <2>3. UNCHANGED <<sampler, reAnswer, pendingChallenges>>
    BY <1>3 DEF VerifyResults, Insufficient, PenalizeDissenters, CreditMajority
  <2> QED
    BY <2>1, <2>2, <2>3, AuditUnrecorded
<1>4. ASSUME NEW c \in Calls, RecordVerification(c)
      PROVE  AuditOK'
  <2>1. request[c] \in Requests /\ sampler[c] = "none"
    BY <1>1, <1>4 DEF TypeOK, RecordVerification, Voted
  <2>2. pendingChallenges'[request[c]] = [by |-> c, verified |-> TRUE]
    BY <1>1, <1>4, <2>1 DEF TypeOK, RecordVerification, Recorded
  <2> SUFFICES ASSUME NEW d \in Calls PROVE AuditOK!(d)'
    BY DEF AuditOK
  <2>3. CASE d = c
    <3>1. sampler'[c] # "ended"
      BY <1>1, <1>4 DEF TypeOK, RecordVerification
    <3>2. reAnswer'[c] = None /\ request'[c] = request[c]
      BY <1>4, <2>1 DEF RecordVerification, AuditOK
    <3>3. [by |-> c, verified |-> TRUE] \in Challenges
      BY DEF Challenges
    <3> QED
      BY <2>2, <2>3, <3>1, <3>2, <3>3
  <2>4. CASE d # c
    <3>1. pc'[d] = pc[d] /\ sampler'[d] = sampler[d] /\ UNCHANGED <<request, reAnswer, majority>>
      BY <1>1, <1>4, <2>4 DEF TypeOK, RecordVerification
    <3>2. ASSUME pc[d] = "returned", Alone(d)'
          PROVE  Alone(d) /\ pendingChallenges'[request[d]] = pendingChallenges[request[d]]
      <4>1. request[c] # request[d] /\ pc'[c] = "returned"
        BY <1>1, <1>4, <2>4, <3>2 DEF TypeOK, RecordVerification, Alone
      <4>2. Alone(d)
        BY <1>1, <1>4, <3>2 DEF TypeOK, RecordVerification, Alone
      <4> QED
        BY <1>1, <1>4, <4>1, <4>2 DEF TypeOK, RecordVerification, Recorded
    <3> QED
      BY <3>1, <3>2 DEF AuditOK, Matches
  <2> QED
    BY <2>3, <2>4
<1>5. ASSUME NEW c \in Calls,
             \/ ReExecutionFails(c)
             \/ \E ps \in SUBSET Providers \ {{}}, a \in Answers : ReExecuted(c, ps, a)
             \/ Compare(c)
      PROVE  AuditOK'
  <2>1. UNCHANGED <<pc, request, majority, pendingChallenges>>
    BY <1>5 DEF ReExecutionFails, ReExecuted, Compare
  <2>2. \A d \in Calls \ {c} : sampler'[d] = sampler[d] /\ reAnswer'[d] = reAnswer[d]
    BY <1>1, <1>5 DEF TypeOK, ReExecutionFails, ReExecuted, Compare
  <2>3. \/ sampler'[c] \in {"compare", "store"}
        \/ sampler'[c] = "ended" /\ reAnswer'[c] = None
    BY <1>1, <1>5 DEF TypeOK, ReExecutionFails, ReExecuted, Compare, AuditOK
  <2> SUFFICES ASSUME NEW d \in Calls PROVE AuditOK!(d)'
    BY DEF AuditOK
  <2>4. Alone(d)' = Alone(d)
    BY <2>1 DEF Alone
  <2>5. CASE d = c
    BY <2>1, <2>3, <2>4, <2>5 DEF AuditOK
  <2>6. CASE d # c
    BY <2>1, <2>2, <2>4, <2>6 DEF AuditOK, Matches
  <2> QED
    BY <2>5, <2>6
<1>6. ASSUME NEW c \in Calls, StoreVerification(c)
      PROVE  AuditOK'
  <2>1. pc[c] = "returned" /\ request[c] \in Requests
    BY <1>1, <1>6 DEF TypeOK, StoreVerification, Voted
  <2>2. Flag(c) = Matches(c) /\ Flag(c) \in BOOLEAN
    BY DEF Flag, Matches
  <2> SUFFICES ASSUME NEW d \in Calls PROVE AuditOK!(d)'
    BY DEF AuditOK
  <2>3. UNCHANGED <<pc, request, majority, reAnswer>>
    BY <1>6 DEF StoreVerification
  <2>4. Alone(d)' = Alone(d) /\ Matches(d)' = Matches(d)
    BY <2>3 DEF Alone, Matches
  <2>5. CASE d = c
    <3>1. ASSUME Alone(c)
          PROVE  pendingChallenges'[request[c]] = [by |-> c, verified |-> Flag(c)]
      <4>1. /\ pendingChallenges[request[c]] \in Challenges
            /\ pendingChallenges[request[c]].by = c
        BY <2>1, <3>1 DEF AuditOK
      <4>2. pendingChallenges[request[c]] # None
        BY <4>1, NoneAssumption DEF Challenges
      <4> QED
        BY <1>1, <1>6, <2>1, <4>1, <4>2 DEF TypeOK, StoreVerification
    <3>2. sampler'[c] = "ended"
      BY <1>1, <1>6 DEF TypeOK, StoreVerification
    <3> QED
      BY <2>1, <2>2, <2>3, <2>4, <2>5, <3>1, <3>2 DEF Challenges
  <2>6. CASE d # c
    <3>1. sampler'[d] = sampler[d]
      BY <1>1, <1>6, <2>6 DEF TypeOK, StoreVerification
    <3>2. ASSUME pc[d] = "returned", Alone(d)
          PROVE  pendingChallenges'[request[d]] = pendingChallenges[request[d]]
      <4>1. request[c] # request[d]
        BY <2>1, <2>6, <3>2 DEF Alone
      <4> QED
        BY <1>1, <1>6, <4>1 DEF TypeOK, StoreVerification
    <3> QED
      BY <2>3, <2>4, <3>1, <3>2 DEF AuditOK
  <2> QED
    BY <2>5, <2>6
<1> QED
  BY <1>2, <1>3, <1>4, <1>5, <1>6 DEF Next

\* When a request was verified by one call only, its audit flag is final after
\* the re-verification and says whether the re-execution agreed, whatever the
\* calls and goroutines of other requests do in the meantime.
THEOREM SingleAuditsAreExact == Spec => []SingleAuditExact
<1>1. IInv /\ AuditOK => SingleAuditExact
  <2> SUFFICES ASSUME IInv, AuditOK, NEW c \in Calls, sampler[c] = "ended",
                      reAnswer[c] # None, RecordedOn(request[c]) = {c}
               PROVE  pendingChallenges[request[c]] = [by |-> c, verified |-> Matches(c)]
    BY DEF SingleAuditExact
  <2>1. pc[c] = "returned" /\ Alone(c)
    BY DEF RecordedOn, Alone
  <2>2. /\ pendingChallenges[request[c]] \in Challenges
        /\ pendingChallenges[request[c]].by = c
        /\ pendingChallenges[request[c]].verified = Matches(c)
    BY <2>1 DEF AuditOK
  <2> QED
    BY <2>2 DEF Challenges
<1>2. Spec => []AuditOK
  BY InitHolds, StepHolds, AuditStarts, AuditHolds, PTL DEF Spec
<1> QED
  BY InvariantHolds, <1>1, <1>2, PTL

-----------------------------------------------------------------------------
\* A signed checkpoint is bound to the weights of its range of layers, the last
\* one included: it passes for weights that have all these layers as they were
\* when it was created, and for no others.  A layer that was missing then counts
\* as an empty one.
THEOREM CheckpointsBind ==
  ASSUME NEW range, NEW w, NEW v
  PROVE  VerifyCheckpoint(Sign(CreateCheckpoint(range, w)), v) <=>
           \A i \in Committed(range) : i \in DOMAIN v /\ v[i] = WeightsAt(w, i)
<1> DEFINE cp == Sign(CreateCheckpoint(range, w))
<1>1. /\ cp.signed /\ cp.range = range
      /\ cp.root = [i \in Committed(range) |-> WeightsAt(w, i)]
  BY DEF Sign, CreateCheckpoint
<1> HIDE DEF cp
<1>2. VerifyCheckpoint(cp, v) <=>
        /\ Committed(range) \subseteq DOMAIN v
        /\ [i \in Committed(range) |-> WeightsAt(w, i)] = [i \in Committed(range) |-> v[i]]
  BY <1>1 DEF VerifyCheckpoint
<1>3. VerifyCheckpoint(cp, v) <=>
        \A i \in Committed(range) : i \in DOMAIN v /\ v[i] = WeightsAt(w, i)
  BY <1>2
<1> QED
  BY <1>3 DEF cp

-----------------------------------------------------------------------------
\* Induction over the numbers, for a set of them: what holds of 0, and of n + 1 if it
\* holds of n.
LEMMA SetInduction ==
  ASSUME NEW S, 0 \in S, \A n \in Nat : n \in S => n + 1 \in S
  PROVE  Nat \subseteq S
<1> DEFINE Rest == Nat \ S
           Less == {ss \in Nat \X Nat : ss[1] < ss[2]}
<1> SUFFICES ASSUME Rest # {} PROVE FALSE
  OBVIOUS
<1>1. PICK x \in Rest : \A y \in Rest : ~ (<<y, x>> \in Less)
  <2>1. Rest \subseteq Nat
    OBVIOUS
  <2>2. IsWellFoundedOn(Less, Nat)
    BY NatLessThanWellFounded DEF OpToRel
  <2> HIDE DEF Rest, Less
  <2> QED
    BY <2>1, <2>2, WFMin
<1>2. x # 0 /\ x - 1 \in Nat /\ <<x - 1, x>> \in Less
  OBVIOUS
<1>3. x - 1 \in S
  BY <1>1, <1>2
<1> QED
  BY <1>2, <1>3

\* The states of a loop that goes n times around from a start, by a step for each
\* time: there are some, that is the recursive definition of them has a value.
Runs(S, start, step, n) ==
    {f \in [0 .. n -> S] : \A i \in 0 .. n : f[i] = IF i = 0 THEN start ELSE step[i][f[i - 1]]}

LEMMA LoopHasRuns ==
  ASSUME NEW S, NEW start \in S, NEW step \in [Nat -> [S -> S]], NEW n \in Nat
  PROVE  Runs(S, start, step, n) # {}
<1> DEFINE States(f, k) ==
             \A i \in 0 .. k : f[i] = IF i = 0 THEN start ELSE step[i][f[i - 1]]
           Finite == {k \in Nat : \E f \in [0 .. k -> S] : States(f, k)}
<1>1. 0 \in Finite
  <2> DEFINE f == [i \in 0 .. 0 |-> start]
  <2>1. f \in [0 .. 0 -> S] /\ \A i \in 0 .. 0 : i = 0 /\ f[i] = start
    OBVIOUS
  <2> HIDE DEF f
  <2>2. States(f, 0)
    BY <2>1
  <2> QED
    BY <2>1, <2>2
<1>2. ASSUME NEW k \in Nat, k \in Finite PROVE k + 1 \in Finite
  <2>1. PICK f \in [0 .. k -> S] : States(f, k)
    BY <1>2
  <2>2. PICK next \in S : next = step[k + 1][f[k]]
    <3>1. k + 1 \in Nat /\ f[k] \in S
      OBVIOUS
    <3>2. step[k + 1] \in [S -> S]
      BY <3>1
    <3> QED
      BY <3>1, <3>2
  <2> DEFINE g == [i \in 0 .. k + 1 |-> IF i \in 0 .. k THEN f[i] ELSE next]
  <2>3. /\ g \in [0 .. k + 1 -> S] /\ g[k + 1] = next
        /\ \A i \in 0 .. k : g[i] = f[i]
    <3>1. k + 1 \in 0 .. k + 1 /\ k + 1 \notin 0 .. k
      OBVIOUS
    <3>2. \A i \in 0 .. k : i \in 0 .. k + 1
      OBVIOUS
    <3>3. \A i \in 0 .. k + 1 : i \in 0 .. k \/ i = k + 1
      OBVIOUS
    <3> QED
      BY <3>1, <3>2, <3>3
  <2> HIDE DEF g
  <2>4. ASSUME NEW i \in 0 .. k + 1
        PROVE  g[i] = IF i = 0 THEN start ELSE step[i][g[i - 1]]
    <3>1. CASE i \in 0 .. k
      <4>1. f[i] = IF i = 0 THEN start ELSE step[i][f[i - 1]]
        BY <2>1, <3>1
      <4>2. i # 0 => i - 1 \in 0 .. k
        BY <3>1
      <4> HIDE DEF States
      <4> QED
        BY <2>3, <3>1, <4>1, <4>2
    <3>2. CASE i = k + 1
      <4>1. i # 0 /\ i - 1 = k /\ k \in 0 .. k
        BY <3>2
      <4> HIDE DEF States
      <4> QED
        BY <2>2, <2>3, <3>2, <4>1
    <3>3. i \in 0 .. k \/ i = k + 1
      OBVIOUS
    <3> QED
      BY <3>1, <3>2, <3>3
  <2>5. States(g, k + 1)
    BY <2>4
  <2>6. k + 1 \in Nat
    OBVIOUS
  <2> HIDE DEF States
  <2> QED
    BY <2>3, <2>5, <2>6
<1>3. n \in Finite
  <2> HIDE DEF Finite
  <2> QED
    BY <1>1, <1>2, SetInduction
<1> QED
  BY <1>3 DEF Runs

\* What FlattenSeq computes: the concatenations of the first sequences, one by one.
LEMMA Flattens ==
  ASSUME NEW A, NEW s \in Seq(Seq(A)), Len(s) > 0
  PROVE  \E g \in [1 .. Len(s) -> Seq(A)] :
            /\ g[1] = s[1] /\ \A i \in 1 .. Len(s) - 1 : g[i + 1] = g[i] \o s[i + 1]
            /\ FlattenSeq(s) = g[Len(s)]
<1> DEFINE n == Len(s)
           flatten[i \in 1 .. Len(s)] == IF i = 1 THEN s[i] ELSE flatten[i - 1] \o s[i]
           Flatten(g) == g = [i \in 1 .. Len(s) |-> IF i = 1 THEN s[i] ELSE g[i - 1] \o s[i]]
<1>1. n \in Nat \ {0} /\ \A i \in 1 .. n : s[i] \in Seq(A)
  OBVIOUS
<1>2. FlattenSeq(s) = flatten[n]
  BY <1>1 DEF FlattenSeq
<1>3. flatten = CHOOSE g : Flatten(g)
  OBVIOUS
<1>4. \E g : Flatten(g)
  <2> DEFINE step == [i \in Nat |-> [x \in Seq(A) |->
                        IF i \in 1 .. n THEN (IF i = 1 THEN s[1] ELSE x \o s[i]) ELSE <<>>]]
  <2>1. ASSUME NEW i \in Nat, NEW x \in Seq(A)
        PROVE  (IF i \in 1 .. n THEN (IF i = 1 THEN s[1] ELSE x \o s[i]) ELSE <<>>) \in Seq(A)
    <3>1. CASE i \in 1 .. n
      <4>1. s[i] \in Seq(A)
        BY <1>1, <3>1
      <4>2. x \o s[i] \in Seq(A)
        BY <4>1, ConcatProperties
      <4> QED
        BY <3>1, <4>1, <4>2
    <3>2. CASE i \notin 1 .. n
      BY <3>2
    <3> QED
      BY <3>1, <3>2
  <2>2. /\ step \in [Nat -> [Seq(A) -> Seq(A)]]
        /\ \A i \in 1 .. n, x \in Seq(A) : step[i][x] = IF i = 1 THEN s[1] ELSE x \o s[i]
    BY <1>1, <2>1
  <2> HIDE DEF step
  <2>3. PICK f \in [0 .. n -> Seq(A)] :
           \A i \in 0 .. n : f[i] = IF i = 0 THEN <<>> ELSE step[i][f[i - 1]]
    <3> DEFINE T == Seq(A)
    <3>1. <<>> \in T /\ n \in Nat /\ step \in [Nat -> [T -> T]]
      BY <1>1, <2>2
    <3>2. Runs(T, <<>>, step, n) # {}
      <4> HIDE DEF T, n
      <4> QED
        BY <3>1, LoopHasRuns
    <3> QED
      BY <3>2 DEF Runs
  <2> DEFINE g == [i \in 1 .. Len(s) |-> f[i]]
  <2>4. ASSUME NEW i \in 1 .. n
        PROVE  g[i] = IF i = 1 THEN s[i] ELSE g[i - 1] \o s[i]
    <3>1. i \in 0 .. n /\ i # 0 /\ i - 1 \in 0 .. n /\ f[i - 1] \in Seq(A)
      <4>1. i \in 0 .. n /\ i # 0 /\ i - 1 \in 0 .. n
        <5> HIDE DEF n
        <5> QED
          BY <1>1
      <4> QED
        BY <4>1
    <3>2. f[i] = step[i][f[i - 1]]
      BY <2>3, <3>1
    <3>3. f[i] = IF i = 1 THEN s[1] ELSE f[i - 1] \o s[i]
      BY <2>2, <3>1, <3>2
    <3>4. i # 1 => i - 1 \in 1 .. n
      BY <1>1
    <3> QED
      BY <3>3, <3>4
  <2>5. g = [i \in 1 .. Len(s) |-> g[i]]
    OBVIOUS
  <2> HIDE DEF g
  <2>6. Flatten(g)
    BY <2>4, <2>5
  <2> QED
    BY <2>6
<1> HIDE DEF flatten
<1>5. Flatten(flatten)
  <2> HIDE DEF Flatten
  <2> QED
    BY <1>3, <1>4, Zenon
<1>6. /\ DOMAIN flatten = 1 .. n
      /\ flatten[1] = s[1] /\ \A i \in 1 .. n - 1 : flatten[i + 1] = flatten[i] \o s[i + 1]
      /\ flatten = [i \in 1 .. n |-> flatten[i]]
  <2>1. ASSUME NEW i \in 1 .. n - 1 PROVE i + 1 \in 1 .. n /\ i + 1 # 1 /\ (i + 1) - 1 = i
    BY <1>1
  <2>2. ASSUME NEW i \in 1 .. n
        PROVE  flatten[i] = IF i = 1 THEN s[i] ELSE flatten[i - 1] \o s[i]
    BY <1>5
  <2>3. DOMAIN flatten = 1 .. n
    BY <1>5
  <2>4. flatten = [i \in 1 .. n |-> flatten[i]]
    BY <1>5
  <2>5. 1 \in 1 .. n
    BY <1>1
  <2> HIDE DEF Flatten
  <2> QED
    BY <2>1, <2>2, <2>3, <2>4, <2>5
<1> HIDE DEF Flatten
<1>7. \A i \in 1 .. n : flatten[i] \in Seq(A)
  <2> DEFINE Good == {k \in Nat : k \in 1 .. n => flatten[k] \in Seq(A)}
  <2>1. 0 \in Good
    OBVIOUS
  <2>2. ASSUME NEW k \in Nat, k \in Good PROVE k + 1 \in Good
    <3>1. SUFFICES ASSUME k + 1 \in 1 .. n PROVE flatten[k + 1] \in Seq(A)
      OBVIOUS
    <3>2. CASE k = 0
      BY <1>1, <1>6, <3>1, <3>2
    <3>3. CASE k # 0
      <4>1. k \in 1 .. n - 1 /\ k \in 1 .. n
        BY <1>1, <3>1, <3>3
      <4>2. flatten[k] \in Seq(A) /\ s[k + 1] \in Seq(A)
        BY <1>1, <2>2, <3>1, <4>1
      <4>3. flatten[k + 1] = flatten[k] \o s[k + 1]
        BY <1>6, <4>1
      <4> QED
        BY <4>2, <4>3, ConcatProperties
    <3> QED
      BY <3>2, <3>3
  <2>3. Nat \subseteq Good
    <3> HIDE DEF Good
    <3> QED
      BY <2>1, <2>2, SetInduction
  <2> QED
    BY <1>1, <2>3
<1>8. flatten \in [1 .. n -> Seq(A)]
  BY <1>6, <1>7
<1> QED
  BY <1>2, <1>6, <1>8

-----------------------------------------------------------------------------
\* The decimals of a number, by the recursive definition, and that numbers that
\* differ have others.
Decimals(f, n) ==
    \A k \in 0 .. n : f[k] = IF k < 10 THEN <<k>> ELSE Append(f[k \div 10], k % 10)

LEMMA Tenth ==
  ASSUME NEW k \in Nat
  PROVE  /\ k \div 10 \in Nat /\ k % 10 \in 0 .. 9 /\ k = 10 * (k \div 10) + (k % 10)
         /\ k >= 10 => k \div 10 < k
OBVIOUS

\* What a sequence ends in, and what is in front of it.
LEMMA Ends ==
  ASSUME NEW A, NEW v \in Seq(A) \ {<<>>}, NEW w \in Seq(A) \ {<<>>}, NEW x \in A, NEW y \in A
  PROVE  /\ Append(v, x) \in Seq(A) \ {<<>>}
         /\ Len(Append(v, x)) # 1
         /\ Append(v, x) = Append(w, y) => v = w /\ x = y
<1>1. /\ Append(v, x) \in Seq(A) /\ Append(w, y) \in Seq(A)
      /\ Len(Append(v, x)) = Len(v) + 1 /\ Len(Append(w, y)) = Len(w) + 1
      /\ Append(v, x)[Len(v) + 1] = x /\ Append(w, y)[Len(w) + 1] = y
      /\ \A k \in 1 .. Len(v) : Append(v, x)[k] = v[k]
      /\ \A k \in 1 .. Len(w) : Append(w, y)[k] = w[k]
  BY AppendProperties
<1>2. Len(v) \in Nat /\ Len(v) # 0 /\ Len(w) \in Nat /\ Len(w) # 0
  BY EmptySeq
<1>3. Append(v, x) # <<>>
  BY <1>1, <1>2
<1>4. Len(Append(v, x)) # 1
  BY <1>1, <1>2
<1>5. ASSUME Append(v, x) = Append(w, y) PROVE v = w /\ x = y
  <2> DEFINE a == Append(v, x)
             b == Append(w, y)
  <2>1. a = b
    BY <1>5
  <2> HIDE DEF a, b
  <2>2. /\ Len(a) = Len(v) + 1 /\ Len(b) = Len(w) + 1
        /\ a[Len(v) + 1] = x /\ b[Len(w) + 1] = y
        /\ \A k \in 1 .. Len(v) : a[k] = v[k]
        /\ \A k \in 1 .. Len(w) : b[k] = w[k]
    BY <1>1 DEF a, b
  <2>3. Len(v) = Len(w)
    BY <1>2, <2>1, <2>2
  <2>4. x = y
    BY <2>1, <2>2, <2>3
  <2>5. \A k \in 1 .. Len(v) : v[k] = w[k]
    BY <2>1, <2>2, <2>3
  <2>6. v = w
    BY <2>3, <2>5, SeqEqual
  <2> QED
    BY <2>4, <2>6
<1> QED
  BY <1>1, <1>3, <1>4, <1>5

LEMMA DigitsExist ==
  ASSUME NEW n \in Nat
  PROVE  \E f \in [0 .. n -> Seq(0 .. 9) \ {<<>>}] : Decimals(f, n)
<1> DEFINE T == Seq(0 .. 9) \ {<<>>}
           S == {k \in Nat : \E f \in [0 .. k -> T] : Decimals(f, k)}
<1>1. 0 \in S
  <2> DEFINE f == [k \in 0 .. 0 |-> <<0>>]
  <2>1. f \in [0 .. 0 -> T] /\ \A k \in 0 .. 0 : k = 0 /\ f[k] = <<0>>
    <3>1. <<0>> \in T
      OBVIOUS
    <3> HIDE DEF T
    <3> QED
      BY <3>1
  <2> HIDE DEF f
  <2>2. ASSUME NEW k \in 0 .. 0
        PROVE  f[k] = IF k < 10 THEN <<k>> ELSE Append(f[k \div 10], k % 10)
    <3>1. k = 0 /\ f[k] = <<0>>
      BY <2>1
    <3>2. k < 10 /\ <<k>> = <<0>>
      BY <3>1
    <3> QED
      BY <3>1, <3>2
  <2>3. Decimals(f, 0)
    BY <2>2 DEF Decimals
  <2> QED
    BY <2>1, <2>3
<1>2. ASSUME NEW k \in Nat, k \in S PROVE k + 1 \in S
  <2>1. PICK f \in [0 .. k -> T] : Decimals(f, k)
    BY <1>2
  <2> DEFINE m == (k + 1) \div 10
             d == (k + 1) % 10
  <2>2. m \in 0 .. k /\ d \in 0 .. 9
    BY Tenth
  <2>3. PICK w \in T : w = IF k + 1 < 10 THEN <<k + 1>> ELSE Append(f[m], d)
    <3>1. f[m] \in T
      BY <2>2
    <3>2. Append(f[m], d) \in T
      <4> DEFINE D == 0 .. 9
                 a == f[m]
      <4>1. a \in Seq(D) \ {<<>>} /\ d \in D
        BY <2>2, <3>1
      <4> HIDE DEF D, a, d
      <4>2. Append(a, d) \in Seq(D) /\ Append(a, d) # <<>>
        BY <4>1, Ends
      <4> QED
        BY <4>2 DEF D, a
    <3>3. k + 1 < 10 => <<k + 1>> \in T
      OBVIOUS
    <3> HIDE DEF T, m, d
    <3> QED
      BY <3>2, <3>3
  <2> DEFINE g == [i \in 0 .. k + 1 |-> IF i \in 0 .. k THEN f[i] ELSE w]
  <2>4. g \in [0 .. k + 1 -> T] /\ g[k + 1] = w /\ \A i \in 0 .. k : g[i] = f[i]
    <3>1. /\ k + 1 \in 0 .. k + 1 /\ k + 1 \notin 0 .. k
          /\ \A i \in 0 .. k : i \in 0 .. k + 1
          /\ \A i \in 0 .. k + 1 : i \in 0 .. k \/ i = k + 1
      OBVIOUS
    <3> HIDE DEF T
    <3> QED
      BY <3>1
  <2> HIDE DEF g
  <2>5. ASSUME NEW i \in 0 .. k + 1
        PROVE  g[i] = IF i < 10 THEN <<i>> ELSE Append(g[i \div 10], i % 10)
    <3>1. CASE i \in 0 .. k
      <4>1. i >= 10 => i \div 10 \in 0 .. k
        BY <3>1, Tenth
      <4>2. f[i] = IF i < 10 THEN <<i>> ELSE Append(f[i \div 10], i % 10)
        BY <2>1, <3>1 DEF Decimals
      <4>3. g[i] = f[i] /\ (i >= 10 => g[i \div 10] = f[i \div 10])
        BY <2>4, <3>1, <4>1
      <4>4. i < 10 \/ i >= 10
        OBVIOUS
      <4> QED
        BY <4>2, <4>3, <4>4
    <3>2. CASE i = k + 1
      <4>1. g[m] = f[m]
        BY <2>2, <2>4
      <4> QED
        BY <2>3, <2>4, <3>2, <4>1
    <3>3. i \in 0 .. k \/ i = k + 1
      OBVIOUS
    <3> QED
      BY <3>1, <3>2, <3>3
  <2>6. Decimals(g, k + 1)
    BY <2>5 DEF Decimals
  <2>7. k + 1 \in Nat
    OBVIOUS
  <2> HIDE DEF T
  <2> QED
    BY <2>4, <2>6, <2>7
<1>3. n \in S
  <2> HIDE DEF S
  <2> QED
    BY <1>1, <1>2, SetInduction
<1> QED
  BY <1>3

LEMMA DecimalsDiffer ==
  ASSUME NEW n \in Nat, NEW m \in Nat,
         NEW f \in [0 .. n -> Seq(0 .. 9) \ {<<>>}], NEW g \in [0 .. m -> Seq(0 .. 9) \ {<<>>}],
         Decimals(f, n), Decimals(g, m)
  PROVE  \A i \in 0 .. n, j \in 0 .. m : f[i] = g[j] => i = j
<1> DEFINE T == Seq(0 .. 9) \ {<<>>}
           S == {k \in Nat : \A i \in 0 .. k, j \in 0 .. m : i <= n /\ f[i] = g[j] => i = j}
<1>1. ASSUME NEW i \in 0 .. n, NEW j \in 0 .. m, f[i] = g[j],
             \A x \in 0 .. n, y \in 0 .. m : x < i /\ f[x] = g[y] => x = y
      PROVE  i = j
  <2>1. /\ f[i] = IF i < 10 THEN <<i>> ELSE Append(f[i \div 10], i % 10)
        /\ g[j] = IF j < 10 THEN <<j>> ELSE Append(g[j \div 10], j % 10)
    BY DEF Decimals
  <2>2. ASSUME NEW v \in T, NEW w \in T, NEW x \in 0 .. 9, NEW y \in 0 .. 9
        PROVE  /\ Append(v, x) # <<y>>
               /\ Append(v, x) = Append(w, y) => v = w /\ x = y
    <3> DEFINE D == 0 .. 9
    <3>1. /\ v \in Seq(D) \ {<<>>} /\ w \in Seq(D) \ {<<>>}
          /\ x \in D /\ y \in D
      BY <2>2
    <3> HIDE DEF D
    <3>2. Append(v, x) # <<y>>
      <4>1. Len(Append(v, x)) # 1
        BY <3>1, Ends
      <4>2. Len(<<y>>) = 1
        OBVIOUS
      <4> QED
        BY <4>1, <4>2, Zenon
    <3>3. Append(v, x) = Append(w, y) => v = w /\ x = y
      BY <3>1, Ends
    <3> QED
      BY <3>2, <3>3, Zenon
  <2>3. CASE i < 10 /\ j < 10
    <3>1. <<i>> = <<j>>
      BY <1>1, <2>1, <2>3
    <3>2. <<i>>[1] = i /\ <<j>>[1] = j
      OBVIOUS
    <3> QED
      BY <3>1, <3>2, Zenon
  <2>4. CASE i >= 10 /\ j < 10
    <3>1. i \div 10 \in 0 .. n /\ i % 10 \in 0 .. 9 /\ j \in 0 .. 9
      BY <2>4, Tenth
    <3>2. f[i \div 10] \in T
      BY <3>1
    <3>3. f[i] = Append(f[i \div 10], i % 10) /\ g[j] = <<j>>
      BY <2>1, <2>4
    <3>4. Append(f[i \div 10], i % 10) # <<j>>
      <4> DEFINE a == f[i \div 10]
                 r == i % 10
      <4>1. a \in T /\ r \in 0 .. 9 /\ j \in 0 .. 9
        BY <3>1, <3>2
      <4> HIDE DEF T, a, r
      <4>2. Append(a, r) # <<j>>
        BY <2>2, <4>1
      <4> QED
        BY <4>2 DEF a, r
    <3> QED
      BY <1>1, <3>3, <3>4, Zenon
  <2>5. CASE i < 10 /\ j >= 10
    <3>1. j \div 10 \in 0 .. m /\ j % 10 \in 0 .. 9 /\ i \in 0 .. 9
      BY <2>5, Tenth
    <3>2. g[j \div 10] \in T
      BY <3>1
    <3>3. g[j] = Append(g[j \div 10], j % 10) /\ f[i] = <<i>>
      BY <2>1, <2>5
    <3>4. Append(g[j \div 10], j % 10) # <<i>>
      <4> DEFINE a == g[j \div 10]
                 r == j % 10
      <4>1. a \in T /\ r \in 0 .. 9 /\ i \in 0 .. 9
        BY <3>1, <3>2
      <4> HIDE DEF T, a, r
      <4>2. Append(a, r) # <<i>>
        BY <2>2, <4>1
      <4> QED
        BY <4>2 DEF a, r
    <3> QED
      BY <1>1, <3>3, <3>4, Zenon
  <2>6. CASE i >= 10 /\ j >= 10
    <3>1. /\ i \div 10 \in 0 .. n /\ i % 10 \in 0 .. 9 /\ i \div 10 < i
          /\ j \div 10 \in 0 .. m /\ j % 10 \in 0 .. 9
          /\ i = 10 * (i \div 10) + (i % 10) /\ j = 10 * (j \div 10) + (j % 10)
      BY <2>6, Tenth
    <3>2. f[i \div 10] \in T /\ g[j \div 10] \in T
      BY <3>1
    <3>3. Append(f[i \div 10], i % 10) = Append(g[j \div 10], j % 10)
      <4>1. ~ (i < 10) /\ ~ (j < 10)
        BY <2>6
      <4> HIDE DEF T
      <4> QED
        BY <1>1, <2>1, <4>1, Zenon
    <3>5. f[i \div 10] = g[j \div 10] /\ i % 10 = j % 10
      <4> DEFINE a == f[i \div 10]
                 b == g[j \div 10]
                 p == i % 10
                 q == j % 10
      <4>1. /\ a \in T /\ b \in T /\ p \in 0 .. 9 /\ q \in 0 .. 9
            /\ Append(a, p) = Append(b, q)
        BY <3>1, <3>2, <3>3
      <4> HIDE DEF T, a, b, p, q
      <4>2. a = b /\ p = q
        BY <2>2, <4>1
      <4> QED
        BY <4>2 DEF a, b, p, q
    <3>6. i \div 10 = j \div 10
      BY <1>1, <3>1, <3>5
    <3> QED
      BY <3>1, <3>5, <3>6
  <2>7. (i < 10 \/ i >= 10) /\ (j < 10 \/ j >= 10)
    OBVIOUS
  <2> QED
    BY <2>3, <2>4, <2>5, <2>6, <2>7
<1>2. 0 \in S
  BY <1>1
<1>3. ASSUME NEW k \in Nat, k \in S PROVE k + 1 \in S
  <2>1. ASSUME NEW i \in 0 .. k + 1, NEW j \in 0 .. m, i <= n, f[i] = g[j]
        PROVE  i = j
    <3>1. \A x \in 0 .. n, y \in 0 .. m : x < i /\ f[x] = g[y] => x = y
      BY <1>3
    <3>2. i \in 0 .. n
      BY <2>1
    <3> QED
      BY <1>1, <2>1, <3>1, <3>2
  <2> QED
    BY <2>1
<1>4. n \in S
  <2> HIDE DEF S
  <2> QED
    BY <1>2, <1>3, SetInduction
<1> QED
  BY <1>4

LEMMA DigitsAreDecimals ==
  ASSUME NEW n \in Nat
  PROVE  \E f \in [0 .. n -> Seq(0 .. 9) \ {<<>>}] : Decimals(f, n) /\ Digits(n) = f[n]
<1> DEFINE digits[k \in 0 .. n] == IF k < 10 THEN <<k>>
                                   ELSE Append(digits[k \div 10], k % 10)
           P(g) == g = [k \in 0 .. n |-> IF k < 10 THEN <<k>>
                                         ELSE Append(g[k \div 10], k % 10)]
           T == Seq(0 .. 9) \ {<<>>}
<1>1. Digits(n) = digits[n]
  BY DEF Digits
<1>2. digits = CHOOSE g : P(g)
  OBVIOUS
<1>3. PICK f \in [0 .. n -> T] : Decimals(f, n)
  BY DigitsExist
<1>4. P(f)
  <2>1. f = [k \in 0 .. n |-> f[k]]
    <3> HIDE DEF T
    <3> QED
      OBVIOUS
  <2>2. \A k \in 0 .. n : f[k] = IF k < 10 THEN <<k>> ELSE Append(f[k \div 10], k % 10)
    BY <1>3 DEF Decimals
  <2> HIDE DEF T
  <2> QED
    BY <2>1, <2>2
<1> HIDE DEF digits
<1>5. P(digits)
  <2> HIDE DEF P, T
  <2> QED
    BY <1>2, <1>4, Zenon
<1>6. /\ DOMAIN digits = 0 .. n
      /\ \A k \in 0 .. n : digits[k] = IF k < 10 THEN <<k>>
                                       ELSE Append(digits[k \div 10], k % 10)
  BY <1>5
<1>7. digits = [k \in 0 .. n |-> digits[k]]
  BY <1>5
<1> HIDE DEF P
<1>8. \A k \in 0 .. n : digits[k] \in T
  <2> DEFINE S == {k \in Nat : \A i \in 0 .. k : i <= n => digits[i] = f[i]}
  <2>1. ASSUME NEW i \in 0 .. n, \A j \in 0 .. n : j < i => digits[j] = f[j]
        PROVE  digits[i] = f[i]
    <3>1. digits[i] = IF i < 10 THEN <<i>> ELSE Append(digits[i \div 10], i % 10)
      BY <1>6
    <3>2. f[i] = IF i < 10 THEN <<i>> ELSE Append(f[i \div 10], i % 10)
      BY <1>3 DEF Decimals
    <3>3. i >= 10 => i \div 10 \in 0 .. n /\ i \div 10 < i
      BY Tenth
    <3>4. CASE i < 10
      <4> HIDE DEF T
      <4> QED
        BY <3>1, <3>2, <3>4, Zenon
    <3>5. CASE ~ (i < 10)
      <4>1. digits[i \div 10] = f[i \div 10]
        BY <2>1, <3>3, <3>5
      <4> HIDE DEF T
      <4> QED
        BY <3>1, <3>2, <3>5, <4>1, Zenon
    <3> HIDE DEF T
    <3> QED
      BY <3>4, <3>5
  <2>2. 0 \in S
    <3>1. \A i \in 0 .. 0 : i <= n => i \in 0 .. n /\ \A j \in 0 .. n : ~ (j < i)
      OBVIOUS
    <3> HIDE DEF T
    <3>2. \A i \in 0 .. 0 : i <= n => digits[i] = f[i]
      BY <2>1, <3>1
    <3> QED
      BY <3>2
  <2>3. ASSUME NEW k \in Nat, k \in S PROVE k + 1 \in S
    <3>1. ASSUME NEW i \in 0 .. k + 1, i <= n PROVE digits[i] = f[i]
      <4>1. i \in 0 .. n /\ \A j \in 0 .. n : j < i => j \in 0 .. k
        BY <3>1
      <4>2. \A j \in 0 .. k : j <= n => digits[j] = f[j]
        BY <2>3
      <4>3. \A j \in 0 .. n : j < i => digits[j] = f[j]
        <5> HIDE DEF T, S
        <5> QED
          BY <4>1, <4>2
      <4> HIDE DEF T, S
      <4> QED
        BY <2>1, <4>1, <4>3
    <3> HIDE DEF T
    <3> QED
      BY <3>1
  <2>4. n \in S
    <3> HIDE DEF S, T
    <3> QED
      BY <2>2, <2>3, SetInduction
  <2> HIDE DEF T
  <2>5. \A k \in 0 .. n : digits[k] = f[k] /\ f[k] \in T
    BY <2>4
  <2> QED
    BY <2>5
<1> HIDE DEF T
<1>9. digits \in [0 .. n -> T]
  BY <1>6, <1>7, <1>8
<1>10. Decimals(digits, n)
  BY <1>6 DEF Decimals
<1> QED
  BY <1>1, <1>9, <1>10 DEF T

LEMMA DigitsDiffer ==
  ASSUME NEW m \in Nat, NEW n \in Nat
  PROVE  /\ Digits(m) \in Seq(0 .. 9) /\ Len(Digits(m)) \in Nat \ {0}
         /\ Digits(m) = Digits(n) => m = n
<1>1. PICK f \in [0 .. m -> Seq(0 .. 9) \ {<<>>}] : Decimals(f, m) /\ Digits(m) = f[m]
  BY DigitsAreDecimals
<1>2. PICK g \in [0 .. n -> Seq(0 .. 9) \ {<<>>}] : Decimals(g, n) /\ Digits(n) = g[n]
  BY DigitsAreDecimals
<1>3. m \in 0 .. m /\ n \in 0 .. n
  OBVIOUS
<1>4. Digits(m) \in Seq(0 .. 9) \ {<<>>}
  BY <1>1, <1>3
<1>5. Len(Digits(m)) \in Nat \ {0}
  <2> DEFINE D == 0 .. 9
  <2>1. Digits(m) \in Seq(D) /\ Digits(m) # <<>>
    BY <1>4
  <2> HIDE DEF D
  <2> QED
    BY <2>1, EmptySeq
<1>6. f[m] = g[n] => m = n
  <2>1. Decimals(f, m) /\ Decimals(g, n)
    BY <1>1, <1>2
  <2>2. \A i \in 0 .. m, j \in 0 .. n : f[i] = g[j] => i = j
    BY <2>1, DecimalsDiffer, Zenon
  <2> QED
    BY <1>3, <2>2, Zenon
<1> QED
  BY <1>1, <1>2, <1>4, <1>5, <1>6, Zenon

-----------------------------------------------------------------------------
\* Two texts that agree on every position that both have.
Agree(v, w) == \A k \in 1 .. Len(v) : k <= Len(w) => v[k] = w[k]

\* Texts that start alike agree on what they start with, and on what follows if the
\* starts are equal.
LEMMA StartsAgree ==
  ASSUME NEW A, NEW p \in Seq(A), NEW q \in Seq(A), NEW x \in Seq(A), NEW y \in Seq(A),
         Agree(p \o x, q \o y)
  PROVE  Agree(p, q) /\ (p = q => Agree(x, y))
<1> DEFINE v == p \o x
           w == q \o y
<1>1. /\ Len(v) = Len(p) + Len(x) /\ Len(w) = Len(q) + Len(y)
      /\ Len(p) \in Nat /\ Len(q) \in Nat /\ Len(x) \in Nat /\ Len(y) \in Nat
      /\ \A i \in 1 .. Len(p) + Len(x) : v[i] = IF i <= Len(p) THEN p[i] ELSE x[i - Len(p)]
      /\ \A i \in 1 .. Len(q) + Len(y) : w[i] = IF i <= Len(q) THEN q[i] ELSE y[i - Len(q)]
  BY ConcatProperties, LenProperties
<1>2. \A k \in 1 .. Len(v) : k <= Len(w) => v[k] = w[k]
  BY DEF Agree
<1> HIDE DEF v, w
<1>3. ASSUME NEW k \in 1 .. Len(p), k <= Len(q) PROVE p[k] = q[k]
  <2>1. /\ k \in 1 .. Len(v) /\ k <= Len(w)
        /\ k \in 1 .. Len(p) + Len(x) /\ k \in 1 .. Len(q) + Len(y) /\ k <= Len(p)
    BY <1>1, <1>3
  <2>2. v[k] = p[k] /\ w[k] = q[k]
    BY <1>1, <1>3, <2>1
  <2> QED
    BY <1>2, <2>1, <2>2
<1>4. ASSUME p = q, NEW k \in 1 .. Len(x), k <= Len(y) PROVE x[k] = y[k]
  <2> DEFINE i == Len(p) + k
  <2>1. /\ i \in 1 .. Len(v) /\ i <= Len(w) /\ ~ (i <= Len(p)) /\ i - Len(p) = k
        /\ i \in 1 .. Len(p) + Len(x) /\ i \in 1 .. Len(q) + Len(y) /\ Len(q) = Len(p)
    BY <1>1, <1>4
  <2> HIDE DEF i
  <2>2. v[i] = x[k] /\ w[i] = y[k]
    BY <1>1, <2>1
  <2> QED
    BY <1>2, <2>1, <2>2
<1> QED
  BY <1>3, <1>4 DEF Agree

LEMMA Cancels ==
  ASSUME NEW A, NEW p \in Seq(A), NEW x \in Seq(A), NEW y \in Seq(A), p \o x = p \o y
  PROVE  x = y
<1> DEFINE v == p \o x
           w == p \o y
<1>1. /\ Len(v) = Len(p) + Len(x) /\ Len(w) = Len(p) + Len(y)
      /\ Len(p) \in Nat /\ Len(x) \in Nat /\ Len(y) \in Nat
      /\ \A i \in 1 .. Len(p) + Len(x) : v[i] = IF i <= Len(p) THEN p[i] ELSE x[i - Len(p)]
      /\ \A i \in 1 .. Len(p) + Len(y) : w[i] = IF i <= Len(p) THEN p[i] ELSE y[i - Len(p)]
  BY ConcatProperties, LenProperties
<1>2. v = w
  OBVIOUS
<1> HIDE DEF v, w
<1>3. Len(x) = Len(y)
  BY <1>1, <1>2
<1>4. ASSUME NEW k \in 1 .. Len(x) PROVE x[k] = y[k]
  <2> DEFINE i == Len(p) + k
  <2>1. /\ ~ (i <= Len(p)) /\ i - Len(p) = k
        /\ i \in 1 .. Len(p) + Len(x) /\ i \in 1 .. Len(p) + Len(y)
    BY <1>1, <1>3
  <2> HIDE DEF i
  <2>2. v[i] = x[k] /\ w[i] = y[k]
    BY <1>1, <2>1
  <2> QED
    BY <1>2, <2>2
<1> QED
  BY <1>3, <1>4, SeqEqual

\* A decimal that is followed by something else than a digit tells where it ends:
\* two of them that agree are of the same number.
LEMMA NaturalsTerminate ==
  ASSUME NEW m \in Nat, NEW n \in Nat, NEW c \in {10, 11},
         Agree(Digits(m) \o <<c>>, Digits(n) \o <<c>>)
  PROVE  m = n
<1> DEFINE v == Digits(m)
           w == Digits(n)
           D == 0 .. 9
           A == 0 .. 11
<1>1. /\ v \in Seq(D) /\ w \in Seq(D)
      /\ Len(v) \in Nat \ {0} /\ Len(w) \in Nat \ {0} /\ (v = w => m = n)
  BY DigitsDiffer
<1>2. /\ \A k \in 1 .. Len(v) : v[k] \in D
      /\ \A k \in 1 .. Len(w) : w[k] \in D
  <2> HIDE DEF D, v, w
  <2> QED
    BY <1>1, ElementOfSeq
<1>3. v \in Seq(A) /\ w \in Seq(A) /\ <<c>> \in Seq(A)
  <2>1. Seq(D) \subseteq Seq(A)
    OBVIOUS
  <2>2. <<c>> \in Seq(A)
    OBVIOUS
  <2> HIDE DEF D, A, v, w
  <2> QED
    BY <1>1, <2>1, <2>2
<1> DEFINE x == v \o <<c>>
           y == w \o <<c>>
<1>4. Agree(x, y)
  OBVIOUS
<1>5. Len(<<c>>) = 1 /\ <<c>>[1] = c
  OBVIOUS
<1> HIDE DEF v, w, A
<1>6. /\ Len(x) = Len(v) + 1 /\ Len(y) = Len(w) + 1
      /\ \A k \in 1 .. Len(v) + 1 : x[k] = IF k <= Len(v) THEN v[k] ELSE <<c>>[k - Len(v)]
      /\ \A k \in 1 .. Len(w) + 1 : y[k] = IF k <= Len(w) THEN w[k] ELSE <<c>>[k - Len(w)]
  <2>1. Len(<<c>>) = 1
    OBVIOUS
  <2> DEFINE u == <<c>>
  <2>2. u \in Seq(A) /\ Len(u) = 1
    BY <1>3
  <2> HIDE DEF u
  <2>3. /\ Len(v \o u) = Len(v) + 1 /\ Len(w \o u) = Len(w) + 1
        /\ \A k \in 1 .. Len(v) + 1 : (v \o u)[k] = IF k <= Len(v) THEN v[k] ELSE u[k - Len(v)]
        /\ \A k \in 1 .. Len(w) + 1 : (w \o u)[k] = IF k <= Len(w) THEN w[k] ELSE u[k - Len(w)]
    <3>1. /\ Len(v \o u) = Len(v) + Len(u)
          /\ \A k \in 1 .. Len(v) + Len(u) :
                (v \o u)[k] = IF k <= Len(v) THEN v[k] ELSE u[k - Len(v)]
      BY <1>3, <2>2, ConcatProperties
    <3>2. /\ Len(w \o u) = Len(w) + Len(u)
          /\ \A k \in 1 .. Len(w) + Len(u) :
                (w \o u)[k] = IF k <= Len(w) THEN w[k] ELSE u[k - Len(w)]
      BY <1>3, <2>2, ConcatProperties
    <3> QED
      BY <2>2, <3>1, <3>2
  <2> QED
    BY <2>3 DEF u
<1> HIDE DEF x, y
<1>7. /\ \A k \in 1 .. Len(v) : x[k] = v[k]
      /\ \A k \in 1 .. Len(w) : y[k] = w[k]
      /\ x[Len(v) + 1] = c /\ y[Len(w) + 1] = c
  <2>1. ASSUME NEW k \in 1 .. Len(v) PROVE k \in 1 .. Len(v) + 1 /\ k <= Len(v)
    BY <1>1
  <2>2. ASSUME NEW k \in 1 .. Len(w) PROVE k \in 1 .. Len(w) + 1 /\ k <= Len(w)
    BY <1>1
  <2>3. /\ Len(v) + 1 \in 1 .. Len(v) + 1 /\ ~ (Len(v) + 1 <= Len(v)) /\ (Len(v) + 1) - Len(v) = 1
        /\ Len(w) + 1 \in 1 .. Len(w) + 1 /\ ~ (Len(w) + 1 <= Len(w)) /\ (Len(w) + 1) - Len(w) = 1
    BY <1>1
  <2>4. x[Len(v) + 1] = c
    BY <1>5, <1>6, <2>3
  <2>5. y[Len(w) + 1] = c
    BY <1>5, <1>6, <2>3
  <2> QED
    BY <1>6, <2>1, <2>2, <2>4, <2>5
<1>8. \A k \in 1 .. Len(v) + 1 : k <= Len(w) + 1 => x[k] = y[k]
  BY <1>4, <1>6 DEF Agree
<1>9. c \notin D
  OBVIOUS
<1> HIDE DEF D
<1>10. ~ (Len(v) < Len(w))
  <2> SUFFICES ASSUME Len(v) < Len(w) PROVE FALSE
    OBVIOUS
  <2> DEFINE k == Len(v) + 1
  <2>1. k \in 1 .. Len(v) + 1 /\ k <= Len(w) + 1 /\ k \in 1 .. Len(w)
    BY <1>1
  <2>2. x[k] = c
    BY <1>7
  <2> HIDE DEF k
  <2> QED
    BY <1>2, <1>7, <1>8, <1>9, <2>1, <2>2
<1>11. ~ (Len(w) < Len(v))
  <2> SUFFICES ASSUME Len(w) < Len(v) PROVE FALSE
    OBVIOUS
  <2> DEFINE k == Len(w) + 1
  <2>1. k \in 1 .. Len(v) + 1 /\ k <= Len(w) + 1 /\ k \in 1 .. Len(v)
    BY <1>1
  <2>2. y[k] = c
    BY <1>7
  <2> HIDE DEF k
  <2> QED
    BY <1>2, <1>7, <1>8, <1>9, <2>1, <2>2
<1>12. Len(v) = Len(w)
  BY <1>1, <1>10, <1>11
<1>13. ASSUME NEW k \in 1 .. Len(v) PROVE v[k] = w[k]
  <2>1. k \in 1 .. Len(v) + 1 /\ k <= Len(w) + 1 /\ k \in 1 .. Len(w)
    BY <1>1, <1>12
  <2> QED
    BY <1>7, <1>8, <2>1
<1>14. v = w
  BY <1>1, <1>12, <1>13, SeqEqual
<1> QED
  BY <1>1, <1>14

LEMMA DecimalsTerminate ==
  ASSUME NEW t \in Int, NEW u \in Int, NEW c \in {10, 11},
         Agree(Decimal(t) \o <<c>>, Decimal(u) \o <<c>>)
  PROVE  t = u
<1> DEFINE A == 0 .. 11
           end == <<c>>
           sign == <<10>>
<1>1. end \in Seq(A) /\ sign \in Seq(A) /\ Len(sign) = 1 /\ sign[1] = 10
  OBVIOUS
<1>2. ASSUME NEW n \in Nat
      PROVE  /\ Digits(n) \in Seq(A) /\ Len(Digits(n)) \in Nat \ {0}
             /\ Digits(n)[1] # 10
             /\ Digits(n) \o end \in Seq(A)
             /\ (sign \o Digits(n)) \o end = sign \o (Digits(n) \o end)
  <2> DEFINE D == 0 .. 9
             v == Digits(n)
  <2>1. v \in Seq(D) /\ Len(v) \in Nat \ {0}
    BY DigitsDiffer
  <2>2. Seq(D) \subseteq Seq(A)
    OBVIOUS
  <2>3. v[1] \in D
    <3>1. 1 \in 1 .. Len(v)
      BY <2>1
    <3> HIDE DEF D, v
    <3> QED
      BY <2>1, <3>1, ElementOfSeq
  <2>4. 10 \notin D
    OBVIOUS
  <2> HIDE DEF D, A, v, end, sign
  <2>5. v \in Seq(A) /\ v[1] # 10
    BY <2>1, <2>2, <2>3, <2>4
  <2>6. v \o end \in Seq(A) /\ (sign \o v) \o end = sign \o (v \o end)
    <3>1. v \o end \in Seq(A)
      BY <1>1, <2>5, ConcatProperties
    <3>2. (sign \o v) \o end = sign \o (v \o end)
      <4>1. sign \in Seq(A) /\ v \in Seq(A) /\ end \in Seq(A)
        BY <1>1, <2>5
      <4> QED
        BY <4>1, ConcatAssociative
    <3> QED
      BY <3>1, <3>2
  <2> QED
    BY <2>1, <2>5, <2>6 DEF v
<1>3. /\ Agree(Decimal(t) \o end, Decimal(u) \o end)
      /\ Agree(Decimal(u) \o end, Decimal(t) \o end)
  <2> DEFINE v == Decimal(t) \o end
             w == Decimal(u) \o end
  <2>1. Agree(v, w)
    OBVIOUS
  <2>2. Len(v) \in Nat /\ Len(w) \in Nat
    <3>1. \A i \in Int : Decimal(i) \o end \in Seq(A)
      <4> SUFFICES ASSUME NEW i \in Int PROVE Decimal(i) \o end \in Seq(A)
        OBVIOUS
      <4>1. CASE i < 0
        <5>1. -i \in Nat
          BY <4>1
        <5>2. Decimal(i) = sign \o Digits(-i)
          BY <4>1 DEF Decimal, Minus
        <5> HIDE DEF A, sign, end
        <5> QED
          BY <1>1, <1>2, <5>1, <5>2, ConcatProperties
      <4>2. CASE ~ (i < 0)
        <5>1. i \in Nat
          BY <4>2
        <5>2. Decimal(i) = Digits(i)
          BY <4>2 DEF Decimal
        <5> HIDE DEF A, sign, end
        <5> QED
          BY <1>2, <5>1, <5>2
      <4> QED
        BY <4>1, <4>2
    <3>2. v \in Seq(A) /\ w \in Seq(A)
      BY <3>1
    <3> HIDE DEF v, w, A
    <3> QED
      BY <3>2, LenProperties
  <2> HIDE DEF v, w
  <2>3. Agree(w, v)
    BY <2>1, <2>2 DEF Agree
  <2> QED
    BY <2>1, <2>3 DEF v, w
<1>4. ASSUME NEW m \in Nat, NEW n \in Nat
      PROVE  ~ Agree(sign \o (Digits(m) \o end), Digits(n) \o end)
  <2> SUFFICES ASSUME Agree(sign \o (Digits(m) \o end), Digits(n) \o end) PROVE FALSE
    OBVIOUS
  <2> HIDE DEF A, sign, end
  <2>1. Agree(sign, Digits(n))
    BY <1>1, <1>2, StartsAgree
  <2>2. 1 \in 1 .. Len(sign) /\ 1 <= Len(Digits(n))
    BY <1>1, <1>2
  <2>3. sign[1] = Digits(n)[1]
    BY <2>1, <2>2 DEF Agree
  <2> QED
    BY <1>1, <1>2, <2>3
<1>5. ASSUME NEW i \in Int
      PROVE  /\ i < 0 => -i \in Nat /\ Decimal(i) \o end = sign \o (Digits(-i) \o end)
             /\ ~ (i < 0) => i \in Nat /\ Decimal(i) \o end = Digits(i) \o end
  <2>1. CASE i < 0
    <3>1. -i \in Nat
      BY <2>1
    <3>2. Decimal(i) = sign \o Digits(-i)
      BY <2>1 DEF Decimal, Minus
    <3> HIDE DEF A, sign, end
    <3> QED
      BY <1>2, <2>1, <3>1, <3>2
  <2>2. CASE ~ (i < 0)
    <3>1. i \in Nat
      BY <2>2
    <3>2. Decimal(i) = Digits(i)
      BY <2>2 DEF Decimal
    <3> HIDE DEF A, sign, end
    <3> QED
      BY <2>2, <3>1, <3>2
  <2> QED
    BY <2>1, <2>2
<1>6. CASE t < 0 /\ u < 0
  <2>1. /\ -t \in Nat /\ -u \in Nat
        /\ Agree(sign \o (Digits(-t) \o end), sign \o (Digits(-u) \o end))
    <3> HIDE DEF A, sign, end
    <3> QED
      BY <1>3, <1>5, <1>6
  <2>2. Agree(Digits(-t) \o end, Digits(-u) \o end)
    <3> DEFINE x == Digits(-t) \o end
               y == Digits(-u) \o end
    <3>1. x \in Seq(A) /\ y \in Seq(A)
      <4> HIDE DEF A, sign, end
      <4> QED
        BY <1>2, <2>1
    <3> HIDE DEF A, sign, end, x, y
    <3>2. Agree(sign \o x, sign \o y)
      BY <2>1 DEF x, y
    <3>3. Agree(x, y)
      BY <1>1, <3>1, <3>2, StartsAgree
    <3> QED
      BY <3>3 DEF x, y
  <2>3. -t = -u
    <3> DEFINE m == -t
               n == -u
    <3>1. m \in Nat /\ n \in Nat /\ Agree(Digits(m) \o end, Digits(n) \o end)
      BY <2>1, <2>2
    <3> HIDE DEF m, n
    <3>2. m = n
      BY <3>1, NaturalsTerminate
    <3> QED
      BY <3>2 DEF m, n
  <2> QED
    BY <2>3
<1>7. CASE ~ (t < 0) /\ ~ (u < 0)
  <2>1. t \in Nat /\ u \in Nat /\ Agree(Digits(t) \o end, Digits(u) \o end)
    <3> HIDE DEF A, sign, end
    <3> QED
      BY <1>3, <1>5, <1>7
  <2> QED
    BY <2>1, NaturalsTerminate
<1>8. CASE t < 0 /\ ~ (u < 0)
  <2> HIDE DEF A, sign, end
  <2> QED
    BY <1>3, <1>4, <1>5, <1>8
<1>9. CASE ~ (t < 0) /\ u < 0
  <2> HIDE DEF A, sign, end
  <2> QED
    BY <1>3, <1>4, <1>5, <1>9
<1> QED
  BY <1>6, <1>7, <1>8, <1>9

\* What FlattenSeq has put together after each of the sequences.
Joins(g, s) == g[0] = <<>> /\ \A i \in 0 .. Len(s) - 1 : g[i + 1] = g[i] \o s[i + 1]

LEMMA FlattenJoins ==
  ASSUME NEW A, NEW s \in Seq(Seq(A))
  PROVE  \E g \in [0 .. Len(s) -> Seq(A)] : Joins(g, s) /\ FlattenSeq(s) = g[Len(s)]
<1>1. Len(s) \in Nat
  OBVIOUS
<1>2. <<>> \in Seq(A)
  BY EmptySeq
<1>3. CASE Len(s) = 0
  <2> DEFINE g == [i \in 0 .. Len(s) |-> <<>>]
             T == Seq(A)
  <2>1. FlattenSeq(s) = <<>>
    <3>1. s = <<>>
      BY <1>3
    <3> QED
      BY <1>3, <3>1 DEF FlattenSeq
  <2>2. g \in [0 .. Len(s) -> T] /\ g[0] = <<>> /\ g[Len(s)] = <<>>
    <3> HIDE DEF T
    <3>1. <<>> \in T
      BY <1>2 DEF T
    <3> QED
      BY <1>3, <3>1
  <2>3. \A i \in 0 .. Len(s) - 1 : FALSE
    BY <1>3
  <2> HIDE DEF g
  <2>4. Joins(g, s)
    BY <2>2, <2>3 DEF Joins
  <2> QED
    BY <2>1, <2>2, <2>4
<1>4. CASE Len(s) # 0
  <2>1. Len(s) > 0
    BY <1>1, <1>4
  <2>2. PICK h \in [1 .. Len(s) -> Seq(A)] :
            /\ h[1] = s[1] /\ \A i \in 1 .. Len(s) - 1 : h[i + 1] = h[i] \o s[i + 1]
            /\ FlattenSeq(s) = h[Len(s)]
    BY <2>1, Flattens
  <2> DEFINE T == Seq(A)
             n == Len(s)
             g == [i \in 0 .. n |-> IF i = 0 THEN <<>> ELSE h[i]]
  <2>3. h \in [1 .. n -> T] /\ <<>> \in T /\ n \in Nat \ {0}
    BY <1>1, <1>2, <1>4
  <2>4. s[1] \in Seq(A)
    BY <1>1, <1>4
  <2> HIDE DEF T, n
  <2>5. g \in [0 .. n -> T] /\ g[0] = <<>> /\ \A i \in 1 .. n : g[i] = h[i]
    BY <2>3
  <2> HIDE DEF g
  <2>6. ASSUME NEW i \in 0 .. n - 1 PROVE g[i + 1] = g[i] \o s[i + 1]
    <3>1. CASE i = 0
      <4>1. <<>> \o s[1] = s[1]
        BY <2>4, ConcatEmptySeq
      <4>2. g[1] = s[1] /\ i + 1 = 1
        BY <2>2, <2>3, <2>5, <3>1
      <4> QED
        BY <2>5, <3>1, <4>1, <4>2
    <3>2. CASE i # 0
      <4>1. i \in 1 .. n - 1 /\ i \in 1 .. n /\ i + 1 \in 1 .. n
        BY <2>3, <3>2
      <4>2. h[i + 1] = h[i] \o s[i + 1]
        BY <2>2, <4>1 DEF n
      <4> QED
        BY <2>5, <4>1, <4>2
    <3> QED
      BY <3>1, <3>2
  <2>7. Joins(g, s)
    BY <2>5, <2>6 DEF Joins, n
  <2>8. FlattenSeq(s) = g[n]
    <3>1. n \in 1 .. n
      BY <2>3
    <3> QED
      BY <2>2, <2>5, <3>1 DEF n
  <2> QED
    BY <2>5, <2>7, <2>8 DEF T, n
<1> QED
  BY <1>3, <1>4

\* A text begins with another.
Begins(p, w) == Len(p) <= Len(w) /\ \A k \in 1 .. Len(p) : p[k] = w[k]

\* What is put together is what the earlier joins begin, and no join adds nothing.
LEMMA JoinsGrow ==
  ASSUME NEW A, NEW s \in Seq(Seq(A)), NEW g \in [0 .. Len(s) -> Seq(A)], Joins(g, s),
         \A i \in 1 .. Len(s) : s[i] # <<>>
  PROVE  \A k \in 0 .. Len(s) : /\ Begins(g[k], g[Len(s)])
                                /\ k < Len(s) => Len(g[k]) < Len(g[Len(s)])
<1> DEFINE n == Len(s)
           z == g[n]
           T == Seq(A)
           Good(k) == Begins(g[k], z) /\ (k < n => Len(g[k]) < Len(z))
           S == {d \in Nat : \A k \in 0 .. n : k + d = n => Good(k)}
<1>1. n \in Nat /\ \A i \in 1 .. n : s[i] \in Seq(A) /\ s[i] # <<>>
  OBVIOUS
<1>2. g \in [0 .. n -> T] /\ \A i \in 0 .. n - 1 : g[i + 1] = g[i] \o s[i + 1]
  BY DEF Joins
<1>3. \A k \in 0 .. n : g[k] \in Seq(A) /\ Len(g[k]) \in Nat
  <2>1. \A w \in T : w \in Seq(A) /\ Len(w) \in Nat
    OBVIOUS
  <2> HIDE DEF T
  <2> QED
    BY <1>2, <2>1
<1> HIDE DEF n, T
<1>4. 0 \in S
  <2>1. Len(z) \in Nat
    BY <1>1, <1>3
  <2>2. Begins(z, z)
    BY <2>1 DEF Begins
  <2>3. ASSUME NEW k \in 0 .. n, k + 0 = n PROVE Good(k)
    <3>1. k = n
      BY <1>1, <2>3
    <3> QED
      BY <1>1, <2>2, <3>1
  <2> HIDE DEF Good
  <2> QED
    BY <2>3
<1>5. ASSUME NEW d \in Nat, d \in S PROVE d + 1 \in S
  <2>1. ASSUME NEW k \in 0 .. n, k + (d + 1) = n PROVE Good(k)
    <3>1. k + 1 \in 0 .. n /\ (k + 1) + d = n /\ k \in 0 .. n - 1 /\ k + 1 \in 1 .. n
      BY <1>1, <2>1
    <3>2. Good(k + 1)
      <4> HIDE DEF Good
      <4> QED
        BY <1>5, <3>1
    <3> DEFINE p == g[k]
               q == g[k + 1]
               w == s[k + 1]
    <3>3. q = p \o w
      BY <1>2, <3>1
    <3>4. p \in Seq(A) /\ w \in Seq(A) /\ w # <<>> /\ Len(z) \in Nat
      BY <1>1, <1>3, <3>1
    <3>5. Begins(q, z)
      BY <3>2
    <3> HIDE DEF p, q, w, z
    <3>6. /\ Len(q) = Len(p) + Len(w) /\ Len(p) \in Nat /\ Len(w) \in Nat \ {0}
          /\ \A i \in 1 .. Len(p) + Len(w) : q[i] = IF i <= Len(p) THEN p[i] ELSE w[i - Len(p)]
      <4>1. Len(p) \in Nat /\ Len(w) \in Nat \ {0}
        BY <3>4, EmptySeq, LenProperties
      <4> QED
        BY <3>3, <3>4, <4>1, ConcatProperties
    <3>7. Len(p) < Len(z)
      BY <3>4, <3>5, <3>6 DEF Begins
    <3>8. ASSUME NEW i \in 1 .. Len(p) PROVE p[i] = z[i]
      <4>1. i \in 1 .. Len(p) + Len(w) /\ i \in 1 .. Len(q) /\ i <= Len(p)
        BY <3>6
      <4>2. q[i] = p[i]
        BY <3>6, <4>1
      <4> QED
        BY <3>5, <4>1, <4>2 DEF Begins
    <3>9. Begins(p, z)
      BY <3>4, <3>6, <3>7, <3>8 DEF Begins
    <3> QED
      BY <3>7, <3>9 DEF p
  <2> HIDE DEF Good
  <2>2. d + 1 \in Nat
    OBVIOUS
  <2> QED
    BY <2>1, <2>2
<1>6. Nat \subseteq S
  <2> HIDE DEF S
  <2> QED
    BY <1>4, <1>5, SetInduction
<1>7. ASSUME NEW k \in 0 .. n PROVE Good(k)
  <2>1. n - k \in Nat /\ k + (n - k) = n
    BY <1>1
  <2>2. n - k \in S
    <3> HIDE DEF S
    <3> QED
      BY <1>6, <2>1
  <2> HIDE DEF Good
  <2> QED
    BY <2>1, <2>2
<1> QED
  BY <1>7 DEF n

\* Texts put together of words, of which those at one place are equal if they agree,
\* tell the words.
LEMMA ShorterFlattens ==
  ASSUME NEW A, NEW s \in Seq(Seq(A)), NEW t \in Seq(Seq(A)), Len(s) <= Len(t),
         \A i \in 1 .. Len(s) : s[i] # <<>>, \A i \in 1 .. Len(t) : t[i] # <<>>,
         \A i \in 1 .. Len(s) : Agree(s[i], t[i]) => s[i] = t[i],
         FlattenSeq(s) = FlattenSeq(t)
  PROVE  s = t
<1>1. PICK g \in [0 .. Len(s) -> Seq(A)] : Joins(g, s) /\ FlattenSeq(s) = g[Len(s)]
  BY FlattenJoins
<1>2. PICK h \in [0 .. Len(t) -> Seq(A)] : Joins(h, t) /\ FlattenSeq(t) = h[Len(t)]
  BY FlattenJoins
<1> DEFINE n == Len(s)
           m == Len(t)
           z == g[n]
           S == {k \in Nat : k <= n => g[k] = h[k] /\ \A i \in 1 .. k : s[i] = t[i]}
<1>3. n \in Nat /\ m \in Nat /\ n <= m /\ z = h[m]
  <2>1. g[Len(s)] = h[Len(t)]
    BY <1>1, <1>2, Zenon
  <2> QED
    BY <2>1
<1>4. \A i \in 0 .. n : Begins(g[i], z)
  BY <1>1, JoinsGrow
<1>5. \A i \in 0 .. m : Begins(h[i], h[m]) /\ (i < m => Len(h[i]) < Len(h[m]))
  BY <1>2, JoinsGrow
<1>6. /\ \A i \in 0 .. n : g[i] \in Seq(A)
      /\ \A i \in 1 .. n : s[i] \in Seq(A)
      /\ \A i \in 1 .. m : t[i] \in Seq(A)
      /\ \A i \in 0 .. m : h[i] \in Seq(A)
  <2> DEFINE W == Seq(A)
  <2>1. s \in Seq(W) /\ t \in Seq(W) /\ g \in [0 .. n -> W] /\ h \in [0 .. m -> W]
    OBVIOUS
  <2>2. n \in Nat /\ m \in Nat
    BY <1>3
  <2> HIDE DEF W, n, m
  <2>3. /\ \A i \in 0 .. n : g[i] \in W
        /\ \A i \in 0 .. m : h[i] \in W
    BY <2>1
  <2>4. \A i \in 1 .. n : s[i] \in W
    BY <2>1, ElementOfSeq DEF n
  <2>5. \A i \in 1 .. m : t[i] \in W
    BY <2>1, ElementOfSeq DEF m
  <2> QED
    BY <2>3, <2>4, <2>5 DEF W
<1>7. /\ g[0] = <<>> /\ \A i \in 0 .. n - 1 : g[i + 1] = g[i] \o s[i + 1]
      /\ h[0] = <<>> /\ \A i \in 0 .. m - 1 : h[i + 1] = h[i] \o t[i + 1]
  BY <1>1, <1>2 DEF Joins
<1>8. \A i \in 1 .. n : Agree(s[i], t[i]) => s[i] = t[i]
  OBVIOUS
<1> HIDE DEF n, m, z
<1>9. 0 \in S
  BY <1>7
<1>10. ASSUME NEW k \in Nat, k \in S PROVE k + 1 \in S
  <2> SUFFICES ASSUME k + 1 <= n
               PROVE  g[k + 1] = h[k + 1] /\ \A i \in 1 .. k + 1 : s[i] = t[i]
    OBVIOUS
  <2>1. /\ k <= n /\ k \in 0 .. n - 1 /\ k + 1 \in 1 .. n /\ k \in 0 .. n /\ k + 1 \in 0 .. n
        /\ k \in 0 .. m - 1 /\ k + 1 \in 1 .. m /\ k + 1 \in 0 .. m
    BY <1>3
  <2> DEFINE p == g[k]
             v == s[k + 1]
             w == t[k + 1]
  <2>2. p = h[k] /\ \A i \in 1 .. k : s[i] = t[i]
    BY <1>10, <2>1
  <2>3. /\ g[k + 1] = p \o v /\ h[k + 1] = p \o w
        /\ p \in Seq(A) /\ v \in Seq(A) /\ w \in Seq(A)
        /\ Begins(p \o v, z) /\ Begins(p \o w, z)
    BY <1>3, <1>4, <1>5, <1>6, <1>7, <2>1, <2>2
  <2>4. Agree(v, w) => v = w
    BY <1>8, <2>1
  <2> HIDE DEF p, v, w
  <2>5. Agree(v, w)
    <3> DEFINE x == p \o v
               y == p \o w
    <3>1. /\ Begins(x, z) /\ Begins(y, z)
          /\ x \in Seq(A) /\ y \in Seq(A)
      BY <2>3, ConcatProperties
    <3> HIDE DEF x, y
    <3>2. Len(x) \in Nat /\ Len(y) \in Nat
      BY <3>1, LenProperties
    <3>3. Agree(x, y)
      BY <3>1, <3>2 DEF Agree, Begins
    <3>4. Agree(p \o v, p \o w)
      BY <3>3 DEF x, y
    <3> QED
      BY <2>3, <3>4, StartsAgree
  <2>6. v = w
    BY <2>4, <2>5
  <2>7. \A i \in 1 .. k + 1 : i \in 1 .. k \/ i = k + 1
    OBVIOUS
  <2>8. s[k + 1] = t[k + 1]
    BY <2>6 DEF v, w
  <2>9. g[k + 1] = h[k + 1]
    BY <2>3, <2>6
  <2> QED
    BY <2>2, <2>7, <2>8, <2>9
<1>11. n \in S
  <2> HIDE DEF S
  <2> QED
    BY <1>3, <1>9, <1>10, SetInduction
<1>12. g[n] = h[n] /\ \A i \in 1 .. n : s[i] = t[i]
  BY <1>3, <1>11
<1>13. n = m
  <2> SUFFICES ASSUME n # m PROVE FALSE
    OBVIOUS
  <2>1. n < m /\ n \in 0 .. m /\ m \in 0 .. m
    BY <1>3
  <2>2. Len(h[n]) < Len(h[m])
    BY <1>5, <2>1
  <2>3. h[n] = h[m]
    BY <1>3, <1>12 DEF z
  <2>4. Len(h[m]) \in Nat
    BY <1>6, <2>1, LenProperties
  <2> QED
    BY <2>2, <2>3, <2>4
<1>14. Len(s) = Len(t) /\ \A i \in 1 .. Len(s) : s[i] = t[i]
  BY <1>12, <1>13 DEF n, m
<1> DEFINE W == Seq(A)
<1>15. s \in Seq(W) /\ t \in Seq(W)
  OBVIOUS
<1> HIDE DEF W
<1> QED
  BY <1>14, <1>15, SeqEqual

LEMMA IsSequence ==
  ASSUME NEW W, NEW n \in Nat, NEW s \in [1 .. n -> W]
  PROVE  s \in Seq(W) /\ Len(s) = n
OBVIOUS

LEMMA FlattenTells ==
  ASSUME NEW A, NEW s \in Seq(Seq(A)), NEW t \in Seq(Seq(A)),
         \A i \in 1 .. Len(s) : s[i] # <<>>, \A i \in 1 .. Len(t) : t[i] # <<>>,
         \A i \in 1 .. Len(s) : i <= Len(t) /\ Agree(s[i], t[i]) => s[i] = t[i],
         FlattenSeq(s) = FlattenSeq(t)
  PROVE  s = t
<1>1. Len(s) \in Nat /\ Len(t) \in Nat
  OBVIOUS
<1>2. CASE Len(s) <= Len(t)
  <2>1. \A i \in 1 .. Len(s) : Agree(s[i], t[i]) => s[i] = t[i]
    BY <1>1, <1>2
  <2> QED
    BY <1>2, <2>1, ShorterFlattens
<1>3. CASE Len(t) <= Len(s)
  <2>1. ASSUME NEW i \in 1 .. Len(t), Agree(t[i], s[i]) PROVE t[i] = s[i]
    <3>1. i \in 1 .. Len(s) /\ i <= Len(t)
      BY <1>1, <1>3
    <3> DEFINE v == s[i]
               w == t[i]
    <3>2. v \in Seq(A) /\ w \in Seq(A)
      <4> DEFINE W == Seq(A)
      <4>1. s \in Seq(W) /\ t \in Seq(W)
        OBVIOUS
      <4> HIDE DEF W
      <4>2. s[i] \in W /\ t[i] \in W
        BY <3>1, <4>1, ElementOfSeq
      <4> QED
        BY <4>2 DEF W
    <3>3. Len(v) \in Nat /\ Len(w) \in Nat
      BY <3>2, LenProperties
    <3>4. Agree(w, v)
      BY <2>1
    <3> HIDE DEF v, w
    <3>5. Agree(v, w)
      BY <3>3, <3>4 DEF Agree
    <3>6. Agree(s[i], t[i])
      BY <3>5 DEF v, w
    <3> QED
      BY <3>1, <3>6
  <2>2. FlattenSeq(t) = FlattenSeq(s)
    OBVIOUS
  <2> QED
    BY <1>3, <2>1, <2>2, ShorterFlattens
<1> QED
  BY <1>1, <1>2, <1>3

\* The characters of fmt's %d.
LEMMA DecimalIsText ==
  ASSUME NEW t \in Int
  PROVE  Decimal(t) \in Seq(0 .. 11)
<1> DEFINE A == 0 .. 11
<1>1. \A n \in Nat : Digits(n) \in Seq(A)
  <2>1. \A n \in Nat : Digits(n) \in Seq(0 .. 9)
    BY DigitsDiffer
  <2>2. Seq(0 .. 9) \subseteq Seq(A)
    OBVIOUS
  <2> HIDE DEF A
  <2> QED
    BY <2>1, <2>2
<1>2. <<10>> \in Seq(A)
  OBVIOUS
<1>3. CASE t < 0
  <2>1. -t \in Nat
    BY <1>3
  <2>2. Decimal(t) = <<10>> \o Digits(-t)
    BY <1>3 DEF Decimal, Minus
  <2> DEFINE p == <<10>>
             v == Digits(-t)
  <2>3. p \in Seq(A) /\ v \in Seq(A)
    BY <1>1, <1>2, <2>1
  <2> HIDE DEF A, p, v
  <2>4. p \o v \in Seq(A)
    BY <2>3, ConcatProperties
  <2> QED
    BY <2>2, <2>4 DEF p, v, A
<1>4. CASE ~ (t < 0)
  <2>1. t \in Nat
    BY <1>4
  <2>2. Decimal(t) = Digits(t)
    BY <1>4 DEF Decimal
  <2> QED
    BY <1>1, <2>1, <2>2
<1> QED
  BY <1>3, <1>4

\* A decimal with the character that ends it.
LEMMA Ended ==
  ASSUME NEW t \in Int, NEW c \in {10, 11}
  PROVE  /\ Decimal(t) \o <<c>> \in Seq(0 .. 11)
         /\ Decimal(t) \o <<c>> # <<>>
<1> DEFINE A == 0 .. 11
           end == <<c>>
           v == Decimal(t)
<1>1. v \in Seq(A) /\ end \in Seq(A) /\ Len(end) = 1
  BY DecimalIsText
<1> HIDE DEF A, end, v
<1>2. v \o end \in Seq(A) /\ Len(v \o end) = Len(v) + 1 /\ Len(v) \in Nat
  BY <1>1, ConcatProperties, LenProperties
<1>3. v \o end # <<>>
  BY <1>2, EmptySeq
<1> QED
  BY <1>2, <1>3 DEF A, end, v

\* What each token adds to the hashed text of HashResult.
Placed(tokens) == [i \in 1 .. Len(tokens) |->
                     Decimal(i - 1) \o <<Colon>> \o Separated(tokens[i])]

\* The text that AddResult and recordVerification hash is that of one token list.
LEMMA ResultHashTells ==
  ASSUME NEW x \in Seq(Int), NEW y \in Seq(Int), ResultHash(x) = ResultHash(y)
  PROVE  x = y
<1> DEFINE A == 0 .. 11
           W == Seq(A)
           s == [i \in 1 .. Len(x) |-> Separated(x[i])]
           t == [i \in 1 .. Len(y) |-> Separated(y[i])]
<1>1. /\ \A i \in 1 .. Len(x) : x[i] \in Int
      /\ \A i \in 1 .. Len(y) : y[i] \in Int
      /\ Len(x) \in Nat /\ Len(y) \in Nat
  OBVIOUS
<1>2. \A i \in Int : Separated(i) = Decimal(i) \o <<10>>
  BY DEF Separated, Minus
<1>3. \A i \in Int : Separated(i) \in W /\ Separated(i) # <<>>
  <2> SUFFICES ASSUME NEW i \in Int PROVE Separated(i) \in W /\ Separated(i) # <<>>
    OBVIOUS
  <2>1. Separated(i) = Decimal(i) \o <<10>>
    BY <1>2
  <2>2. Decimal(i) \o <<10>> \in Seq(0 .. 11) /\ Decimal(i) \o <<10>> # <<>>
    BY Ended
  <2> QED
    BY <2>1, <2>2, Zenon
<1>4. \A i, j \in Int : Agree(Separated(i), Separated(j)) => i = j
  <2> SUFFICES ASSUME NEW i \in Int, NEW j \in Int, Agree(Separated(i), Separated(j))
               PROVE  i = j
    OBVIOUS
  <2>1. Agree(Decimal(i) \o <<10>>, Decimal(j) \o <<10>>)
    BY <1>2, Zenon
  <2> QED
    BY <2>1, DecimalsTerminate
<1> HIDE DEF A, W
<1>5. s \in [1 .. Len(x) -> W] /\ t \in [1 .. Len(y) -> W]
  BY <1>1, <1>3
<1>6. s \in Seq(W) /\ t \in Seq(W) /\ Len(s) = Len(x) /\ Len(t) = Len(y)
  <2> HIDE DEF s, t
  <2>1. s \in Seq(W) /\ Len(s) = Len(x)
    BY <1>1, <1>5, IsSequence
  <2>2. t \in Seq(W) /\ Len(t) = Len(y)
    BY <1>1, <1>5, IsSequence
  <2> QED
    BY <2>1, <2>2
<1>7. /\ \A i \in 1 .. Len(x) : s[i] = Separated(x[i])
      /\ \A i \in 1 .. Len(y) : t[i] = Separated(y[i])
  OBVIOUS
<1>8. FlattenSeq(s) = FlattenSeq(t)
  BY DEF ResultHash
<1> HIDE DEF s, t
<1>9. /\ \A i \in 1 .. Len(s) : s[i] # <<>>
      /\ \A i \in 1 .. Len(t) : t[i] # <<>>
  BY <1>1, <1>3, <1>6, <1>7
<1>10. \A i \in 1 .. Len(s) : i <= Len(t) /\ Agree(s[i], t[i]) => x[i] = y[i]
  <2> SUFFICES ASSUME NEW i \in 1 .. Len(s), i <= Len(t), Agree(s[i], t[i]) PROVE x[i] = y[i]
    OBVIOUS
  <2>1. i \in 1 .. Len(x) /\ i \in 1 .. Len(y)
    BY <1>1, <1>6
  <2>2. x[i] \in Int /\ y[i] \in Int /\ s[i] = Separated(x[i]) /\ t[i] = Separated(y[i])
    BY <1>1, <1>7, <2>1
  <2>3. Agree(Separated(x[i]), Separated(y[i]))
    BY <2>2, Zenon
  <2> QED
    BY <1>4, <2>2, <2>3
<1>11. s = t
  <2>1. \A i \in 1 .. Len(s) : i <= Len(t) /\ Agree(s[i], t[i]) => s[i] = t[i]
    <3> SUFFICES ASSUME NEW i \in 1 .. Len(s), i <= Len(t), Agree(s[i], t[i]) PROVE s[i] = t[i]
      OBVIOUS
    <3>1. x[i] = y[i] /\ i \in 1 .. Len(x) /\ i \in 1 .. Len(y)
      BY <1>1, <1>6, <1>10
    <3>2. s[i] = Separated(x[i]) /\ t[i] = Separated(y[i])
      BY <1>7, <3>1
    <3> QED
      BY <3>1, <3>2, Zenon
  <2> QED
    BY <1>6, <1>8, <1>9, <2>1, FlattenTells DEF W
<1>12. Len(x) = Len(y)
  BY <1>6, <1>11
<1>13. ASSUME NEW i \in 1 .. Len(x) PROVE x[i] = y[i]
  <2>1. i \in 1 .. Len(s) /\ i <= Len(t)
    BY <1>1, <1>6, <1>12, <1>13
  <2>2. Agree(s[i], t[i])
    BY <1>11 DEF Agree
  <2> QED
    BY <1>10, <2>1, <2>2
<1> QED
  BY <1>12, <1>13, SeqEqual

\* The text that HashResult hashes is that of one seed and one token list.
LEMMA HashResultTells ==
  ASSUME NEW a \in Int, NEW b \in Int, NEW x \in Seq(Int), NEW y \in Seq(Int),
         HashResult(a, x) = HashResult(b, y)
  PROVE  a = b /\ x = y
<1> DEFINE A == 0 .. 11
           W == Seq(A)
           s == Placed(x)
           t == Placed(y)
           head(i) == Decimal(i) \o <<11>>
<1>1. /\ \A i \in 1 .. Len(x) : x[i] \in Int
      /\ \A i \in 1 .. Len(y) : y[i] \in Int
      /\ Len(x) \in Nat /\ Len(y) \in Nat
  OBVIOUS
<1>2. \A i \in Int : Separated(i) = Decimal(i) \o <<10>>
  BY DEF Separated, Minus
<1>3. \A i \in Int : head(i) \in W /\ Separated(i) \in W
  <2> SUFFICES ASSUME NEW i \in Int PROVE head(i) \in W /\ Separated(i) \in W
    OBVIOUS
  <2>1. Separated(i) = Decimal(i) \o <<10>>
    BY <1>2
  <2>2. Decimal(i) \o <<10>> \in Seq(0 .. 11) /\ Decimal(i) \o <<11>> \in Seq(0 .. 11)
    BY Ended
  <2> QED
    BY <2>1, <2>2, Zenon
<1>4. \A i \in Int : head(i) # <<>>
  BY Ended
<1>5. \A i, j \in Int : Agree(Separated(i), Separated(j)) => i = j
  <2> SUFFICES ASSUME NEW i \in Int, NEW j \in Int, Agree(Separated(i), Separated(j))
               PROVE  i = j
    OBVIOUS
  <2>1. Agree(Decimal(i) \o <<10>>, Decimal(j) \o <<10>>)
    BY <1>2, Zenon
  <2> QED
    BY <2>1, DecimalsTerminate
<1>6. \A i, j \in Int : Agree(head(i), head(j)) => i = j
  BY DecimalsTerminate
<1>7. /\ s = [i \in 1 .. Len(x) |-> head(i - 1) \o Separated(x[i])]
      /\ t = [i \in 1 .. Len(y) |-> head(i - 1) \o Separated(y[i])]
  BY DEF Placed, Colon
<1>8. head(a) \o FlattenSeq(s) = head(b) \o FlattenSeq(t)
  BY DEF HashResult, Placed, Colon
<1> HIDE DEF A, W, s, t, head
<1>9. \A i, j \in Int : head(i) \o Separated(j) \in W /\ head(i) \o Separated(j) # <<>>
  <2> SUFFICES ASSUME NEW i \in Int, NEW j \in Int
               PROVE  head(i) \o Separated(j) \in W /\ head(i) \o Separated(j) # <<>>
    OBVIOUS
  <2> DEFINE p == head(i)
             v == Separated(j)
  <2>1. p \in Seq(A) /\ v \in Seq(A) /\ p # <<>>
    BY <1>3, <1>4 DEF W
  <2> HIDE DEF p, v
  <2>2. p \o v \in Seq(A)
    BY <2>1, ConcatProperties
  <2>3. p \o v # <<>>
    BY <2>1, ConcatEqualIffEmpty
  <2> QED
    BY <2>2, <2>3 DEF p, v, W
<1>10. /\ s \in [1 .. Len(x) -> W] /\ t \in [1 .. Len(y) -> W]
       /\ \A i \in 1 .. Len(x) : s[i] = head(i - 1) \o Separated(x[i]) /\ s[i] # <<>>
       /\ \A i \in 1 .. Len(y) : t[i] = head(i - 1) \o Separated(y[i]) /\ t[i] # <<>>
  <2>1. \A i \in 1 .. Len(x) : i - 1 \in Int /\ x[i] \in Int
    BY <1>1
  <2>2. \A i \in 1 .. Len(y) : i - 1 \in Int /\ y[i] \in Int
    BY <1>1
  <2>3. /\ \A i \in 1 .. Len(x) : s[i] = head(i - 1) \o Separated(x[i])
        /\ \A i \in 1 .. Len(y) : t[i] = head(i - 1) \o Separated(y[i])
        /\ s = [i \in 1 .. Len(x) |-> s[i]] /\ t = [i \in 1 .. Len(y) |-> t[i]]
    BY <1>7
  <2>4. /\ \A i \in 1 .. Len(x) : s[i] \in W /\ s[i] # <<>>
        /\ \A i \in 1 .. Len(y) : t[i] \in W /\ t[i] # <<>>
    BY <1>9, <2>1, <2>2, <2>3
  <2> QED
    BY <2>3, <2>4
<1>11. s \in Seq(W) /\ t \in Seq(W) /\ Len(s) = Len(x) /\ Len(t) = Len(y)
  <2>1. s \in Seq(W) /\ Len(s) = Len(x)
    BY <1>1, <1>10, IsSequence
  <2>2. t \in Seq(W) /\ Len(t) = Len(y)
    BY <1>1, <1>10, IsSequence
  <2> QED
    BY <2>1, <2>2
<1>12. FlattenSeq(s) \in Seq(A) /\ FlattenSeq(t) \in Seq(A)
  <2> SUFFICES ASSUME NEW u \in Seq(W) PROVE FlattenSeq(u) \in Seq(A)
    BY <1>11
  <2>1. PICK g \in [0 .. Len(u) -> Seq(A)] : FlattenSeq(u) = g[Len(u)]
    BY FlattenJoins DEF W
  <2>2. Len(u) \in 0 .. Len(u)
    OBVIOUS
  <2> QED
    BY <2>1, <2>2
<1>13. a = b
  <2> DEFINE p == head(a)
             q == head(b)
             v == FlattenSeq(s)
             w == FlattenSeq(t)
  <2>1. /\ p \in Seq(A) /\ q \in Seq(A) /\ v \in Seq(A) /\ w \in Seq(A)
        /\ p \o v = q \o w
    BY <1>3, <1>8, <1>12 DEF W
  <2>2. Agree(p, q) => a = b
    BY <1>6
  <2> HIDE DEF p, q, v, w
  <2>3. Agree(p \o v, q \o w)
    BY <2>1 DEF Agree
  <2>4. Agree(p, q)
    BY <2>1, <2>3, StartsAgree
  <2> QED
    BY <2>2, <2>4
<1>14. FlattenSeq(s) = FlattenSeq(t)
  <2> DEFINE p == head(a)
             v == FlattenSeq(s)
             w == FlattenSeq(t)
  <2>1. /\ p \in Seq(A) /\ v \in Seq(A) /\ w \in Seq(A)
        /\ p \o v = p \o w
    BY <1>3, <1>8, <1>12, <1>13 DEF W
  <2> HIDE DEF p, v, w
  <2>2. v = w
    BY <2>1, Cancels
  <2> QED
    BY <2>2 DEF v, w
<1>15. \A i \in 1 .. Len(s) : i <= Len(t) /\ Agree(s[i], t[i]) => x[i] = y[i]
  <2> SUFFICES ASSUME NEW i \in 1 .. Len(s), i <= Len(t), Agree(s[i], t[i]) PROVE x[i] = y[i]
    OBVIOUS
  <2>1. i \in 1 .. Len(x) /\ i \in 1 .. Len(y) /\ i - 1 \in Int
    BY <1>1, <1>11
  <2>2. x[i] \in Int /\ y[i] \in Int
    BY <1>1, <2>1
  <2> DEFINE p == head(i - 1)
             v == Separated(x[i])
             w == Separated(y[i])
  <2>3. p \in Seq(A) /\ v \in Seq(A) /\ w \in Seq(A) /\ s[i] = p \o v /\ t[i] = p \o w
    BY <1>3, <1>10, <2>1, <2>2 DEF W
  <2>4. Agree(v, w) => x[i] = y[i]
    BY <1>5, <2>2
  <2> HIDE DEF p, v, w
  <2>5. Agree(p \o v, p \o w)
    BY <2>3, Zenon
  <2>6. Agree(v, w)
    BY <2>3, <2>5, StartsAgree
  <2> QED
    BY <2>4, <2>6
<1>16. s = t
  <2>1. \A i \in 1 .. Len(s) : i <= Len(t) /\ Agree(s[i], t[i]) => s[i] = t[i]
    <3> SUFFICES ASSUME NEW i \in 1 .. Len(s), i <= Len(t), Agree(s[i], t[i]) PROVE s[i] = t[i]
      OBVIOUS
    <3>1. x[i] = y[i] /\ i \in 1 .. Len(x) /\ i \in 1 .. Len(y)
      BY <1>1, <1>11, <1>15
    <3>2. /\ s[i] = head(i - 1) \o Separated(x[i])
          /\ t[i] = head(i - 1) \o Separated(y[i])
      BY <1>10, <3>1
    <3> QED
      BY <3>1, <3>2, Zenon
  <2>2. /\ \A i \in 1 .. Len(s) : s[i] # <<>>
        /\ \A i \in 1 .. Len(t) : t[i] # <<>>
    BY <1>10, <1>11
  <2> QED
    BY <1>11, <1>14, <2>1, <2>2, FlattenTells DEF W
<1>17. Len(x) = Len(y)
  BY <1>11, <1>16
<1>18. ASSUME NEW i \in 1 .. Len(x) PROVE x[i] = y[i]
  <2>1. i \in 1 .. Len(s) /\ i <= Len(t)
    BY <1>1, <1>11, <1>17, <1>18
  <2>2. Agree(s[i], t[i])
    BY <1>16 DEF Agree
  <2> QED
    BY <1>15, <2>1, <2>2
<1>19. x = y
  BY <1>17, <1>18, SeqEqual
<1> QED
  BY <1>13, <1>19

\* What VerifyResults groups by equal hashes, and what VerifyDeterministic accepts, is
\* one token list: the texts that are hashed separate any two, whatever their lengths
\* and whatever integers the tokens are.
THEOREM HashesSeparate == Spec => []HashSeparates
<1>1. TokenLists \subseteq Seq(Int)
  <2> SUFFICES ASSUME NEW tokens \in TokenLists PROVE tokens \in Seq(Int)
    OBVIOUS
  <2>1. PICK n \in 0 .. MaxTokens : tokens \in [1 .. n -> Tokens]
    BY DEF TokenLists
  <2>2. n \in Nat /\ tokens \in [1 .. n -> Int]
    <3>1. n \in Nat
      BY TokensAssumption
    <3>2. Tokens \subseteq Int
      BY TokensAssumption
    <3> QED
      BY <2>1, <3>1, <3>2
  <2> QED
    BY <2>2, IsSequence
<1>2. Collisions = {}
  <2> SUFFICES ASSUME NEW st \in Collisions PROVE FALSE
    OBVIOUS
  <2> DEFINE x == st[1]
             y == st[2]
  <2>1. x \in Seq(Int) /\ y \in Seq(Int) /\ x # y
    BY <1>1 DEF Collisions
  <2>2. \/ ResultHash(x) = ResultHash(y)
        \/ \E a, b \in Tokens : VerifyDeterministic(a, x, HashResult(b, y))
    BY DEF Collisions
  <2> HIDE DEF x, y
  <2>3. CASE ResultHash(x) = ResultHash(y)
    BY <2>1, <2>3, ResultHashTells
  <2>4. CASE \E a, b \in Tokens : VerifyDeterministic(a, x, HashResult(b, y))
    <3>1. PICK a \in Tokens, b \in Tokens : HashResult(a, x) = HashResult(b, y)
      BY <2>4 DEF VerifyDeterministic
    <3>2. a \in Int /\ b \in Int
      BY TokensAssumption
    <3> QED
      BY <2>1, <3>1, <3>2, HashResultTells
  <2> QED
    BY <2>2, <2>3, <2>4
<1>3. HashSeparates
  BY <1>2 DEF HashSeparates
<1> QED
  BY <1>3, PTL
=============================================================================
