------------------------------ MODULE Verifier ------------------------------
(***************************************************************************)
(* verification.Verifier (verification/verifier.go): VerifyResults, which  *)
(* decides by majority between the results of several providers, and the   *)
(* statistical re-verification it may start in a goroutine, for any number *)
(* of calls that run concurrently over the shared pendingChallenges.       *)
(*                                                                         *)
(* An answer stands for a token sequence and for its hash.  A provider has *)
(* at most one result in a call, so the results are a function.  Karma is  *)
(* what AddFailure and AddContribution were called for (module Karma says  *)
(* what they do).                                                          *)
(***************************************************************************)
EXTENDS Integers, FiniteSets

CONSTANTS Calls,            \* invocations of VerifyResults
          Requests, Providers,
          Answers,          \* what a provider or a re-execution may answer
          Thresholds,       \* the thresholds callers pass
          None

ASSUME ProvidersAssumption == IsFiniteSet(Providers)
ASSUME ThresholdsAssumption == Thresholds \subseteq Nat \ {0}
ASSUME NoneAssumption == None \notin Requests \cup Answers \cup [by : Calls, verified : BOOLEAN]

VARIABLES pc,               \* where each call is
          request, results, threshold,      \* its arguments
          majority,         \* majorityHash
          dissented,        \* providers it called AddFailure for
          credited,         \* providers it called AddContribution for
          sampler,          \* where its runStatisticalVerification is
          reAnswer,         \* reResult.ConsensusTokens
          reProviders,      \* the providers that re-executed the request
          rePunished,       \* providers the goroutine called AddFailure for
          pendingChallenges

args == <<request, results, threshold>>
verdict == <<majority, dissented, credited>>
rerun == <<sampler, reAnswer, reProviders, rePunished>>
vars == <<pc, args, verdict, rerun, pendingChallenges>>

Results == UNION {[S -> Answers] : S \in SUBSET Providers}

NoResults == [p \in {} |-> None]

Challenges == [by : Calls, verified : BOOLEAN]

Init ==
    /\ pc = [c \in Calls |-> "idle"]
    /\ request = [c \in Calls |-> None]
    /\ results = [c \in Calls |-> NoResults]
    /\ threshold = [c \in Calls |-> 1]
    /\ majority = [c \in Calls |-> None]
    /\ dissented = [c \in Calls |-> {}]
    /\ credited = [c \in Calls |-> {}]
    /\ sampler = [c \in Calls |-> "none"]
    /\ reAnswer = [c \in Calls |-> None]
    /\ reProviders = [c \in Calls |-> {}]
    /\ rePunished = [c \in Calls |-> {}]
    /\ pendingChallenges = [r \in Requests |-> None]

-----------------------------------------------------------------------------
\* hashGroups: the providers that gave the answer a.
Group(rs, a) == {p \in DOMAIN rs : rs[p] = a}

Count(rs, a) == Cardinality(Group(rs, a))

\* Mutant: the search stops at the first group, whatever its size.
MajoritiesAny(rs) == {a \in Answers : Count(rs, a) > 0}

\* The largest group.  The groups are visited in the order of a map iteration,
\* so of several largest groups any may be found first.
Majorities(rs) == {a \in Answers : \A b \in Answers : Count(rs, a) >= Count(rs, b)}

ConsensusAchieved(c) == Count(results[c], majority[c]) >= threshold[c]

\* VerifyResults up to the decision.
VerifyResults(c, r, rs, t) ==
    /\ pc[c] = "idle"
    /\ Cardinality(DOMAIN rs) >= t
    /\ \E a \in Majorities(rs) : majority' = [majority EXCEPT ![c] = a]
    /\ request' = [request EXCEPT ![c] = r]
    /\ results' = [results EXCEPT ![c] = rs]
    /\ threshold' = [threshold EXCEPT ![c] = t]
    /\ pc' = [pc EXCEPT ![c] = "penalize"]
    /\ UNCHANGED <<dissented, credited, rerun, pendingChallenges>>

\* "insufficient results".
Insufficient(c, rs, t) ==
    /\ pc[c] = "idle"
    /\ Cardinality(DOMAIN rs) < t
    /\ pc' = [pc EXCEPT ![c] = "refused"]
    /\ UNCHANGED <<args, verdict, rerun, pendingChallenges>>

PenalizeDissenters(c) ==
    /\ pc[c] = "penalize"
    /\ dissented' = [dissented EXCEPT ![c] =
                       {p \in DOMAIN results[c] : results[c][p] # majority[c]}]
    /\ pc' = [pc EXCEPT ![c] = "credit"]
    /\ UNCHANGED <<args, majority, credited, rerun, pendingChallenges>>

CreditMajority(c) ==
    /\ pc[c] = "credit"
    /\ credited' = [credited EXCEPT ![c] = Group(results[c], majority[c])]
    /\ pc' = [pc EXCEPT ![c] = "record"]
    /\ UNCHANGED <<args, majority, dissented, rerun, pendingChallenges>>

\* Mutant: a challenge counts as failed until it is re-verified.
RecordedUnverified(c) ==
    [pendingChallenges EXCEPT ![request[c]] = [by |-> c, verified |-> FALSE]]

Recorded(c) ==
    [pendingChallenges EXCEPT ![request[c]] = [by |-> c, verified |-> TRUE]]

\* recordVerification: 5% of the calls start a re-verification.
RecordVerification(c) ==
    /\ pc[c] = "record"
    /\ pendingChallenges' = Recorded(c)
    /\ \E s \in {"none", "executing"} : sampler' = [sampler EXCEPT ![c] = s]
    /\ pc' = [pc EXCEPT ![c] = "returned"]
    /\ UNCHANGED <<args, verdict, reAnswer, reProviders, rePunished>>

-----------------------------------------------------------------------------
\* runStatisticalVerification, a goroutine.

\* No ReExecuter, or ReRequestInference returned an error.
ReExecutionFails(c) ==
    /\ sampler[c] = "executing"
    /\ sampler' = [sampler EXCEPT ![c] = "ended"]
    /\ UNCHANGED <<pc, args, verdict, reAnswer, reProviders, rePunished, pendingChallenges>>

\* ReRequestInference runs on the providers that findBestProviders selects now.
ReExecuted(c, ps, a) ==
    /\ sampler[c] = "executing"
    /\ reProviders' = [reProviders EXCEPT ![c] = ps]
    /\ reAnswer' = [reAnswer EXCEPT ![c] = a]
    /\ sampler' = [sampler EXCEPT ![c] = "compare"]
    /\ UNCHANGED <<pc, args, verdict, rePunished, pendingChallenges>>

Matches(c) == reAnswer[c] = majority[c]

Compare(c) ==
    /\ sampler[c] = "compare"
    /\ rePunished' = IF Matches(c) THEN rePunished
                     ELSE [rePunished EXCEPT ![c] = DOMAIN results[c]]
    /\ sampler' = [sampler EXCEPT ![c] = "store"]
    /\ UNCHANGED <<pc, args, verdict, reAnswer, reProviders, pendingChallenges>>

\* Mutant: the flag is stored as soon as the request was re-executed at all.
FlagReExecuted(c) == TRUE

Flag(c) == Matches(c)

StoreVerification(c) ==
    /\ sampler[c] = "store"
    /\ pendingChallenges' =
         IF pendingChallenges[request[c]] = None THEN pendingChallenges
         ELSE [pendingChallenges EXCEPT ![request[c]] = [by |-> @.by, verified |-> Flag(c)]]
    /\ sampler' = [sampler EXCEPT ![c] = "ended"]
    /\ UNCHANGED <<pc, args, verdict, reAnswer, reProviders, rePunished>>

-----------------------------------------------------------------------------
Next ==
    \E c \in Calls :
        \/ \E r \in Requests, rs \in Results, t \in Thresholds : VerifyResults(c, r, rs, t)
        \/ \E rs \in Results, t \in Thresholds : Insufficient(c, rs, t)
        \/ PenalizeDissenters(c) \/ CreditMajority(c) \/ RecordVerification(c)
        \/ ReExecutionFails(c)
        \/ \E ps \in SUBSET Providers \ {{}}, a \in Answers : ReExecuted(c, ps, a)
        \/ Compare(c) \/ StoreVerification(c)

Spec == Init /\ [][Next]_vars

-----------------------------------------------------------------------------
Voted(c) == pc[c] \notin {"idle", "refused"}

\* Type invariant of the verifier, its calls and their re-verifications.
TypeOK ==
    /\ pc \in [Calls -> {"idle", "penalize", "credit", "record", "returned", "refused"}]
    /\ request \in [Calls -> Requests \cup {None}]
    /\ results \in [Calls -> Results]
    /\ threshold \in [Calls -> Nat \ {0}]
    /\ majority \in [Calls -> Answers \cup {None}]
    /\ dissented \in [Calls -> SUBSET Providers]
    /\ credited \in [Calls -> SUBSET Providers]
    /\ sampler \in [Calls -> {"none", "executing", "compare", "store", "ended"}]
    /\ reAnswer \in [Calls -> Answers \cup {None}]
    /\ reProviders \in [Calls -> SUBSET Providers]
    /\ rePunished \in [Calls -> SUBSET Providers]
    /\ pendingChallenges \in [Requests -> Challenges \cup {None}]
    /\ \A c \in Calls :
         /\ pc[c] # "returned" => sampler[c] = "none"
         /\ Voted(c) => request[c] \in Requests /\ majority[c] \in Answers

\* Whatever the order in which the groups are visited: when a threshold of more
\* than half of the results is reached by an answer, that answer is the
\* consensus, and its providers are never the ones penalized.
QuorumWins ==
    \A c \in Calls, a \in Answers :
        /\ Voted(c)
        /\ Count(results[c], a) >= threshold[c]
        /\ 2 * threshold[c] > Cardinality(DOMAIN results[c])
        => /\ majority[c] = a
           /\ ConsensusAchieved(c)
           /\ dissented[c] \cap Group(results[c], a) = {}

\* A challenge is marked as failed only by a re-execution of its own request
\* that gave another answer than the one decided on; the goroutines of other
\* requests never touch it.
FailedFlagJustified ==
    \A r \in Requests :
        pendingChallenges[r] # None /\ ~ pendingChallenges[r].verified =>
            \E c \in Calls : request[c] = r /\ sampler[c] = "ended" /\ ~ Matches(c)

RecordedOn(r) == {c \in Calls : pc[c] = "returned" /\ request[c] = r}

\* When a request was verified once, the audit flag is final after its
\* re-verification and tells whether the re-execution agreed.
SingleAuditExact ==
    \A c \in Calls :
        /\ sampler[c] = "ended" /\ reAnswer[c] # None
        /\ RecordedOn(request[c]) = {c}
        => pendingChallenges[request[c]] = [by |-> c, verified |-> Matches(c)]
=============================================================================
