------------------------------ MODULE Pipeline ------------------------------
(***************************************************************************)
(* The consumer's stage pipeline (pipeline/orchestrator.go, checkpoint.go):*)
(* Orchestrator.ReRequestInference and the executePipeline loop it drives, *)
(* for any number of calls that run concurrently (each verification that   *)
(* samples a result starts one in a goroutine of its own) over the shared  *)
(* CheckpointStore and pendingReqs.                                        *)
(*                                                                         *)
(* Encrypted activations are abstracted to what a stage can get wrong:     *)
(* either they went through the stages of the layers 0 .. upto-1, once     *)
(* each and in order, or they are Corrupt (an empty answer, or anything    *)
(* computed from one).  Which layers an engine runs for a stage is the     *)
(* subject of module HEEngine; what one executeStage call can return is    *)
(* the abstraction that module InferenceStream implements.                 *)
(***************************************************************************)
EXTENDS Stages, FiniteSets

CONSTANTS Calls,            \* invocations of ReRequestInference
          Requests,         \* IDs of the original requests
          Providers,        \* provider peer IDs
          MaxRetries,       \* maxRetries: attempts per stage
          MaxTick,          \* bound: last tick of the wall clock
          None

ASSUME ProvidersAssumption == IsFiniteSet(Providers)
ASSUME RetriesAssumption == MaxRetries \in Nat \ {0}
ASSUME TickAssumption == MaxTick \in Nat
ASSUME NoneAssumption ==
    None \notin (Requests \X Nat) \cup [end : Nat, state : [ok : BOOLEAN, upto : Nat]]

VARIABLES now,              \* time.Now().UnixNano(), in ticks of its resolution
          pendingReqs,      \* keys of Orchestrator.pendingReqs
          cpStore,          \* CheckpointStore.checkpoints
          pc,               \* where each call is
          reqID,            \* newReq.RequestID
          stages,           \* alloc.Stages
          stage,            \* the loop's i, from 1
          activations,
          attempt

shared == <<now, pendingReqs, cpStore>>
locals == <<pc, reqID, stages, stage, activations, attempt>>
vars == <<shared, locals>>

-----------------------------------------------------------------------------
Activations == [ok : BOOLEAN, upto : 0 .. TotalLayers]

EncryptedInput == [ok |-> TRUE, upto |-> 0]
Corrupt == [ok |-> FALSE, upto |-> 0]

\* Mutant: a provider runs its layers on whatever it gets.
ComputedAnyway(a, st) == [ok |-> TRUE, upto |-> st.end]

\* What the provider of stage st makes of the activations a.
Computed(a, st) ==
    IF a.ok /\ a.upto = st.start THEN [ok |-> TRUE, upto |-> st.end] ELSE Corrupt

\* What executeStage returns with a nil error: what the provider computed, or
\* the empty answer of a provider that failed and closed the stream.
Answers(a, st) == {Computed(a, st), Corrupt}

Stage == [provider : Providers, start : 0 .. TotalLayers, end : 0 .. TotalLayers]

\* "<request>-reexec-<UnixNano>": calls on one request within one tick of the
\* clock get the same ID.
RequestIDs == Requests \X (0 .. MaxTick)

\* What findBestProviders and AllocateLayers return for the providers known at
\* that moment: nothing, or a partition of the model over some of them
\* (theorem AllocationTilesModel of LayerAllocatorProofs).
Allocations ==
    {ss \in UNION {[1 .. n -> Stage] : n \in 0 .. Cardinality(Providers)} :
        /\ Consecutive(ss, TotalLayers)
        /\ \A i, j \in DOMAIN ss : ss[i].provider = ss[j].provider => i = j}

Checkpoints == [end : 0 .. TotalLayers, state : Activations]

\* Mutant: the checkpoint records where its stage begins.
NewCheckpointAtStart(st, a) == [end |-> st.start, state |-> a]

NewCheckpoint(st, a) == [end |-> st.end, state |-> a]

Init ==
    /\ now = 0
    /\ pendingReqs = {}
    /\ cpStore = [id \in RequestIDs |-> None]
    /\ pc = [c \in Calls |-> "idle"]
    /\ reqID = [c \in Calls |-> None]
    /\ stages = [c \in Calls |-> <<>>]
    /\ stage = [c \in Calls |-> 1]
    /\ activations = [c \in Calls |-> EncryptedInput]
    /\ attempt = [c \in Calls |-> 0]

-----------------------------------------------------------------------------
Tick ==
    /\ now < MaxTick
    /\ now' = now + 1
    /\ UNCHANGED <<pendingReqs, cpStore, locals>>

\* The end of a RequestInference that succeeded: the request is remembered so
\* that its result can be re-verified.  It is never removed.
RememberRequest(r) ==
    /\ r \notin pendingReqs
    /\ pendingReqs' = pendingReqs \cup {r}
    /\ UNCHANGED <<now, cpStore, locals>>

\* ReRequestInference up to the checkpoint lookup.
Begin(c, r) ==
    /\ pc[c] = "idle"
    /\ r \in pendingReqs
    /\ \E ss \in Allocations :
         /\ stages' = [stages EXCEPT ![c] = ss]
         /\ pc' = [pc EXCEPT ![c] = IF ss = <<>> THEN "failed" ELSE "load"]
    /\ reqID' = [reqID EXCEPT ![c] = <<r, now>>]
    /\ UNCHANGED <<shared, stage, activations, attempt>>

\* "request %s not found for re-execution", or he.EncryptInput failed.
Refuse(c) ==
    /\ pc[c] = "idle"
    /\ pc' = [pc EXCEPT ![c] = "failed"]
    /\ UNCHANGED <<shared, reqID, stages, stage, activations, attempt>>

\* Mutant: the loop leaves out the last stage.
LoopHeadShort(c, i) == IF i < Len(stages[c]) THEN "connect" ELSE "finish"

\* Where the loop goes with the stage index i.
LoopHead(c, i) == IF i <= Len(stages[c]) THEN "connect" ELSE "finish"

\* Mutant: any stage that ends at or after the checkpoint.
ResumesAtOrAfter(c, i) ==
    /\ cpStore[reqID[c]] # None
    /\ i \in 1 .. Len(stages[c])
    /\ stages[c][i].end >= cpStore[reqID[c]].end

\* The stage that ends where the checkpoint does: execution resumes after it.
ResumesAfter(c, i) ==
    /\ cpStore[reqID[c]] # None
    /\ i \in 1 .. Len(stages[c])
    /\ stages[c][i].end = cpStore[reqID[c]].end

Resume(c) ==
    /\ pc[c] = "load"
    /\ \E i \in DOMAIN stages[c] :
         /\ ResumesAfter(c, i)
         /\ stage' = [stage EXCEPT ![c] = i + 1]
         /\ pc' = [pc EXCEPT ![c] = LoopHead(c, i + 1)]
    /\ activations' = [activations EXCEPT ![c] = cpStore[reqID[c]].state]
    /\ UNCHANGED <<shared, reqID, stages, attempt>>

StartAfresh(c) ==
    /\ pc[c] = "load"
    /\ \A i \in DOMAIN stages[c] : ~ ResumesAfter(c, i)
    /\ pc' = [pc EXCEPT ![c] = "connect"]
    /\ UNCHANGED <<shared, reqID, stages, stage, activations, attempt>>

Connect(c) ==
    /\ pc[c] = "connect"
    /\ pc' = [pc EXCEPT ![c] = "send"]
    /\ attempt' = [attempt EXCEPT ![c] = 0]
    /\ UNCHANGED <<shared, reqID, stages, stage, activations>>

\* No connection and no address that answers: the whole call fails.
ConnectFails(c) ==
    /\ pc[c] = "connect"
    /\ pc' = [pc EXCEPT ![c] = "failed"]
    /\ UNCHANGED <<shared, reqID, stages, stage, activations, attempt>>

\* executeStage returned bytes and no error.
StageAnswers(c) ==
    /\ pc[c] = "send"
    /\ \E answer \in Answers(activations[c], stages[c][stage[c]]) :
         activations' = [activations EXCEPT ![c] = answer]
    /\ pc' = [pc EXCEPT ![c] = "save"]
    /\ UNCHANGED <<shared, reqID, stages, stage, attempt>>

\* Mutant: the retry does not count.
AttemptUncounted(n) == n

NextAttempt(n) == n + 1

\* executeStage returned an error: the call sleeps before it looks at the
\* number of attempts again.
StageErrs(c) ==
    /\ pc[c] = "send"
    /\ attempt' = [attempt EXCEPT ![c] = NextAttempt(@)]
    /\ pc' = [pc EXCEPT ![c] = "backoff"]
    /\ UNCHANGED <<shared, reqID, stages, stage, activations>>

\* Mutant: one attempt too many.
AttemptsLeftOrEqual(n) == n <= MaxRetries

AttemptsLeft(n) == n < MaxRetries

WakeUp(c) ==
    /\ pc[c] = "backoff"
    /\ pc' = [pc EXCEPT ![c] = IF AttemptsLeft(attempt[c]) THEN "send" ELSE "failed"]
    /\ UNCHANGED <<shared, reqID, stages, stage, activations, attempt>>

\* Mutant: saved under the ID of the request instead of the execution's.
CheckpointKeyOfRequest(c) == <<reqID[c][1], 0>>

CheckpointKey(c) == reqID[c]

SaveCheckpoint(c) ==
    /\ pc[c] = "save"
    /\ cpStore' = [cpStore EXCEPT ![CheckpointKey(c)] =
                     NewCheckpoint(stages[c][stage[c]], activations[c])]
    /\ stage' = [stage EXCEPT ![c] = @ + 1]
    /\ pc' = [pc EXCEPT ![c] = LoopHead(c, stage[c] + 1)]
    /\ UNCHANGED <<now, pendingReqs, reqID, stages, activations, attempt>>

\* Mutant: the checkpoint outlives the execution it was for.
WithCheckpointKept(id) == cpStore

WithoutCheckpoint(id) == [cpStore EXCEPT ![id] = None]

\* DeleteCheckpoint, and executePipeline returns without an error.
Finish(c) ==
    /\ pc[c] = "finish"
    /\ cpStore' = WithoutCheckpoint(reqID[c])
    /\ pc' = [pc EXCEPT ![c] = "decrypt"]
    /\ UNCHANGED <<now, pendingReqs, reqID, stages, stage, activations, attempt>>

\* he.DecryptOutput deserializes the activations; corrupt ones may pass.
Decrypt(c) ==
    /\ pc[c] = "decrypt"
    /\ \E end \in IF activations[c].ok THEN {"done"} ELSE {"done", "failed"} :
         pc' = [pc EXCEPT ![c] = end]
    /\ UNCHANGED <<shared, reqID, stages, stage, activations, attempt>>

\* Steps the call takes without waiting for a provider.
OwnStep(c) ==
    \/ Resume(c) \/ StartAfresh(c)
    \/ Connect(c) \/ ConnectFails(c)
    \/ WakeUp(c) \/ SaveCheckpoint(c) \/ Finish(c) \/ Decrypt(c)

StageReturns(c) == StageAnswers(c) \/ StageErrs(c)

Next ==
    \/ Tick
    \/ \E r \in Requests : RememberRequest(r)
    \/ \E c \in Calls :
         \/ \E r \in Requests : Begin(c, r)
         \/ Refuse(c)
         \/ OwnStep(c)
         \/ StageReturns(c)

Spec == Init /\ [][Next]_vars

\* A goroutine that is not waiting for a provider keeps running.
FairSpec == Spec /\ \A c \in Calls : WF_vars(OwnStep(c))

-----------------------------------------------------------------------------
States == {"idle", "load", "connect", "send", "backoff", "save", "finish",
           "decrypt", "done", "failed"}

\* Type invariant of the orchestrator's shared maps and of each call's locals.
TypeOK ==
    /\ now \in 0 .. MaxTick
    /\ pendingReqs \subseteq Requests
    /\ cpStore \in [RequestIDs -> Checkpoints \cup {None}]
    /\ pc \in [Calls -> States]
    /\ reqID \in [Calls -> RequestIDs \cup {None}]
    /\ stages \in [Calls -> Allocations]
    /\ stage \in [Calls -> Nat \ {0}]
    /\ activations \in [Calls -> Activations]
    /\ attempt \in [Calls -> 0 .. MaxRetries]

Executing(c) == pc[c] \in {"connect", "send", "backoff"}

\* executePipeline's checkpoint contract: whoever saved it, and however that
\* call had cut the model into stages, an intact checkpoint holds the model's
\* layers up to its EndLayer, so that resuming after it skips and repeats none.
CheckpointExact ==
    \A id \in RequestIDs :
        cpStore[id] # None /\ cpStore[id].state.ok =>
            cpStore[id].state.upto = cpStore[id].end

\* A stage is never sent activations of the wrong layer, resumed or not: if
\* they are intact, they are the layers before the stage's StartLayer.
StageInputExact ==
    \A c \in Calls :
        Executing(c) /\ activations[c].ok =>
            activations[c].upto = stages[c][stage[c]].start

\* Output that no provider failed on went through the stages of all layers,
\* each layer's once and in order, also when another call's checkpoint supplied
\* a prefix of it.
OutputExact ==
    \A c \in Calls :
        pc[c] \in {"finish", "decrypt", "done"} /\ activations[c].ok =>
            activations[c].upto = TotalLayers

\* Every checkpoint in the store belongs to a call that got past its first
\* stage and is still executing, or that failed: the deletion on success is not
\* undone by another call.
CheckpointOwned ==
    \A id \in RequestIDs :
        cpStore[id] # None =>
            \E c \in Calls : /\ reqID[c] = id /\ stage[c] > 1
                             /\ Executing(c) \/ pc[c] \in {"save", "finish", "failed"}

\* As long as one call owns an ID its checkpoint only moves forward: a saved
\* stage never replaces the checkpoint of a later one.
CheckpointAdvances ==
    [][\A id \in RequestIDs :
          cpStore[id] # None /\ cpStore'[id] # None /\ cpStore'[id].end < cpStore[id].end
            => \E c, d \in Calls : c # d /\ reqID[c] = id /\ reqID[d] = id]_vars

\* Activations that are intact tell how many layers are behind them.
DepthOf(a) == IF a.ok THEN a.upto ELSE -1

\* A checkpoint promises the layers up to its EndLayer.
DepthOfCheckpoint(cp) ==
    IF cp = None THEN -2 ELSE IF cp.state.ok THEN cp.end ELSE -1

OutcomeAt(place) ==
    CASE place = "idle" -> "none"
      [] place = "decrypt" -> "complete"
      [] place = "done" -> "output"
      [] place = "failed" -> "failed"
      [] OTHER -> "working"

Abstract == INSTANCE Reexecution WITH
                IDs <- RequestIDs,
                id <- reqID,
                depth <- [c \in Calls |-> DepthOf(activations[c])],
                outcome <- [c \in Calls |-> OutcomeAt(pc[c])],
                saved <- [i \in RequestIDs |-> DepthOfCheckpoint(cpStore[i])]

\* ReRequestInference with its stages, retries and concurrent calls is nothing else
\* than a Reexecution of each call: what a checkpoint of any of them says is where
\* each goes on, and nothing that was lost is ever taken for layers again.
ImplementsReexecution == Abstract!Spec

\* If every executeStage call returned, every call would: the retries are
\* bounded and no resume sends a call back to an earlier stage.
CallsReturn ==
    (\A c \in Calls : []<>(pc[c] # "send") ) =>
        \A c \in Calls : pc[c] = "load" ~> pc[c] \in {"done", "failed"}

\* orchestrator.go:314 "Retry mechanism for provider failures": what
\* executePipeline returns as its result is never the output of a provider
\* that failed.
FailuresAreRetried ==
    \A c \in Calls : pc[c] = "decrypt" => activations[c].ok
=============================================================================
