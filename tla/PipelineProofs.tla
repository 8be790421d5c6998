--------------------------- MODULE PipelineProofs ---------------------------
(***************************************************************************)
(* The checkpoint contract of executePipeline for any number of concurrent *)
(* calls, providers, layers and retries: an intact checkpoint holds exactly*)
(* the layers it names, so no stage ever gets the input of another one and *)
(* what is returned went through every layer once.                         *)
(***************************************************************************)
EXTENDS Pipeline, FiniteSetTheorems, TLAPS

\* Where a call is in its allocation, and what it then holds.
Located(c) ==
    /\ pc[c] \notin {"idle", "failed"} => reqID[c] \in RequestIDs /\ stages[c] # <<>>
    /\ pc[c] \in {"idle", "load"} => stage[c] = 1 /\ activations[c] = EncryptedInput
    /\ Executing(c) \/ pc[c] = "save" => stage[c] <= Len(stages[c])
    /\ pc[c] \in {"send", "backoff"} => attempt[c] <= MaxRetries
    /\ pc[c] = "send" => attempt[c] < MaxRetries

Holds(c) ==
    /\ pc[c] = "save" /\ activations[c].ok =>
          activations[c].upto = stages[c][stage[c]].end
    /\ Executing(c) /\ activations[c].ok =>
          activations[c].upto = stages[c][stage[c]].start
    /\ pc[c] \in {"finish", "decrypt", "done"} /\ activations[c].ok =>
          activations[c].upto = TotalLayers

IInv == /\ TypeOK
        /\ \A c \in Calls : Located(c) /\ Holds(c)
        /\ CheckpointExact

-----------------------------------------------------------------------------
\* What the pipeline needs of an allocation.
LEMMA AllocationFacts ==
  ASSUME NEW ss \in Allocations
  PROVE  /\ Len(ss) \in Nat /\ DOMAIN ss = 1 .. Len(ss)
         /\ ss = <<>> <=> Len(ss) = 0
         /\ \A i \in 1 .. Len(ss) : ss[i] \in Stage
         /\ \A i \in 1 .. Len(ss) : i < Len(ss) => ss[i].end = ss[i + 1].start
         /\ ss # <<>> => ss[1].start = 0 /\ ss[Len(ss)].end = TotalLayers
<1>1. PICK n \in 0 .. Cardinality(Providers) : ss \in [1 .. n -> Stage]
  BY DEF Allocations
<1>2. n \in Nat /\ Len(ss) = n /\ DOMAIN ss = 1 .. n
  BY <1>1
<1>3. ss \in Seq(Stage)
  BY <1>1, <1>2
<1>4. Consecutive(ss, TotalLayers)
  BY DEF Allocations
<1>5. ASSUME NEW i \in 1 .. Len(ss), i < Len(ss)
      PROVE  ss[i].end = ss[i + 1].start
  <2>1. i \in 1 .. Len(ss) - 1
    BY <1>2, <1>5
  <2> QED
    BY <1>4, <2>1 DEF Consecutive
<1>6. ss # <<>> => ss[1].start = 0 /\ ss[Len(ss)].end = TotalLayers
  BY <1>4 DEF Consecutive
<1>7. \A i \in 1 .. Len(ss) : ss[i] \in Stage
  BY <1>1, <1>2
<1>8. ss = <<>> <=> Len(ss) = 0
  BY <1>3
<1> QED
  BY <1>2, <1>5, <1>6, <1>7, <1>8

LEMMA EmptyAllocation == <<>> \in Allocations
<1>1. Cardinality(Providers) \in Nat
  BY ProvidersAssumption, FS_CardinalityType
<1>2. <<>> \in [1 .. 0 -> Stage] /\ 0 \in 0 .. Cardinality(Providers)
  BY <1>1
<1>3. Consecutive(<<>>, TotalLayers)
  BY DEF Consecutive
<1> QED
  BY <1>2, <1>3 DEF Allocations

LEMMA ComputedType ==
  ASSUME NEW a \in Activations, NEW st \in Stage
  PROVE  Answers(a, st) \subseteq Activations
BY LayersAssumption DEF Answers, Computed, Corrupt, Activations, Stage

LEMMA InitHolds == Init => IInv
<1> SUFFICES ASSUME Init PROVE IInv
  OBVIOUS
<1>1. TypeOK
  BY EmptyAllocation, LayersAssumption, RetriesAssumption, TickAssumption
     DEF Init, TypeOK, States, EncryptedInput, Activations
<1>2. \A c \in Calls : Located(c) /\ Holds(c)
  BY DEF Init, Located, Holds, Executing
<1>3. CheckpointExact
  BY DEF Init, CheckpointExact
<1> QED
  BY <1>1, <1>2, <1>3 DEF IInv

-----------------------------------------------------------------------------
\* Every step, call by call.
LEMMA BeginHolds ==
  ASSUME IInv, NEW c \in Calls, NEW r \in Requests, Begin(c, r)
  PROVE  IInv'
<1> USE DEF IInv, TypeOK, Begin, shared
<1>1. PICK ss \in Allocations :
        /\ stages' = [stages EXCEPT ![c] = ss]
        /\ pc' = [pc EXCEPT ![c] = IF ss = <<>> THEN "failed" ELSE "load"]
  OBVIOUS
<1>2. <<r, now>> \in RequestIDs
  BY DEF RequestIDs
<1>3. TypeOK'
  BY <1>1, <1>2 DEF States
<1>4. ASSUME NEW d \in Calls
      PROVE  Located(d)' /\ Holds(d)'
  BY <1>1, <1>2 DEF Located, Holds, Executing
<1>5. CheckpointExact'
  BY DEF CheckpointExact
<1> QED
  BY <1>3, <1>4, <1>5

LEMMA ResumeHolds ==
  ASSUME IInv, NEW c \in Calls, Resume(c)
  PROVE  IInv'
<1> USE DEF IInv, TypeOK, Resume, shared
<1>1. PICK i \in DOMAIN stages[c] :
         /\ ResumesAfter(c, i)
         /\ stage' = [stage EXCEPT ![c] = i + 1]
         /\ pc' = [pc EXCEPT ![c] = LoopHead(c, i + 1)]
  OBVIOUS
<1> DEFINE ss == stages[c]
           cp == cpStore[reqID[c]]
<1>2. reqID[c] \in RequestIDs /\ cp # None /\ cp \in Checkpoints /\ i \in 1 .. Len(ss) /\ ss[i].end = cp.end
  BY <1>1 DEF ResumesAfter, Located
<1>3. /\ Len(ss) \in Nat
      /\ ss # <<>> => ss[Len(ss)].end = TotalLayers
      /\ i < Len(ss) => ss[i].end = ss[i + 1].start
  BY <1>2, AllocationFacts
<1>4. cp.state \in Activations /\ (cp.state.ok => cp.state.upto = cp.end)
  <2>1. cp.state \in Activations
    BY <1>2 DEF Checkpoints
  <2>2. cp.state.ok => cp.state.upto = cp.end
    BY <1>2 DEF CheckpointExact
  <2> QED
    BY <2>1, <2>2
<1>5. LoopHead(c, i + 1) = IF i + 1 <= Len(ss) THEN "connect" ELSE "finish"
  BY DEF LoopHead
<1>6. TypeOK'
  BY <1>1, <1>2, <1>3, <1>4, <1>5 DEF States
<1>7. ASSUME NEW d \in Calls
      PROVE  Located(d)' /\ Holds(d)'
  BY <1>1, <1>2, <1>3, <1>4, <1>5 DEF Located, Holds, Executing
<1>8. CheckpointExact'
  BY DEF CheckpointExact
<1> QED
  BY <1>6, <1>7, <1>8

LEMMA StartAfreshHolds ==
  ASSUME IInv, NEW c \in Calls, StartAfresh(c)
  PROVE  IInv'
<1> USE DEF IInv, TypeOK, StartAfresh, shared
<1>1. stages[c] # <<>> /\ stage[c] = 1 /\ activations[c] = EncryptedInput
  BY DEF Located
<1>2. 1 <= Len(stages[c]) /\ stages[c][1].start = 0
  BY <1>1, AllocationFacts
<1>3. TypeOK'
  BY DEF States
<1>4. ASSUME NEW d \in Calls
      PROVE  Located(d)' /\ Holds(d)'
  BY <1>1, <1>2 DEF Located, Holds, Executing, EncryptedInput
<1>5. CheckpointExact'
  BY DEF CheckpointExact
<1> QED
  BY <1>3, <1>4, <1>5

\* Connect, ConnectFails, StageErrs, WakeUp, Refuse and Decrypt move a call
\* without touching its activations or the checkpoints.
LEMMA ControlStepHolds ==
  ASSUME IInv, NEW c \in Calls,
         Connect(c) \/ ConnectFails(c) \/ StageErrs(c) \/ WakeUp(c) \/ Refuse(c)
           \/ Decrypt(c)
  PROVE  IInv'
<1> USE RetriesAssumption DEF IInv, TypeOK, shared, States, Located, Holds, Executing,
        CheckpointExact
<1>1. CASE Connect(c)
  BY <1>1 DEF Connect
<1>2. CASE ConnectFails(c)
  BY <1>2 DEF ConnectFails
<1>3. CASE StageErrs(c)
  BY <1>3 DEF StageErrs, NextAttempt
<1>4. CASE WakeUp(c)
  BY <1>4 DEF WakeUp, AttemptsLeft
<1>5. CASE Refuse(c)
  BY <1>5 DEF Refuse
<1>6. CASE Decrypt(c)
  BY <1>6 DEF Decrypt
<1> QED
  BY <1>1, <1>2, <1>3, <1>4, <1>5, <1>6

LEMMA StageAnswersHolds ==
  ASSUME IInv, NEW c \in Calls, StageAnswers(c)
  PROVE  IInv'
<1> USE DEF IInv, TypeOK, StageAnswers, shared
<1> DEFINE st == stages[c][stage[c]]
<1>1. PICK answer \in Answers(activations[c], st) :
        activations' = [activations EXCEPT ![c] = answer]
  OBVIOUS
<1>2. stage[c] \in 1 .. Len(stages[c])
  BY AllocationFacts DEF Located, Executing
<1>3. st \in Stage
  BY <1>2, AllocationFacts
<1>4. answer \in Activations /\ (answer.ok => answer.upto = st.end)
  <2>1. activations[c] \in Activations
    OBVIOUS
  <2>2. answer \in Activations
    BY <1>1, <1>3, <2>1, ComputedType
  <2> HIDE DEF st
  <2>3. answer = Computed(activations[c], st) \/ answer = Corrupt
    BY <1>1 DEF Answers
  <2>4. answer.ok => answer.upto = st.end
    BY <2>3 DEF Computed, Corrupt
  <2> QED
    BY <2>2, <2>4
<1>5. TypeOK'
  BY <1>1, <1>4 DEF States
<1>6. ASSUME NEW d \in Calls
      PROVE  Located(d)' /\ Holds(d)'
  BY <1>1, <1>2, <1>4 DEF Located, Holds, Executing
<1>7. CheckpointExact'
  BY DEF CheckpointExact
<1> QED
  BY <1>5, <1>6, <1>7

LEMMA SaveCheckpointHolds ==
  ASSUME IInv, NEW c \in Calls, SaveCheckpoint(c)
  PROVE  IInv'
<1> USE DEF IInv, TypeOK, SaveCheckpoint, shared, CheckpointKey
<1> DEFINE ss == stages[c]
           i == stage[c]
           cp == NewCheckpoint(ss[i], activations[c])
<1>1. reqID[c] \in RequestIDs /\ ss # <<>> /\ i <= Len(ss)
  BY DEF Located
<1>2. /\ Len(ss) \in Nat /\ i \in 1 .. Len(ss) /\ ss[i] \in Stage
      /\ ss[Len(ss)].end = TotalLayers
      /\ i < Len(ss) => ss[i].end = ss[i + 1].start
  BY <1>1, AllocationFacts
<1>3. activations[c].ok => activations[c].upto = ss[i].end
  BY DEF Holds
<1>4. cp \in Checkpoints /\ cp.end = ss[i].end /\ cp.state = activations[c]
  BY <1>2 DEF NewCheckpoint, Checkpoints, Stage
<1>5. LoopHead(c, i + 1) = IF i + 1 <= Len(ss) THEN "connect" ELSE "finish"
  BY DEF LoopHead
<1> HIDE DEF cp
<1>6. cpStore' = [cpStore EXCEPT ![reqID[c]] = cp]
  BY DEF cp
<1>7. TypeOK'
  BY <1>1, <1>2, <1>4, <1>5, <1>6 DEF States
<1>8. ASSUME NEW d \in Calls
      PROVE  Located(d)' /\ Holds(d)'
  BY <1>1, <1>2, <1>3, <1>5 DEF Located, Holds, Executing
<1>9. CheckpointExact'
  BY <1>1, <1>3, <1>4, <1>6 DEF CheckpointExact
<1> QED
  BY <1>7, <1>8, <1>9

LEMMA FinishHolds ==
  ASSUME IInv, NEW c \in Calls, Finish(c)
  PROVE  IInv'
<1> USE DEF IInv, TypeOK, Finish, shared, WithoutCheckpoint
<1>1. TypeOK'
  BY DEF States
<1>2. ASSUME NEW d \in Calls
      PROVE  Located(d)' /\ Holds(d)'
  BY DEF Located, Holds, Executing
<1>3. CheckpointExact'
  BY DEF CheckpointExact
<1> QED
  BY <1>1, <1>2, <1>3

LEMMA StepHolds == IInv /\ [Next]_vars => IInv'
<1> SUFFICES ASSUME IInv, [Next]_vars
             PROVE  IInv'
  OBVIOUS
<1>1. CASE Tick \/ (\E r \in Requests : RememberRequest(r)) \/ UNCHANGED vars
  BY <1>1, TickAssumption
     DEF IInv, TypeOK, Tick, RememberRequest, vars, shared, locals,
         Located, Holds, Executing, CheckpointExact
<1>2. ASSUME NEW c \in Calls, NEW r \in Requests, Begin(c, r)
      PROVE  IInv'
  BY <1>2, BeginHolds
<1>3. ASSUME NEW c \in Calls, Refuse(c) \/ OwnStep(c) \/ StageReturns(c)
      PROVE  IInv'
  BY <1>3, ResumeHolds, StartAfreshHolds, ControlStepHolds, StageAnswersHolds,
     SaveCheckpointHolds, FinishHolds
     DEF OwnStep, StageReturns
<1> QED
  BY <1>1, <1>2, <1>3 DEF Next

\* The orchestrator's maps and every call's locals keep their types.
THEOREM PipelineTypes == Spec => []TypeOK
<1>1. IInv => TypeOK
  BY DEF IInv
<1> QED
  BY InitHolds, StepHolds, <1>1, PTL DEF Spec

\* Checkpoints of executePipeline name exactly the layers they hold, whichever
\* of the concurrent calls saved them.
THEOREM CheckpointsAreExact == Spec => []CheckpointExact
<1>1. IInv => CheckpointExact
  BY DEF IInv
<1> QED
  BY InitHolds, StepHolds, <1>1, PTL DEF Spec

\* No stage runs on the activations of another layer, resumed or not.
THEOREM StageInputsAreExact == Spec => []StageInputExact
<1>1. IInv => StageInputExact
  BY DEF IInv, Holds, StageInputExact
<1> QED
  BY InitHolds, StepHolds, <1>1, PTL DEF Spec

\* What executePipeline returns went through every layer of the model once and
\* in order, if no provider failed on it.
THEOREM OutputsAreExact == Spec => []OutputExact
<1>1. IInv => OutputExact
  BY DEF IInv, Holds, OutputExact
<1> QED
  BY InitHolds, StepHolds, <1>1, PTL DEF Spec
-----------------------------------------------------------------------------
\* A call that alone owns its ID finds no checkpoint but the one it saved itself,
\* of the stage before the one it is at.
OwnCheckpoint(c) ==
    reqID[c] \in RequestIDs /\ cpStore[reqID[c]] # None
      /\ (\A d \in Calls : reqID[d] = reqID[c] => d = c)
        => /\ stage[c] - 1 \in 1 .. Len(stages[c])
           /\ cpStore[reqID[c]].end = stages[c][stage[c] - 1].end

\* A call has an ID as soon as it has begun.
Unbegun(c) == pc[c] = "idle" => reqID[c] = None

Owns(c, id) == /\ reqID[c] = id /\ stage[c] > 1
               /\ Executing(c) \/ pc[c] \in {"save", "finish", "failed"}

OInv == /\ IInv /\ CheckpointOwned
        /\ \A c \in Calls : OwnCheckpoint(c) /\ Unbegun(c)

LEMMA NoneIsNoID == None \notin RequestIDs
BY NoneAssumption, TickAssumption DEF RequestIDs

LEMMA OwnershipStarts == Init => OInv
<1> SUFFICES ASSUME Init PROVE OInv
  OBVIOUS
<1>1. IInv
  BY InitHolds
<1>2. CheckpointOwned /\ \A c \in Calls : OwnCheckpoint(c) /\ Unbegun(c)
  BY NoneIsNoID DEF Init, CheckpointOwned, OwnCheckpoint, Unbegun
<1> QED
  BY <1>1, <1>2 DEF OInv

\* A call that begins owns nothing yet, and if it gets the ID of a checkpoint, it
\* shares it with the call that saved it.
LEMMA BeginKeepsOwners ==
  ASSUME OInv, NEW c \in Calls, NEW r \in Requests, Begin(c, r)
  PROVE  CheckpointOwned' /\ \A d \in Calls : OwnCheckpoint(d)' /\ Unbegun(d)'
<1> USE DEF OInv, IInv, TypeOK
<1>1. /\ pc[c] = "idle" /\ reqID[c] = None
      /\ UNCHANGED <<cpStore, stage>>
      /\ reqID' = [reqID EXCEPT ![c] = <<r, now>>]
      /\ pc' \in [Calls -> States] /\ pc'[c] # "idle" /\ stages' \in [Calls -> Allocations]
      /\ \A d \in Calls \ {c} : pc'[d] = pc[d] /\ stages'[d] = stages[d] /\ reqID'[d] = reqID[d]
  BY DEF Begin, shared, Unbegun, States
<1>2. ASSUME NEW d \in Calls, NEW id \in RequestIDs, Owns(d, id)
      PROVE  d # c /\ Owns(d, id)'
  BY <1>1, <1>2 DEF Owns, Executing
<1>3. CheckpointOwned'
  BY <1>1, <1>2 DEF CheckpointOwned, Owns
<1>4. ASSUME NEW d \in Calls PROVE OwnCheckpoint(d)'
  <2>1. CASE d = c
    <3> SUFFICES ASSUME reqID'[c] \in RequestIDs, cpStore[reqID'[c]] # None,
                        \A e \in Calls : reqID'[e] = reqID'[c] => e = c
                 PROVE  FALSE
      BY <1>1, <2>1 DEF OwnCheckpoint
    <3>1. PICK e \in Calls : Owns(e, reqID'[c])
      BY DEF CheckpointOwned, Owns
    <3>2. e # c /\ reqID'[e] = reqID'[c]
      BY <1>1, <1>2, <3>1 DEF Owns
    <3> QED
      BY <3>2
  <2>2. CASE d # c
    <3>1. ASSUME reqID[d] \in RequestIDs, NEW e \in Calls, reqID[e] = reqID[d]
          PROVE  reqID'[e] = reqID[d]
      BY <1>1, <3>1, NoneIsNoID
    <3> QED
      BY <1>1, <2>2, <3>1 DEF OwnCheckpoint
  <2> QED
    BY <2>1, <2>2
<1>5. ASSUME NEW d \in Calls PROVE Unbegun(d)'
  BY <1>1 DEF Unbegun
<1> QED
  BY <1>3, <1>4, <1>5

\* A call that saves a checkpoint owns it, and is then at the next stage.
LEMMA SaveKeepsOwners ==
  ASSUME OInv, NEW c \in Calls, SaveCheckpoint(c)
  PROVE  CheckpointOwned' /\ \A d \in Calls : OwnCheckpoint(d)' /\ Unbegun(d)'
<1> USE DEF OInv, IInv, TypeOK
<1>1. /\ pc[c] = "save" /\ reqID[c] \in RequestIDs /\ UNCHANGED <<reqID, stages>>
      /\ cpStore' = [cpStore EXCEPT ![reqID[c]] = NewCheckpoint(stages[c][stage[c]], activations[c])]
      /\ stage' = [stage EXCEPT ![c] = @ + 1]
      /\ pc'[c] \in {"connect", "finish"}
      /\ \A d \in Calls \ {c} : pc'[d] = pc[d]
  BY DEF SaveCheckpoint, CheckpointKey, Located, LoopHead
<1>2. /\ stage[c] \in Nat \ {0} /\ stage[c] \in 1 .. Len(stages[c])
  BY <1>1, AllocationFacts DEF Located
<1>3. ASSUME NEW id \in RequestIDs, id = reqID[c] PROVE Owns(c, id)'
  BY <1>1, <1>2, <1>3 DEF Owns, Executing
<1>4. ASSUME NEW d \in Calls, NEW id \in RequestIDs, Owns(d, id)
      PROVE  Owns(d, id)' \/ id = reqID[c]
  BY <1>1, <1>4 DEF Owns, Executing
<1>5. CheckpointOwned'
  <2> SUFFICES ASSUME NEW id \in RequestIDs, cpStore'[id] # None
               PROVE  \E d \in Calls : Owns(d, id)'
    BY DEF CheckpointOwned, Owns, Executing
  <2>1. CASE id = reqID[c]
    BY <1>3, <2>1
  <2>2. CASE id # reqID[c]
    <3>1. PICK d \in Calls : Owns(d, id)
      BY <1>1, <2>2 DEF CheckpointOwned, Owns
    <3> QED
      BY <1>4, <2>2, <3>1
  <2> QED
    BY <2>1, <2>2
<1>6. ASSUME NEW d \in Calls PROVE OwnCheckpoint(d)'
  <2>1. CASE d = c
    <3>1. stage'[c] - 1 = stage[c] /\ cpStore'[reqID[c]].end = stages[c][stage[c]].end
      BY <1>1, <1>2 DEF NewCheckpoint
    <3> QED
      BY <1>1, <1>2, <2>1, <3>1 DEF OwnCheckpoint
  <2>2. CASE d # c
    BY <1>1, <2>2 DEF OwnCheckpoint
  <2> QED
    BY <2>1, <2>2
<1>7. ASSUME NEW d \in Calls PROVE Unbegun(d)'
  BY <1>1 DEF Unbegun
<1> QED
  BY <1>5, <1>6, <1>7

\* The checkpoint of an execution that has ended is gone, whoever owned it.
LEMMA FinishKeepsOwners ==
  ASSUME OInv, NEW c \in Calls, Finish(c)
  PROVE  CheckpointOwned' /\ \A d \in Calls : OwnCheckpoint(d)' /\ Unbegun(d)'
<1> USE DEF OInv, IInv, TypeOK
<1>1. /\ reqID[c] \in RequestIDs /\ UNCHANGED <<reqID, stages, stage>>
      /\ cpStore' = [cpStore EXCEPT ![reqID[c]] = None]
      /\ pc'[c] = "decrypt" /\ \A d \in Calls \ {c} : pc'[d] = pc[d]
  BY DEF Finish, WithoutCheckpoint, Located
<1>2. CheckpointOwned'
  <2> SUFFICES ASSUME NEW id \in RequestIDs, cpStore'[id] # None
               PROVE  \E d \in Calls : Owns(d, id)'
    BY DEF CheckpointOwned, Owns, Executing
  <2>1. id # reqID[c] /\ cpStore[id] # None
    BY <1>1
  <2>2. PICK d \in Calls : Owns(d, id)
    BY <2>1 DEF CheckpointOwned, Owns
  <2> QED
    BY <1>1, <2>1, <2>2 DEF Owns, Executing
<1>3. ASSUME NEW d \in Calls PROVE OwnCheckpoint(d)' /\ Unbegun(d)'
  BY <1>1 DEF OwnCheckpoint, Unbegun
<1> QED
  BY <1>2, <1>3

\* A call that resumes shares its ID, and the others go on where they are.
LEMMA ControlKeepsOwners ==
  ASSUME OInv, NEW c \in Calls,
         \/ Resume(c) \/ StartAfresh(c) \/ Connect(c) \/ ConnectFails(c) \/ StageAnswers(c)
         \/ StageErrs(c) \/ WakeUp(c) \/ Refuse(c) \/ Decrypt(c)
  PROVE  CheckpointOwned' /\ \A d \in Calls : OwnCheckpoint(d)' /\ Unbegun(d)'
<1> USE DEF OInv, IInv, TypeOK
<1>1. /\ UNCHANGED <<cpStore, reqID, stages>>
      /\ \A d \in Calls \ {c} : pc'[d] = pc[d] /\ stage'[d] = stage[d]
      /\ pc'[c] # "idle"
  BY DEF Resume, StartAfresh, Connect, ConnectFails, StageAnswers, StageErrs, WakeUp, Refuse,
         Decrypt, LoopHead, shared, States
<1>2. ASSUME NEW id \in RequestIDs, Owns(c, id) PROVE Owns(c, id)'
  BY <1>2
  DEF Owns, Executing, Resume, StartAfresh, Connect, ConnectFails, StageAnswers, StageErrs,
      WakeUp, Refuse, Decrypt
<1>3. ASSUME NEW d \in Calls, NEW id \in RequestIDs, Owns(d, id) PROVE Owns(d, id)'
  BY <1>1, <1>2, <1>3 DEF Owns, Executing
<1>4. CheckpointOwned'
  <2> SUFFICES ASSUME NEW id \in RequestIDs, cpStore'[id] # None
               PROVE  \E d \in Calls : Owns(d, id)'
    BY DEF CheckpointOwned, Owns, Executing
  <2>1. PICK d \in Calls : Owns(d, id)
    BY <1>1 DEF CheckpointOwned, Owns
  <2> QED
    BY <1>3, <2>1
<1>5. stage'[c] = stage[c] \/ (pc[c] = "load" /\ stage[c] = 1)
  BY DEF Resume, StartAfresh, Connect, ConnectFails, StageAnswers, StageErrs, WakeUp, Refuse,
         Decrypt, Located
<1>6. ASSUME NEW d \in Calls PROVE OwnCheckpoint(d)'
  <2>1. CASE stage'[d] = stage[d]
    BY <1>1, <2>1 DEF OwnCheckpoint
  <2>2. CASE d = c /\ stage[c] = 1
    BY <1>1, <2>2 DEF OwnCheckpoint
  <2> QED
    BY <1>1, <1>5, <2>1, <2>2
<1>7. ASSUME NEW d \in Calls PROVE Unbegun(d)'
  BY <1>1 DEF Unbegun
<1> QED
  BY <1>4, <1>6, <1>7

LEMMA OwnershipHolds == OInv /\ [Next]_vars => OInv'
<1> SUFFICES ASSUME OInv, [Next]_vars PROVE OInv'
  OBVIOUS
<1>1. IInv'
  BY StepHolds DEF OInv
<1>2. CASE Tick \/ (\E r \in Requests : RememberRequest(r)) \/ UNCHANGED vars
  <2>1. UNCHANGED <<cpStore, reqID, stages, stage, pc>>
    BY <1>2 DEF Tick, RememberRequest, vars, shared, locals
  <2> QED
    BY <1>1, <2>1 DEF OInv, CheckpointOwned, OwnCheckpoint, Unbegun, Executing
<1>3. ASSUME NEW c \in Calls, NEW r \in Requests, Begin(c, r) PROVE OInv'
  BY <1>1, <1>3, BeginKeepsOwners DEF OInv
<1>4. ASSUME NEW c \in Calls, Refuse(c) \/ OwnStep(c) \/ StageReturns(c) PROVE OInv'
  BY <1>1, <1>4, SaveKeepsOwners, FinishKeepsOwners, ControlKeepsOwners
  DEF OwnStep, StageReturns, OInv
<1> QED
  BY <1>2, <1>3, <1>4 DEF Next

\* Of two stages of an allocation the later one ends later.
LEMMA NextStageEndsLater ==
  ASSUME NEW ss \in Allocations, NEW i \in 1 .. Len(ss), i - 1 \in 1 .. Len(ss)
  PROVE  ss[i - 1].end < ss[i].end
<1>1. /\ Len(ss) \in Nat /\ Consecutive(ss, TotalLayers)
      /\ \A k \in 1 .. Len(ss) : k < Len(ss) => ss[k].end = ss[k + 1].start
  BY AllocationFacts DEF Allocations
<1>2. ss[i].start < ss[i].end
  BY <1>1 DEF Consecutive
<1>3. ss[i - 1].end = ss[(i - 1) + 1].start /\ (i - 1) + 1 = i
  BY <1>1
<1> QED
  BY <1>2, <1>3

\* The deletion of a checkpoint is not undone: what the store holds (checkpoint.go)
\* is of a call that is executing or has failed.
THEOREM CheckpointsAreOwned == Spec => []CheckpointOwned
<1>1. OInv => CheckpointOwned
  BY DEF OInv
<1> QED
  BY OwnershipStarts, OwnershipHolds, <1>1, PTL DEF Spec

\* The checkpoint of an execution (executePipeline) moves back only where two calls
\* have the same execution ID.
THEOREM CheckpointsAdvance == Spec => CheckpointAdvances
<1> DEFINE Shared(id) == \E c, d \in Calls : c # d /\ reqID[c] = id /\ reqID[d] = id
           Back(id) == cpStore[id] # None /\ cpStore'[id] # None
                         /\ cpStore'[id].end < cpStore[id].end
<1>1. ASSUME OInv, NEW c \in Calls, SaveCheckpoint(c), NEW id \in RequestIDs, Back(id)
      PROVE  Shared(id)
  <2> USE DEF OInv, IInv, TypeOK
  <2>1. /\ reqID[c] \in RequestIDs /\ stage[c] \in 1 .. Len(stages[c])
        /\ stages[c] \in Allocations
        /\ cpStore' = [cpStore EXCEPT ![reqID[c]] = NewCheckpoint(stages[c][stage[c]], activations[c])]
    <3>1. /\ pc[c] = "save" /\ stages[c] \in Allocations /\ stage[c] \in Nat \ {0}
          /\ cpStore' = [cpStore EXCEPT ![reqID[c]] = NewCheckpoint(stages[c][stage[c]], activations[c])]
      BY <1>1 DEF SaveCheckpoint, CheckpointKey
    <3>2. reqID[c] \in RequestIDs /\ stage[c] <= Len(stages[c])
      BY <1>1, <3>1 DEF Located
    <3>3. Len(stages[c]) \in Nat
      BY <3>1, AllocationFacts
    <3> QED
      BY <3>1, <3>2, <3>3
  <2>2. cpStore[id] \in Checkpoints /\ cpStore[id].end \in Nat
    BY <1>1, LayersAssumption DEF Checkpoints
  <2>3. id = reqID[c]
    BY <1>1, <2>1, <2>2
  <2>4. cpStore'[id].end = stages[c][stage[c]].end
    BY <1>1, <2>1, <2>3 DEF NewCheckpoint
  <2>5. SUFFICES ASSUME \A d \in Calls : reqID[d] = reqID[c] => d = c PROVE FALSE
    BY <2>3
  <2>6. stage[c] - 1 \in 1 .. Len(stages[c]) /\ cpStore[id].end = stages[c][stage[c] - 1].end
    BY <1>1, <2>1, <2>3, <2>5 DEF OwnCheckpoint
  <2>7. stages[c][stage[c] - 1].end < stages[c][stage[c]].end
    BY <2>1, <2>6, NextStageEndsLater
  <2>8. stages[c][stage[c]].end \in Nat
    BY <2>1, AllocationFacts, LayersAssumption DEF Stage
  <2> QED
    BY <1>1, <2>2, <2>4, <2>6, <2>7, <2>8
<1>2. ASSUME OInv, [Next]_vars, NEW id \in RequestIDs, Back(id)
      PROVE  Shared(id)
  <2>1. CASE \E c \in Calls : SaveCheckpoint(c)
    BY <1>1, <1>2, <2>1
  <2>2. CASE \E c \in Calls : Finish(c)
    <3>1. cpStore'[id] = None \/ cpStore'[id] = cpStore[id]
      BY <1>2, <2>2 DEF Finish, WithoutCheckpoint, OInv, IInv, TypeOK
    <3> QED
      BY <1>2, <3>1, LayersAssumption DEF OInv, IInv, TypeOK, Checkpoints
  <2>3. CASE cpStore' = cpStore
    BY <1>2, <2>3, LayersAssumption DEF OInv, IInv, TypeOK, Checkpoints
  <2> QED
    BY <1>2, <2>1, <2>2, <2>3
    DEF Next, OwnStep, StageReturns, Tick, RememberRequest, Begin, Refuse, Resume, StartAfresh,
        Connect, ConnectFails, StageAnswers, StageErrs, WakeUp, Decrypt, shared, vars, locals
<1>3. OInv /\ [Next]_vars =>
        [\A id \in RequestIDs : Back(id) => Shared(id)]_vars
  BY <1>2
<1> QED
  BY <1>3, OwnershipStarts, OwnershipHolds, PTL DEF Spec, CheckpointAdvances

-----------------------------------------------------------------------------
\* What the abstract re-executions see of a state: the depth, the outcome and the
\* checkpoint of each.
Depths == [c \in Calls |-> DepthOf(activations[c])]
Outcomes == [c \in Calls |-> OutcomeAt(pc[c])]
SavedDepths == [i \in RequestIDs |-> DepthOfCheckpoint(cpStore[i])]

LEMMA OutcomesOfPlaces ==
  /\ OutcomeAt("idle") = "none" /\ OutcomeAt("decrypt") = "complete"
  /\ OutcomeAt("done") = "output" /\ OutcomeAt("failed") = "failed"
  /\ \A p \in {"load", "connect", "send", "backoff", "save", "finish"} :
        OutcomeAt(p) = "working"
BY DEF OutcomeAt

LEMMA AbstractStarts == Init => Abstract!Init
<1> SUFFICES ASSUME Init PROVE Abstract!Init
  OBVIOUS
<1>1. Depths = [c \in Calls |-> 0]
  BY DEF Init, Depths, DepthOf, EncryptedInput
<1>2. Outcomes = [c \in Calls |-> "none"]
  BY OutcomesOfPlaces DEF Init, Outcomes
<1>3. SavedDepths = [i \in RequestIDs |-> -2]
  BY DEF Init, SavedDepths, DepthOfCheckpoint
<1> QED
  BY <1>1, <1>2, <1>3 DEF Init, Abstract!Init, Abstract!Nothing, Depths, Outcomes, SavedDepths

\* A step of a call changes the abstract state of this call only.
LEMMA OutcomeMoves ==
  ASSUME TypeOK, NEW c \in Calls, NEW p, pc' = [pc EXCEPT ![c] = p]
  PROVE  /\ Outcomes' = [Outcomes EXCEPT ![c] = OutcomeAt(p)]
         /\ OutcomeAt(p) = Outcomes[c] => Outcomes' = Outcomes
BY DEF TypeOK, Outcomes

LEMMA DepthMoves ==
  ASSUME TypeOK, NEW c \in Calls, NEW a, activations' = [activations EXCEPT ![c] = a]
  PROVE  /\ Depths' = [Depths EXCEPT ![c] = DepthOf(a)]
         /\ DepthOf(a) = Depths[c] => Depths' = Depths
BY DEF TypeOK, Depths

LEMMA CheckpointMoves ==
  ASSUME TypeOK, NEW i \in RequestIDs, NEW cp, cpStore' = [cpStore EXCEPT ![i] = cp]
  PROVE  SavedDepths' = [SavedDepths EXCEPT ![i] = DepthOfCheckpoint(cp)]
BY DEF TypeOK, SavedDepths

LEMMA Stays ==
  /\ activations' = activations => Depths' = Depths
  /\ cpStore' = cpStore => SavedDepths' = SavedDepths
BY DEF Depths, SavedDepths

LEMMA BeginImplements ==
  ASSUME IInv, NEW c \in Calls, NEW r \in Requests, Begin(c, r)
  PROVE  Abstract!Next
<1>1. Outcomes[c] = "none" /\ <<r, now>> \in RequestIDs
  BY OutcomesOfPlaces DEF IInv, TypeOK, Begin, Outcomes, RequestIDs
<1>2. PICK p \in {"load", "failed"} : pc' = [pc EXCEPT ![c] = p]
  BY DEF Begin
<1>3. OutcomeAt(p) \in {"working", "failed"} /\ Outcomes' = [Outcomes EXCEPT ![c] = OutcomeAt(p)]
  BY <1>2, OutcomesOfPlaces, OutcomeMoves DEF IInv
<1>4. UNCHANGED <<activations, cpStore>> /\ reqID' = [reqID EXCEPT ![c] = <<r, now>>]
  BY DEF Begin, shared
<1>5. Depths' = Depths /\ SavedDepths' = SavedDepths
  BY <1>4, Stays DEF IInv
<1>6. Abstract!Begin(c, <<r, now>>)
  BY <1>1, <1>3, <1>4, <1>5 DEF Abstract!Begin, Depths, Outcomes, SavedDepths
<1> QED
  BY <1>1, <1>6 DEF Abstract!Next

\* A call that fails, wherever it is: after its layers only for what was lost.
LEMMA FailureImplements ==
  ASSUME IInv, NEW c \in Calls, pc' = [pc EXCEPT ![c] = "failed"],
         pc[c] \in States \ {"done", "failed"},
         pc[c] = "decrypt" => ~ activations[c].ok,
         UNCHANGED <<reqID, activations, cpStore>>
  PROVE  Abstract!Next
<1>1. \/ Outcomes[c] \in {"none", "working"}
      \/ Outcomes[c] = "complete" /\ Depths[c] = -1
  BY OutcomesOfPlaces DEF IInv, TypeOK, Outcomes, Depths, DepthOf, States
<1>2. Outcomes' = [Outcomes EXCEPT ![c] = "failed"]
  <2>1. Outcomes' = [Outcomes EXCEPT ![c] = OutcomeAt("failed")]
    BY OutcomeMoves DEF IInv
  <2> QED
    BY <2>1, OutcomesOfPlaces
<1>3. Depths' = Depths /\ SavedDepths' = SavedDepths
  BY Stays DEF IInv
<1>4. Abstract!Fail(c)
  BY <1>1, <1>2, <1>3 DEF Abstract!Fail, Abstract!Lost, Depths, Outcomes, SavedDepths
<1> QED
  BY <1>4 DEF Abstract!Next

\* Connections, attempts and back-offs, and what happens to activations that are lost,
\* are nothing to who waits for the call.
LEMMA RetryImplements ==
  ASSUME IInv, NEW c \in Calls, NEW p \in {"connect", "send", "backoff", "save"},
         pc[c] \in {"load", "connect", "send", "backoff"}, pc' = [pc EXCEPT ![c] = p],
         UNCHANGED <<reqID, cpStore>>, Depths' = Depths
  PROVE  UNCHANGED Abstract!vars
<1>1. OutcomeAt(p) = "working" /\ Outcomes[c] = "working"
  BY OutcomesOfPlaces DEF IInv, TypeOK, Outcomes
<1>2. Outcomes' = Outcomes
  BY <1>1, OutcomeMoves DEF IInv
<1>3. SavedDepths' = SavedDepths
  BY Stays DEF IInv
<1> QED
  BY <1>2, <1>3 DEF Abstract!vars, Depths, Outcomes, SavedDepths

LEMMA ResumeImplements ==
  ASSUME IInv, NEW c \in Calls, Resume(c)
  PROVE  Abstract!Next
<1>1. PICK i \in DOMAIN stages[c] :
         /\ ResumesAfter(c, i)
         /\ pc' = [pc EXCEPT ![c] = LoopHead(c, i + 1)]
  BY DEF Resume
<1> DEFINE cp == cpStore[reqID[c]]
<1>2. /\ pc[c] = "load" /\ reqID[c] \in RequestIDs /\ cp # None
      /\ activations' = [activations EXCEPT ![c] = cp.state]
      /\ UNCHANGED <<reqID, cpStore>>
      /\ Depths[c] = 0
  BY <1>1 DEF Resume, ResumesAfter, shared, IInv, Located, Depths, DepthOf, EncryptedInput
<1>3. cp \in Checkpoints /\ (cp.state.ok => cp.state.upto = cp.end)
  BY <1>2 DEF IInv, TypeOK, CheckpointExact
<1>4. /\ SavedDepths[reqID[c]] = DepthOfCheckpoint(cp)
      /\ DepthOfCheckpoint(cp) = DepthOf(cp.state)
      /\ DepthOfCheckpoint(cp) # -2
  BY <1>2, <1>3, LayersAssumption DEF SavedDepths, DepthOfCheckpoint, DepthOf, Checkpoints, Activations
<1> HIDE DEF cp
<1>5. Depths' = [Depths EXCEPT ![c] = SavedDepths[reqID[c]]]
  <2>1. Depths' = [Depths EXCEPT ![c] = DepthOf(cp.state)]
    BY <1>2, DepthMoves DEF IInv
  <2> QED
    BY <1>4, <2>1
<1>6. Outcomes[c] = "working" /\ Outcomes' = Outcomes
  <2>1. OutcomeAt(LoopHead(c, i + 1)) = "working"
    BY OutcomesOfPlaces DEF LoopHead
  <2>2. Outcomes[c] = "working"
    BY <1>2, OutcomesOfPlaces DEF Outcomes
  <2> QED
    BY <1>1, <2>1, <2>2, OutcomeMoves DEF IInv
<1>7. SavedDepths' = SavedDepths
  BY <1>2, Stays DEF IInv
<1>8. SavedDepths[reqID[c]] # -2
  BY <1>4
<1>9. Abstract!Resume(c)
  BY <1>2, <1>5, <1>6, <1>7, <1>8
  DEF Abstract!Resume, Abstract!Nothing, Depths, Outcomes, SavedDepths
<1> QED
  BY <1>9 DEF Abstract!Next

\* A stage takes intact activations some layers further, or loses them; what is lost
\* stays lost.
LEMMA StageImplements ==
  ASSUME IInv, NEW c \in Calls, StageAnswers(c)
  PROVE  Abstract!Next \/ UNCHANGED Abstract!vars
<1> DEFINE a == activations[c]
           st == stages[c][stage[c]]
<1>1. PICK answer \in Answers(a, st) : activations' = [activations EXCEPT ![c] = answer]
  BY DEF StageAnswers
<1>2. pc[c] = "send" /\ pc' = [pc EXCEPT ![c] = "save"] /\ UNCHANGED <<reqID, cpStore>>
  BY DEF StageAnswers, shared
<1>3. a \in Activations /\ st \in Stage /\ st.start < st.end
  <2>1. /\ stages[c] \in Allocations /\ stage[c] \in Nat \ {0} /\ stage[c] <= Len(stages[c])
        /\ a \in Activations
    BY <1>2 DEF IInv, TypeOK, Located, Executing
  <2>2. stage[c] \in 1 .. Len(stages[c])
    BY <2>1, AllocationFacts
  <2>3. st \in Stage
    BY <2>1, <2>2, AllocationFacts
  <2>4. st.start < st.end
    BY <2>1, <2>2 DEF Allocations, Consecutive
  <2> QED
    BY <2>1, <2>3, <2>4
<1>4. a.ok => a.upto = st.start
  BY <1>2 DEF IInv, Holds, Executing
<1>5. Depths[c] = DepthOf(a)
  BY DEF Depths
<1>6. Depths' = [Depths EXCEPT ![c] = DepthOf(answer)] /\ (DepthOf(answer) = Depths[c] => Depths' = Depths)
  BY <1>1, DepthMoves DEF IInv
<1>7. Outcomes[c] = "working" /\ Outcomes' = Outcomes /\ SavedDepths' = SavedDepths
  <2>1. Outcomes[c] = "working" /\ OutcomeAt("save") = "working"
    BY <1>2, OutcomesOfPlaces DEF Outcomes
  <2> QED
    BY <1>2, <2>1, OutcomeMoves, Stays DEF IInv
<1> HIDE DEF a, st
<1>8. CASE a.ok
  <2>1. Depths[c] \in 0 .. TotalLayers - 1
    BY <1>3, <1>4, <1>5, <1>8, LayersAssumption DEF DepthOf, Stage
  <2>2. DepthOf(answer) \in (Depths[c] + 1 .. TotalLayers) \cup {-1}
    BY <1>1, <1>3, <1>4, <1>5, <1>8, LayersAssumption
    DEF DepthOf, Stage, Answers, Computed, Corrupt
  <2>3. Abstract!Advance(c)
    BY <1>2, <1>6, <1>7, <2>1, <2>2
    DEF Abstract!Advance, Abstract!Lost, Depths, Outcomes, SavedDepths
  <2> QED
    BY <2>3 DEF Abstract!Next
<1>9. CASE ~ a.ok
  <2>1. DepthOf(answer) = -1 /\ Depths[c] = -1
    BY <1>1, <1>5, <1>9 DEF DepthOf, Answers, Computed, Corrupt
  <2>2. Depths' = Depths
    BY <1>6, <2>1
  <2> QED
    BY <1>2, <2>2, RetryImplements
<1> QED
  BY <1>8, <1>9

LEMMA SaveImplements ==
  ASSUME IInv, NEW c \in Calls, SaveCheckpoint(c)
  PROVE  Abstract!Next
<1> DEFINE a == activations[c]
           st == stages[c][stage[c]]
           cp == NewCheckpoint(st, a)
<1>1. /\ pc[c] = "save" /\ pc' = [pc EXCEPT ![c] = LoopHead(c, stage[c] + 1)]
      /\ UNCHANGED <<reqID, activations>> /\ reqID[c] \in RequestIDs
      /\ cpStore' = [cpStore EXCEPT ![reqID[c]] = cp]
  BY DEF SaveCheckpoint, CheckpointKey, IInv, Located
<1>2. st \in Stage /\ st.end > 0
  <2>1. stages[c] \in Allocations /\ stage[c] \in Nat \ {0} /\ stage[c] <= Len(stages[c])
    BY <1>1 DEF IInv, TypeOK, Located
  <2>2. stage[c] \in 1 .. Len(stages[c])
    BY <2>1, AllocationFacts
  <2>3. st \in Stage
    BY <2>1, <2>2, AllocationFacts
  <2>4. st.start < st.end
    BY <2>1, <2>2 DEF Allocations, Consecutive
  <2> QED
    BY <2>3, <2>4, LayersAssumption DEF Stage
<1>3. a.ok => a.upto = st.end
  BY <1>1 DEF IInv, Holds
<1>4. DepthOfCheckpoint(cp) = Depths[c] /\ Depths[c] # 0
  <2>1. cp = [end |-> st.end, state |-> a]
    BY DEF NewCheckpoint
  <2>2. cp # None
    <3>1. a \in Activations /\ st.end \in Nat
      BY <1>2, LayersAssumption DEF IInv, TypeOK, Stage
    <3>2. cp \in [end : Nat, state : [ok : BOOLEAN, upto : Nat]]
      BY <2>1, <3>1, LayersAssumption DEF Activations
    <3> HIDE DEF cp
    <3> QED
      BY <3>2, NoneAssumption
  <2> QED
    BY <1>2, <1>3, <2>1, <2>2, LayersAssumption DEF Depths, DepthOf, DepthOfCheckpoint, Stage
<1> HIDE DEF a, st, cp
<1>5. SavedDepths' = [SavedDepths EXCEPT ![reqID[c]] = Depths[c]]
  BY <1>1, <1>4, CheckpointMoves DEF IInv
<1>6. Depths' = Depths
  BY <1>1, Stays DEF IInv
<1>7. Outcomes[c] = "working" /\ Outcomes' = Outcomes
  <2>1. OutcomeAt(LoopHead(c, stage[c] + 1)) = "working"
    BY OutcomesOfPlaces DEF LoopHead
  <2>2. Outcomes[c] = "working"
    BY <1>1, OutcomesOfPlaces DEF Outcomes
  <2> QED
    BY <1>1, <2>1, <2>2, OutcomeMoves DEF IInv
<1>8. Abstract!Save(c)
  BY <1>1, <1>4, <1>5, <1>6, <1>7 DEF Abstract!Save, Depths, Outcomes, SavedDepths
<1> QED
  BY <1>8 DEF Abstract!Next

\* executePipeline returns without an error only after all layers, or what was lost.
LEMMA FinishImplements ==
  ASSUME IInv, NEW c \in Calls, Finish(c)
  PROVE  Abstract!Next
<1>1. /\ pc[c] = "finish" /\ pc' = [pc EXCEPT ![c] = "decrypt"]
      /\ UNCHANGED <<reqID, activations>> /\ reqID[c] \in RequestIDs
      /\ cpStore' = [cpStore EXCEPT ![reqID[c]] = None]
  BY DEF Finish, WithoutCheckpoint, IInv, Located
<1>2. Depths[c] \in {TotalLayers, -1}
  BY <1>1 DEF IInv, Holds, Depths, DepthOf
<1>3. SavedDepths' = [SavedDepths EXCEPT ![reqID[c]] = -2]
  <2>1. DepthOfCheckpoint(None) = -2
    BY DEF DepthOfCheckpoint
  <2> QED
    BY <1>1, <2>1, CheckpointMoves DEF IInv
<1>4. Depths' = Depths
  BY <1>1, Stays DEF IInv
<1>5. Outcomes[c] = "working" /\ Outcomes' = [Outcomes EXCEPT ![c] = "complete"]
  <2>1. Outcomes' = [Outcomes EXCEPT ![c] = OutcomeAt("decrypt")]
    BY <1>1, OutcomeMoves DEF IInv
  <2>2. Outcomes[c] = "working"
    BY <1>1, OutcomesOfPlaces DEF Outcomes
  <2> QED
    BY <2>1, <2>2, OutcomesOfPlaces
<1>6. Abstract!Complete(c)
  BY <1>1, <1>2, <1>3, <1>4, <1>5
  DEF Abstract!Complete, Abstract!Lost, Abstract!Nothing, Depths, Outcomes, SavedDepths
<1> QED
  BY <1>6 DEF Abstract!Next

LEMMA DecryptImplements ==
  ASSUME IInv, NEW c \in Calls, Decrypt(c)
  PROVE  Abstract!Next
<1>1. pc[c] = "decrypt" /\ UNCHANGED <<reqID, activations, cpStore>>
  BY DEF Decrypt, shared
<1>2. \/ pc' = [pc EXCEPT ![c] = "done"]
      \/ pc' = [pc EXCEPT ![c] = "failed"] /\ ~ activations[c].ok
  BY DEF Decrypt
<1>3. CASE pc' = [pc EXCEPT ![c] = "done"]
  <2>1. Outcomes[c] = "complete" /\ Outcomes' = [Outcomes EXCEPT ![c] = "output"]
    <3>1. Outcomes' = [Outcomes EXCEPT ![c] = OutcomeAt("done")]
      BY <1>3, OutcomeMoves DEF IInv
    <3>2. Outcomes[c] = "complete"
      BY <1>1, OutcomesOfPlaces DEF Outcomes
    <3> QED
      BY <3>1, <3>2, OutcomesOfPlaces
  <2>2. Depths' = Depths /\ SavedDepths' = SavedDepths
    BY <1>1, Stays DEF IInv
  <2>3. Abstract!Return(c)
    BY <1>1, <2>1, <2>2 DEF Abstract!Return, Depths, Outcomes, SavedDepths
  <2> QED
    BY <2>3 DEF Abstract!Next
<1>4. CASE pc' = [pc EXCEPT ![c] = "failed"] /\ ~ activations[c].ok
  BY <1>1, <1>4, FailureImplements DEF States
<1> QED
  BY <1>2, <1>3, <1>4

\* Each ReRequestInference is a Reexecution: with its stages, retries and the other
\* calls hidden, it goes through the layers once each, from a checkpoint's depth if
\* there is one, and returns output of all of them or of what was lost.
THEOREM CallsImplementReexecutions == Spec => ImplementsReexecution
<1>1. ASSUME IInv, [Next]_vars PROVE [Abstract!Next]_(Abstract!vars)
  <2>1. CASE UNCHANGED <<cpStore, locals>>
    <3>1. UNCHANGED <<reqID, Depths, Outcomes, SavedDepths>>
      BY <2>1 DEF locals, Depths, Outcomes, SavedDepths
    <3> QED
      BY <3>1 DEF Abstract!vars, Depths, Outcomes, SavedDepths
  <2>2. CASE Tick \/ \E r \in Requests : RememberRequest(r)
    BY <2>1, <2>2 DEF Tick, RememberRequest
  <2>3. ASSUME NEW c \in Calls, NEW r \in Requests, Begin(c, r)
        PROVE  [Abstract!Next]_(Abstract!vars)
    BY <1>1, <2>3, BeginImplements
  <2>4. ASSUME NEW c \in Calls,
               Refuse(c) \/ ConnectFails(c) \/ (WakeUp(c) /\ ~ AttemptsLeft(attempt[c]))
        PROVE  [Abstract!Next]_(Abstract!vars)
    <3>1. /\ pc' = [pc EXCEPT ![c] = "failed"]
          /\ pc[c] \in States \ {"done", "failed"} /\ pc[c] # "decrypt"
          /\ UNCHANGED <<reqID, activations, cpStore>>
      BY <2>4 DEF Refuse, ConnectFails, WakeUp, shared, States
    <3> QED
      BY <1>1, <3>1, FailureImplements
  <2>5. ASSUME NEW c \in Calls,
               \/ StartAfresh(c) \/ Connect(c) \/ StageErrs(c)
               \/ WakeUp(c) /\ AttemptsLeft(attempt[c])
        PROVE  [Abstract!Next]_(Abstract!vars)
    <3>1. /\ \E p \in {"connect", "send", "backoff", "save"} : pc' = [pc EXCEPT ![c] = p]
          /\ pc[c] \in {"load", "connect", "send", "backoff"}
          /\ UNCHANGED <<reqID, activations, cpStore>>
      BY <2>5 DEF StartAfresh, Connect, StageErrs, WakeUp, shared
    <3>2. Depths' = Depths
      BY <3>1 DEF Depths
    <3> QED
      BY <1>1, <3>1, <3>2, RetryImplements
  <2>6. ASSUME NEW c \in Calls, OwnStep(c) \/ StageReturns(c) \/ Refuse(c)
        PROVE  [Abstract!Next]_(Abstract!vars)
    BY <1>1, <2>4, <2>5, <2>6, ResumeImplements, StageImplements, SaveImplements,
       FinishImplements, DecryptImplements
    DEF OwnStep, StageReturns
  <2>7. CASE UNCHANGED vars
    BY <2>1, <2>7 DEF vars, shared
  <2> QED
    BY <1>1, <2>2, <2>3, <2>6, <2>7 DEF Next
<1>2. IInv /\ [Next]_vars => [Abstract!Next]_(Abstract!vars)
  BY <1>1
<1> QED
  BY <1>2, InitHolds, StepHolds, AbstractStarts, PTL
  DEF Spec, ImplementsReexecution, Abstract!Spec

-----------------------------------------------------------------------------
\* How many steps a call takes at most, counted from where it is: for each stage that
\* is left the connection, MaxRetries attempts of two steps each - the last one saves
\* the checkpoint instead of backing off - and then the end of executePipeline and the
\* decryption.
StepsOfStages(n) == n * (2 * MaxRetries + 1)

StagesAfter(c) == Len(stages[c]) - stage[c]

StepsLeft(c) ==
    CASE pc[c] = "idle" -> StepsOfStages(Cardinality(Providers)) + 4
      [] pc[c] = "load" -> StepsOfStages(Len(stages[c])) + 3
      [] pc[c] = "connect" -> StepsOfStages(StagesAfter(c) + 1) + 2
      [] pc[c] = "send" -> StepsOfStages(StagesAfter(c)) + 2 * (MaxRetries - attempt[c]) + 2
      [] pc[c] = "backoff" -> StepsOfStages(StagesAfter(c)) + 2 * (MaxRetries - attempt[c]) + 3
      [] pc[c] = "save" -> StepsOfStages(StagesAfter(c)) + 3
      [] pc[c] = "finish" -> 2
      [] pc[c] = "decrypt" -> 1
      [] OTHER -> 0

\* A call moves only by steps that bring it nearer to its return, whatever the other
\* calls do to the checkpoints meanwhile.
CallsAdvance ==
    [][\A c \in Calls :
          StepsLeft(c)' # StepsLeft(c) \/ pc'[c] # pc[c] => StepsLeft(c)' < StepsLeft(c)]_vars

LEMMA StepsOfStagesGrow ==
  ASSUME NEW n \in Nat, NEW m \in Nat, n <= m
  PROVE  /\ StepsOfStages(n) \in Nat
         /\ StepsOfStages(n) <= StepsOfStages(m)
         /\ StepsOfStages(n + 1) = StepsOfStages(n) + 2 * MaxRetries + 1
<1> DEFINE K == 2 * MaxRetries + 1
<1>1. K \in Nat
  BY RetriesAssumption
<1>2. PICK d \in Nat : m = n + d
  BY m - n \in Nat, m = n + (m - n)
<1> HIDE DEF K
<1>3. n * K \in Nat /\ d * K \in Nat /\ (n + d) * K = n * K + d * K /\ (n + 1) * K = n * K + K
  BY <1>1, <1>2
<1>4. n * K <= m * K
  BY <1>2, <1>3
<1> QED
  BY <1>3, <1>4, RetriesAssumption DEF StepsOfStages, K

\* What is left of a call is a number in every state that can occur.
LEMMA StepsLeftType ==
  ASSUME IInv, NEW c \in Calls
  PROVE  StepsLeft(c) \in Nat
<1>1. Len(stages[c]) \in Nat /\ stage[c] \in Nat /\ Cardinality(Providers) \in Nat
      /\ attempt[c] \in 0 .. MaxRetries
  BY AllocationFacts, ProvidersAssumption, FS_CardinalityType DEF IInv, TypeOK
<1>2. Executing(c) \/ pc[c] = "save" => StagesAfter(c) \in Nat
  BY <1>1 DEF IInv, Located, StagesAfter
<1>3. \A n \in Nat : StepsOfStages(n) \in Nat
  BY StepsOfStagesGrow
<1>4. pc[c] = "connect" => StepsOfStages(StagesAfter(c) + 1) \in Nat
  BY <1>2, <1>3 DEF Executing
<1>5. pc[c] \in {"send", "backoff", "save"} => StepsOfStages(StagesAfter(c)) \in Nat
  BY <1>2, <1>3 DEF Executing
<1>6. StepsOfStages(Cardinality(Providers)) \in Nat /\ StepsOfStages(Len(stages[c])) \in Nat
  BY <1>1, <1>3
<1>7. /\ MaxRetries \in Nat
      /\ 2 * (MaxRetries - attempt[c]) \in Nat
  BY <1>1, RetriesAssumption
<1>8. CASE pc[c] \in {"idle", "load"}
  BY <1>6, <1>8 DEF StepsLeft
<1>9. CASE pc[c] = "connect"
  BY <1>4, <1>9 DEF StepsLeft
<1>10. CASE pc[c] \in {"send", "backoff", "save"}
  <2> DEFINE S == StepsOfStages(StagesAfter(c))
             A == 2 * (MaxRetries - attempt[c])
  <2>1. S \in Nat /\ A \in Nat
    BY <1>5, <1>7, <1>10
  <2>2. StepsLeft(c) \in {S + A + 2, S + A + 3, S + 3}
    BY <1>10 DEF StepsLeft
  <2> HIDE DEF S, A
  <2> QED
    BY <2>1, <2>2
<1>11. CASE pc[c] \in {"finish", "decrypt", "done", "failed"}
  BY <1>11 DEF StepsLeft
<1> QED
  BY <1>8, <1>9, <1>10, <1>11 DEF IInv, TypeOK, States

\* A step of one call leaves what the others have left as it is.
LEMMA OthersWait ==
  ASSUME NEW d \in Calls,
         pc'[d] = pc[d], stages'[d] = stages[d], stage'[d] = stage[d], attempt'[d] = attempt[d]
  PROVE  StepsLeft(d)' = StepsLeft(d)
BY DEF StepsLeft, StagesAfter, StepsOfStages

Moves(c) ==
    \/ \E r \in Requests : Begin(c, r)
    \/ Refuse(c) \/ OwnStep(c) \/ StageReturns(c)

LEMMA MovesAreOwn ==
  ASSUME IInv, NEW c \in Calls, Moves(c), NEW d \in Calls, d # c
  PROVE  pc'[d] = pc[d] /\ StepsLeft(d)' = StepsLeft(d)
<1>1. pc'[d] = pc[d] /\ stages'[d] = stages[d] /\ stage'[d] = stage[d] /\ attempt'[d] = attempt[d]
  BY DEF Moves, OwnStep, StageReturns, IInv, TypeOK, Begin, Refuse, Resume, StartAfresh, Connect,
         ConnectFails, StageAnswers, StageErrs, WakeUp, SaveCheckpoint, Finish, Decrypt
<1> QED
  BY <1>1, OthersWait

LEMMA BeginAdvances ==
  ASSUME IInv, NEW c \in Calls, NEW r \in Requests, Begin(c, r)
  PROVE  StepsLeft(c)' < StepsLeft(c)
<1>1. PICK ss \in Allocations :
        /\ stages' = [stages EXCEPT ![c] = ss]
        /\ pc' = [pc EXCEPT ![c] = IF ss = <<>> THEN "failed" ELSE "load"]
  BY DEF Begin
<1>2. Len(ss) \in Nat /\ Cardinality(Providers) \in Nat /\ Len(ss) <= Cardinality(Providers)
  <2>1. PICK n \in 0 .. Cardinality(Providers) : ss \in [1 .. n -> Stage]
    BY DEF Allocations
  <2>2. Cardinality(Providers) \in Nat
    BY ProvidersAssumption, FS_CardinalityType
  <2> QED
    BY <2>1, <2>2
<1>3. /\ StepsOfStages(Len(ss)) \in Nat /\ StepsOfStages(Cardinality(Providers)) \in Nat
      /\ StepsOfStages(Len(ss)) <= StepsOfStages(Cardinality(Providers))
  BY <1>2, StepsOfStagesGrow
<1>4. pc[c] = "idle" /\ stages'[c] = ss /\ pc'[c] \in {"failed", "load"}
  BY <1>1 DEF Begin, IInv, TypeOK
<1>5. StepsLeft(c) = StepsOfStages(Cardinality(Providers)) + 4
  BY <1>4 DEF StepsLeft
<1>6. StepsLeft(c)' = 0 \/ StepsLeft(c)' = StepsOfStages(Len(ss)) + 3
  BY <1>4 DEF StepsLeft, StepsOfStages
<1> QED
  BY <1>3, <1>5, <1>6

\* A call that goes on after the stage i has no more left than the stages after i.
LEMMA LoopLeft ==
  ASSUME NEW c \in Calls, NEW i \in Nat, NEW n \in Nat, i <= n,
         stages' = stages, Len(stages[c]) = n, stage'[c] = i + 1, pc'[c] = LoopHead(c, i + 1)
  PROVE  StepsLeft(c)' = StepsOfStages(n - i) + 2
<1>1. StagesAfter(c)' = n - (i + 1)
  BY DEF StagesAfter
<1>2. CASE i < n
  <2>1. pc'[c] = "connect"
    BY <1>2 DEF LoopHead
  <2>2. StepsLeft(c)' = StepsOfStages(n - (i + 1) + 1) + 2
    BY <1>1, <2>1 DEF StepsLeft, StepsOfStages
  <2> QED
    BY <2>2, n - (i + 1) + 1 = n - i
<1>3. CASE i = n
  <2>1. pc'[c] = "finish"
    BY <1>3 DEF LoopHead
  <2>2. StepsOfStages(n - i) = 0
    BY <1>3, RetriesAssumption DEF StepsOfStages
  <2> QED
    BY <2>1, <2>2 DEF StepsLeft
<1> QED
  BY <1>2, <1>3

LEMMA ResumeAdvances ==
  ASSUME IInv, NEW c \in Calls, Resume(c) \/ StartAfresh(c)
  PROVE  StepsLeft(c)' < StepsLeft(c)
<1> DEFINE n == Len(stages[c])
<1>1. /\ pc[c] = "load" /\ stages' = stages /\ n \in Nat /\ n > 0
      /\ stage[c] = 1 /\ DOMAIN stages[c] = 1 .. n
      /\ Len(stages[c]) = n
  <2>1. pc[c] = "load" /\ stages' = stages
    BY DEF Resume, StartAfresh
  <2>2. stages[c] \in Allocations /\ stages[c] # <<>> /\ stage[c] = 1
    BY <2>1 DEF IInv, TypeOK, Located
  <2> QED
    BY <2>1, <2>2, AllocationFacts
<1> HIDE DEF n
<1>2. StepsLeft(c) = StepsOfStages(n) + 3
  BY <1>1 DEF StepsLeft
<1>3. StepsOfStages(n) \in Nat
  BY <1>1, StepsOfStagesGrow
<1>4. CASE Resume(c)
  <2>1. PICK i \in 1 .. n : stage'[c] = i + 1 /\ pc'[c] = LoopHead(c, i + 1)
    BY <1>1, <1>4 DEF Resume, IInv, TypeOK
  <2>2. StepsLeft(c)' = StepsOfStages(n - i) + 2
    BY <1>1, <2>1, i \in Nat, i <= n, LoopLeft
  <2>3. StepsOfStages(n - i) \in Nat /\ StepsOfStages(n - i) <= StepsOfStages(n)
    BY <1>1, StepsOfStagesGrow, n - i \in Nat, n - i <= n
  <2> QED
    BY <1>2, <1>3, <2>2, <2>3
<1>5. CASE StartAfresh(c)
  <2>1. stage'[c] = 0 + 1 /\ pc'[c] = LoopHead(c, 0 + 1)
    BY <1>1, <1>5 DEF StartAfresh, IInv, TypeOK, LoopHead
  <2>2. StepsLeft(c)' = StepsOfStages(n - 0) + 2
    BY <1>1, <2>1, 0 \in Nat, 0 <= n, LoopLeft
  <2> QED
    BY <1>1, <1>2, <1>3, <2>2, n - 0 = n
<1> QED
  BY <1>4, <1>5

\* Within a stage: an attempt is two steps, the connection and the checkpoint one each.
LEMMA StageAdvances ==
  ASSUME IInv, NEW c \in Calls,
         \/ Connect(c) \/ ConnectFails(c) \/ StageAnswers(c) \/ StageErrs(c)
         \/ WakeUp(c) \/ SaveCheckpoint(c)
  PROVE  StepsLeft(c)' < StepsLeft(c)
<1> DEFINE n == StagesAfter(c)
           S == StepsOfStages(n)
<1>1. /\ Len(stages[c]) \in Nat /\ stage[c] \in Nat \ {0} /\ stage[c] <= Len(stages[c])
      /\ n = Len(stages[c]) - stage[c]
  <2>1. pc[c] \in {"connect", "send", "backoff", "save"}
    BY DEF Connect, ConnectFails, StageAnswers, StageErrs, WakeUp, SaveCheckpoint
  <2> QED
    BY <2>1, AllocationFacts DEF IInv, TypeOK, Located, Executing, StagesAfter
<1>2. n \in Nat
  BY <1>1
<1>3. S \in Nat /\ StepsOfStages(n + 1) = S + 2 * MaxRetries + 1
  BY <1>2, StepsOfStagesGrow
<1>4. MaxRetries \in Nat \ {0}
  BY RetriesAssumption
<1>5. ASSUME stages' = stages, stage' = stage
      PROVE  StagesAfter(c)' = n /\ StepsOfStages(StagesAfter(c))' = S
  BY <1>5 DEF StagesAfter, StepsOfStages
<1> HIDE DEF n, S
<1>6. CASE Connect(c)
  <2>1. pc[c] = "connect" /\ pc'[c] = "send" /\ attempt'[c] = 0 /\ stages' = stages /\ stage' = stage
    BY <1>6 DEF Connect, IInv, TypeOK
  <2>2. StepsLeft(c) = S + 2 * MaxRetries + 3
    BY <1>2, <1>3, <1>4, <2>1 DEF StepsLeft, n
  <2>3. StepsLeft(c)' = S + 2 * MaxRetries + 2
    BY <1>3, <1>4, <1>5, <2>1 DEF StepsLeft
  <2> QED
    BY <1>3, <1>4, <2>2, <2>3
<1>7. CASE ConnectFails(c)
  <2>1. pc[c] = "connect" /\ pc'[c] = "failed"
    BY <1>7 DEF ConnectFails, IInv, TypeOK
  <2>2. StepsLeft(c) = S + 2 * MaxRetries + 3 /\ StepsLeft(c)' = 0
    BY <1>2, <1>3, <1>4, <2>1 DEF StepsLeft, n
  <2> QED
    BY <1>3, <1>4, <2>2
<1>8. CASE StageAnswers(c)
  <2>1. /\ pc[c] = "send" /\ pc'[c] = "save" /\ stages' = stages /\ stage' = stage
        /\ attempt[c] \in Nat /\ attempt[c] < MaxRetries
    BY <1>8, <1>4 DEF StageAnswers, IInv, TypeOK, Located
  <2>2. StepsLeft(c) = S + 2 * (MaxRetries - attempt[c]) + 2
    BY <2>1 DEF StepsLeft, n, S
  <2>3. StepsLeft(c)' = S + 3
    BY <1>5, <2>1 DEF StepsLeft
  <2> QED
    BY <1>3, <1>4, <2>1, <2>2, <2>3
<1>9. CASE StageErrs(c)
  <2>1. /\ pc[c] = "send" /\ pc'[c] = "backoff" /\ stages' = stages /\ stage' = stage
        /\ attempt[c] \in Nat /\ attempt[c] < MaxRetries /\ attempt'[c] = attempt[c] + 1
    BY <1>9, <1>4 DEF StageErrs, NextAttempt, IInv, TypeOK, Located
  <2>2. StepsLeft(c) = S + 2 * (MaxRetries - attempt[c]) + 2
    BY <2>1 DEF StepsLeft, n, S
  <2>3. StepsLeft(c)' = S + 2 * (MaxRetries - (attempt[c] + 1)) + 3
    BY <1>5, <2>1 DEF StepsLeft
  <2> QED
    BY <1>3, <1>4, <2>1, <2>2, <2>3
<1>10. CASE WakeUp(c)
  <2>1. /\ pc[c] = "backoff" /\ stages' = stages /\ stage' = stage /\ attempt' = attempt
        /\ pc'[c] \in {"send", "failed"} /\ attempt[c] \in Nat /\ attempt[c] <= MaxRetries
    BY <1>10, <1>4 DEF WakeUp, IInv, TypeOK
  <2>2. StepsLeft(c) = S + 2 * (MaxRetries - attempt[c]) + 3
    BY <2>1 DEF StepsLeft, n, S
  <2>3. StepsLeft(c)' = 0 \/ StepsLeft(c)' = S + 2 * (MaxRetries - attempt[c]) + 2
    BY <1>5, <2>1 DEF StepsLeft
  <2> QED
    BY <1>3, <1>4, <2>1, <2>2, <2>3
<1>11. CASE SaveCheckpoint(c)
  <2>1. /\ pc[c] = "save" /\ stages' = stages
        /\ stage'[c] = stage[c] + 1 /\ pc'[c] = LoopHead(c, stage[c] + 1)
    BY <1>11 DEF SaveCheckpoint, IInv, TypeOK
  <2>2. StepsLeft(c) = S + 3
    BY <2>1 DEF StepsLeft, n, S
  <2>3. StepsLeft(c)' = StepsOfStages(Len(stages[c]) - stage[c]) + 2
    BY <1>1, <2>1, LoopLeft
  <2>4. StepsLeft(c)' = S + 2
    BY <1>1, <2>3 DEF S
  <2> QED
    BY <1>3, <2>2, <2>4
<1> QED
  BY <1>6, <1>7, <1>8, <1>9, <1>10, <1>11

LEMMA EndAdvances ==
  ASSUME IInv, NEW c \in Calls, Refuse(c) \/ Finish(c) \/ Decrypt(c)
  PROVE  StepsLeft(c)' < StepsLeft(c)
<1>1. \/ pc[c] = "idle" /\ pc'[c] = "failed"
      \/ pc[c] = "finish" /\ pc'[c] = "decrypt"
      \/ pc[c] = "decrypt" /\ pc'[c] \in {"done", "failed"}
  BY DEF Refuse, Finish, Decrypt, IInv, TypeOK
<1>2. StepsOfStages(Cardinality(Providers)) \in Nat
  BY StepsOfStagesGrow, ProvidersAssumption, FS_CardinalityType
<1> HIDE DEF StepsOfStages
<1> QED
  BY <1>1, <1>2 DEF StepsLeft

\* No call of ReRequestInference takes more than StepsLeft steps, counted from any
\* point of it: neither a retry nor a resume from a checkpoint that another call saved
\* can bring it back to where it was.
THEOREM CallsAdvanceAlways == Spec => [](\A c \in Calls : StepsLeft(c) \in Nat) /\ CallsAdvance
<1> DEFINE Nearer(c) == StepsLeft(c)' # StepsLeft(c) \/ pc'[c] # pc[c] => StepsLeft(c)' < StepsLeft(c)
           Numbered == \A c \in Calls : StepsLeft(c) \in Nat
<1>1. ASSUME IInv, Next
      PROVE  \A c \in Calls : Nearer(c)
  <2>1. CASE Tick \/ \E r \in Requests : RememberRequest(r)
    BY <2>1 DEF Tick, RememberRequest, locals, StepsLeft, StagesAfter, StepsOfStages
  <2>2. CASE \E c \in Calls : Moves(c)
    <3>1. PICK c \in Calls : Moves(c)
      BY <2>2
    <3>2. StepsLeft(c)' < StepsLeft(c)
      BY <1>1, <3>1, BeginAdvances, ResumeAdvances, StageAdvances, EndAdvances
      DEF Moves, OwnStep, StageReturns
    <3>3. \A d \in Calls : d # c => pc'[d] = pc[d] /\ StepsLeft(d)' = StepsLeft(d)
      BY <1>1, <3>1, MovesAreOwn
    <3> QED
      BY <3>2, <3>3
  <2> QED
    BY <1>1, <2>1, <2>2 DEF Next, Moves
<1>2. IInv => Numbered
  BY StepsLeftType
<1>3. IInv /\ [Next]_vars => [\A c \in Calls : Nearer(c)]_vars
  BY <1>1
<1> HIDE DEF Numbered
<1>4. Spec => []Numbered
  BY <1>2, InitHolds, StepHolds, PTL DEF Spec
<1>5. Spec => CallsAdvance
  BY <1>3, InitHolds, StepHolds, PTL DEF Spec, CallsAdvance
<1> QED
  BY <1>4, <1>5 DEF Numbered
=============================================================================
