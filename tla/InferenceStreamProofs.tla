------------------------ MODULE InferenceStreamProofs ------------------------
(***************************************************************************)
(* What executeStage returns stands for: for any sizes of the request, the *)
(* output, the limits and the flow-control window.                         *)
(***************************************************************************)
EXTENDS InferenceStream, TLAPS

\* Before the engine has returned, nothing is credited or written; what is written
\* later was credited, and a stage that was credited is answered in full unless the
\* connection is lost or its reader is gone.
ServerOK ==
    /\ server \in {"none", "reading", "executing"} => replied = 0 /\ contributions = 0
    /\ server = "writing" => contributions = 1 /\ replied < outputSize
    /\ replied > 0 => contributions = 1
    /\ server = "closed" /\ contributions = 1 =>
         reset \/ client = "returned" \/ replied = outputSize

\* A call that returned no bytes has seen the handler's end.
ClientOK ==
    /\ result = "pending" <=> client # "returned"
    /\ client \in {"opening", "writing"} => sent < requestSize
    /\ result = "computed" => contributions = 1
    /\ result = "empty" => server = "closed" /\ contributions = 0

Inv == TypeOK /\ ServerOK /\ ClientOK

LEMMA Sizes ==
  ASSUME TypeOK
  PROVE  /\ requestSize \in Nat \ {0} /\ outputSize \in Nat \ {0}
         /\ MaxRequest \in Nat \ {0} /\ MaxResponse \in Nat \ {0}
         /\ sent \in Nat /\ received \in Nat /\ replied \in Nat /\ got \in Nat
BY SizesAssumption DEF TypeOK

LEMMA InvStarts == Init => Inv
<1> SUFFICES ASSUME Init PROVE Inv
  OBVIOUS
<1>1. requestSize \in Nat \ {0} /\ outputSize \in Nat \ {0}
  BY SizesAssumption DEF Init
<1>2. TypeOK
  <2>1. /\ sent = 0 /\ received = 0 /\ replied = 0 /\ got = 0 /\ contributions = 0
        /\ requestSize \in RequestSizes /\ outputSize \in OutputSizes
        /\ client = "opening" /\ server = "none" /\ reset = FALSE /\ result = "pending"
    BY DEF Init
  <2>2. 0 \in 0 .. requestSize /\ 0 \in 0 .. 0 /\ 0 \in 0 .. outputSize /\ 0 \in 0 .. 1
    BY <1>1
  <2> QED
    BY <2>1, <2>2, Zenon DEF TypeOK
<1> QED
  BY <1>1, <1>2 DEF Init, Inv, ServerOK, ClientOK

\* executeStage changes nothing of the provider's; what it returns is what it read.
LEMMA ClientHolds == Inv /\ ClientStep => Inv'
<1> SUFFICES ASSUME Inv, ClientStep PROVE Inv'
  OBVIOUS
<1>1. UNCHANGED <<requestSize, outputSize, reset, server, received, replied, contributions>>
  BY DEF ClientStep, ServerUnchanged, RunUnchanged
<1>2. TypeOK /\ ServerOK /\ ClientOK
  BY DEF Inv
<1>3. CASE OpenStream
  BY <1>1, <1>2, <1>3, Sizes DEF OpenStream, Inv, TypeOK, ServerOK, ClientOK
<1>4. CASE OpenFails
  BY <1>1, <1>2, <1>4, Sizes DEF OpenFails, Return, Inv, TypeOK, ServerOK, ClientOK
<1>5. CASE WriteRequest
  BY <1>1, <1>2, <1>5, Sizes DEF WriteRequest, Inv, TypeOK, ServerOK, ClientOK
<1>6. CASE WriteFails
  BY <1>1, <1>2, <1>6, Sizes DEF WriteFails, Return, Inv, TypeOK, ServerOK, ClientOK
<1>7. CASE ReadOutput
  BY <1>1, <1>2, <1>7, Sizes DEF ReadOutput, Inv, TypeOK, ServerOK, ClientOK
<1>8. CASE ReadEnds
  <2>1. /\ client = "reading" /\ ~reset /\ client' = "returned" /\ UNCHANGED <<sent, got>>
        /\ got = MaxResponse \/ (server = "closed" /\ got = replied)
        /\ result' = Outcome(got)
    BY <1>8 DEF ReadEnds, Return, ReplyLimit
  <2>2. Outcome(got) \in {"empty", "computed", "truncated"}
    BY DEF Outcome
  <2>3. ASSUME Outcome(got) = "empty" PROVE server = "closed" /\ contributions = 0
    <3>1. got = 0
      BY <2>3, Sizes, <1>2 DEF Outcome
    <3>2. server = "closed" /\ replied = 0
      BY <2>1, <3>1, Sizes, <1>2
    <3> QED
      BY <1>2, <2>1, <3>2, Sizes DEF ServerOK, TypeOK
  <2>4. ASSUME Outcome(got) = "computed" PROVE contributions = 1
    <3>1. got = outputSize
      BY <2>4 DEF Outcome
    <3> QED
      BY <1>2, <3>1, Sizes DEF ServerOK, TypeOK
  <2> QED
    BY <1>1, <1>2, <2>1, <2>2, <2>3, <2>4, Sizes DEF Inv, TypeOK, ServerOK, ClientOK
<1>9. CASE ReadFails
  BY <1>1, <1>2, <1>9, Sizes DEF ReadFails, Return, Inv, TypeOK, ServerOK, ClientOK
<1> QED
  BY <1>3, <1>4, <1>5, <1>6, <1>7, <1>8, <1>9 DEF ClientStep

\* The handler credits the stage once, before it writes.
LEMMA ServerHolds == Inv /\ ServerStep => Inv'
<1> SUFFICES ASSUME Inv, ServerStep PROVE Inv'
  OBVIOUS
<1>1. UNCHANGED <<requestSize, outputSize, reset, client, sent, got, result>>
  BY DEF ServerStep, ClientUnchanged, RunUnchanged
<1>2. TypeOK /\ ServerOK /\ ClientOK
  BY DEF Inv
<1>3. CASE Accept
  BY <1>1, <1>2, <1>3, Sizes DEF Accept, Inv, TypeOK, ServerOK, ClientOK
<1>4. CASE ReadRequest
  BY <1>1, <1>2, <1>4, Sizes DEF ReadRequest, Inv, TypeOK, ServerOK, ClientOK
<1>5. CASE ParseRequest
  BY <1>1, <1>2, <1>5, Sizes DEF ParseRequest, Inv, TypeOK, ServerOK, ClientOK
<1>6. CASE ExecuteLayer
  BY <1>1, <1>2, <1>6, Sizes DEF ExecuteLayer, Credited, Inv, TypeOK, ServerOK, ClientOK
<1>7. CASE ExecuteFails
  BY <1>1, <1>2, <1>7, Sizes
  DEF ExecuteFails, ReplyOnFailure, CreditedOnFailure, Inv, TypeOK, ServerOK, ClientOK
<1>8. CASE WriteOutput
  BY <1>1, <1>2, <1>8, Sizes DEF WriteOutput, Inv, TypeOK, ServerOK, ClientOK
<1>9. CASE StreamFails
  BY <1>1, <1>2, <1>9, Sizes
  DEF StreamFails, Inv, TypeOK, ServerOK, ClientOK
<1> QED
  BY <1>3, <1>4, <1>5, <1>6, <1>7, <1>8, <1>9 DEF ServerStep

LEMMA InvHolds == Inv /\ [Next]_vars => Inv'
<1> SUFFICES ASSUME Inv, [Next]_vars PROVE Inv'
  OBVIOUS
<1>1. CASE ConnectionLost
  BY <1>1
  DEF ConnectionLost, ClientUnchanged, ServerUnchanged, Inv, TypeOK, ServerOK, ClientOK
<1>2. CASE UNCHANGED vars
  BY <1>2 DEF vars, Inv, TypeOK, ServerOK, ClientOK
<1> QED
  BY <1>1, <1>2, ClientHolds, ServerHolds DEF Next

THEOREM InvAlways == Spec => []Inv
BY InvStarts, InvHolds, PTL DEF Spec

\* TypeOK holds whatever the sizes: no more is read than was written, and a stage is
\* credited at most once (executor.go, handleInferenceStream).
THEOREM StreamTypes == Spec => []TypeOK
<1>1. Inv => TypeOK
  BY DEF Inv
<1> QED
  BY <1>1, InvAlways, PTL

\* An empty answer, which executeStage (orchestrator.go) returns without an error,
\* never stands for a stage that was executed and credited.
THEOREM EmptyAnswersHideNoWork == Spec => []EmptyMeansNoWork
<1>1. Inv => EmptyMeansNoWork
  BY DEF Inv, ClientOK, EmptyMeansNoWork
<1> QED
  BY <1>1, InvAlways, PTL

-----------------------------------------------------------------------------
LEMMA AbstractStarts == Init => Abstract!Init
BY DEF Init, Abstract!Init

\* executeStage returns once, and it has an output only of an executed stage.
LEMMA ClientImplements == Inv /\ Inv' /\ ClientStep => [Abstract!Next]_(Abstract!vars)
<1> SUFFICES ASSUME Inv, Inv', ClientStep PROVE [Abstract!Next]_(Abstract!vars)
  OBVIOUS
<1>1. contributions' = contributions
  BY DEF ClientStep, ServerUnchanged
<1>2. CASE result' = result
  BY <1>1, <1>2 DEF Abstract!vars
<1>3. CASE result' # result
  <2>1. result = "pending" /\ client' = "returned"
    BY <1>3
    DEF ClientStep, OpenStream, OpenFails, WriteRequest, WriteFails, ReadOutput, ReadEnds,
        ReadFails, Return, Inv, ClientOK
  <2>2. result' \in {"error", "empty", "truncated", "computed"}
    BY <1>3, <2>1 DEF Inv, TypeOK
  <2>3. result' = "computed" => contributions > 0
    BY <1>1 DEF Inv, ClientOK
  <2>4. CASE result' \in {"empty", "truncated"}
    <3>1. Abstract!Return("corrupt")
      BY <1>1, <2>1, <2>4 DEF Abstract!Return
    <3> QED
      BY <3>1 DEF Abstract!Next
  <2>5. CASE result' = "error"
    <3>1. Abstract!Return("error")
      BY <1>1, <2>1, <2>5 DEF Abstract!Return
    <3> QED
      BY <3>1 DEF Abstract!Next
  <2>6. CASE result' = "computed"
    <3>1. Abstract!Return("computed")
      BY <1>1, <2>1, <2>3, <2>6 DEF Abstract!Return
    <3> QED
      BY <3>1 DEF Abstract!Next
  <2> QED
    BY <2>2, <2>4, <2>5, <2>6
<1> QED
  BY <1>2, <1>3

\* The handler executes the stage once, and nothing else of it shows.
LEMMA ServerImplements == Inv /\ ServerStep => [Abstract!Next]_(Abstract!vars)
<1> SUFFICES ASSUME Inv, ServerStep PROVE [Abstract!Next]_(Abstract!vars)
  OBVIOUS
<1>1. result' = result
  BY DEF ServerStep, ClientUnchanged
<1>2. CASE ExecuteLayer
  <2>1. contributions = 0 /\ contributions' = 1
    BY <1>2 DEF ExecuteLayer, Credited, Inv, ServerOK
  <2>2. ~ (contributions > 0) /\ contributions' > 0
    BY <2>1
  <2>3. Abstract!Execute
    BY <1>1, <2>2 DEF Abstract!Execute
  <2> QED
    BY <2>3 DEF Abstract!Next
<1>3. CASE ~ ExecuteLayer
  <2>1. contributions' = contributions
    BY <1>3
    DEF ServerStep, Accept, ReadRequest, ParseRequest, ExecuteFails, CreditedOnFailure,
        WriteOutput, StreamFails
  <2> QED
    BY <1>1, <2>1 DEF Abstract!vars
<1> QED
  BY <1>2, <1>3

\* The stage call that the pipeline is modelled with is all that the two functions
\* and the stream between them do: every step of theirs is a step of StageCall or
\* leaves it as it is.
THEOREM StreamsImplementStageCalls == Spec => ImplementsStageCall
<1>1. Inv /\ Inv' /\ [Next]_vars => [Abstract!Next]_(Abstract!vars)
  <2> SUFFICES ASSUME Inv, Inv', [Next]_vars PROVE [Abstract!Next]_(Abstract!vars)
    OBVIOUS
  <2>1. CASE ConnectionLost
    BY <2>1 DEF ConnectionLost, ClientUnchanged, ServerUnchanged, Abstract!vars
  <2>2. CASE UNCHANGED vars
    BY <2>2 DEF vars, Abstract!vars
  <2> QED
    BY <2>1, <2>2, ClientImplements, ServerImplements DEF Next
<1> QED
  BY <1>1, AbstractStarts, InvAlways, PTL DEF Spec, ImplementsStageCall, Abstract!Spec

-----------------------------------------------------------------------------
\* How many steps the two ends take at most: bytes that are still to be written and
\* read, and places that are still to be passed.
ClientPlacesLeft ==
    CASE client = "opening" -> 3 [] client = "writing" -> 2 [] client = "reading" -> 1 [] OTHER -> 0

ServerPlacesLeft ==
    CASE server = "none" -> 4 [] server = "reading" -> 3 [] server = "executing" -> 2
      [] server = "writing" -> 1 [] OTHER -> 0

StepsLeft ==
    (requestSize - sent) + (requestSize - received) + (outputSize - replied) + (outputSize - got)
        + ClientPlacesLeft + ServerPlacesLeft

\* Each step of an end brings the stream nearer to its end, and a lost connection
\* does not set it back.
StreamAdvances ==
    [][/\ ClientStep \/ ServerStep => StepsLeft' < StepsLeft
       /\ ConnectionLost => StepsLeft' = StepsLeft]_vars

\* The limits of both readers hold, and what is read was sent first; while no connection
\* is lost, a function returns before the other one has ended only at its own limit.
LimitsOK ==
    /\ received <= MaxRequest /\ got <= MaxResponse
    /\ client = "opening" => sent = 0
    /\ client = "reading" => sent = requestSize
    /\ server # "none" => sent > 0
    /\ server \in {"executing", "writing"} => received = requestSize
    /\ client = "writing" /\ server = "closed" /\ ~reset => received = MaxRequest
    /\ client = "returned" /\ server # "closed" /\ ~reset => sent = 0 \/ got = MaxResponse

LInv == Inv /\ LimitsOK

LEMMA LimitsHold == LInv /\ [Next]_vars => LInv'
<1> SUFFICES ASSUME LInv, [Next]_vars PROVE LInv'
  OBVIOUS
<1>1. Inv' /\ Inv /\ TypeOK /\ LimitsOK
  BY InvHolds DEF LInv, Inv
<1>2. CASE ClientStep
  <2>1. UNCHANGED <<requestSize, reset, server, received>>
    BY <1>2 DEF ClientStep, ServerUnchanged, RunUnchanged
  <2> QED
    BY <1>1, <1>2, <2>1, Sizes
    DEF ClientStep, OpenStream, OpenFails, WriteRequest, WriteFails, ReadOutput, ReadEnds,
        ReadFails, Return, ReplyLimit, LInv, LimitsOK, Inv, ClientOK
<1>3. CASE ServerStep
  <2>1. UNCHANGED <<requestSize, reset, client, sent, got>>
    BY <1>3 DEF ServerStep, ClientUnchanged, RunUnchanged
  <2>2. client = "writing" => sent < requestSize /\ received <= sent
    BY <1>1, Sizes DEF Inv, ClientOK, TypeOK
  <2> QED
    BY <1>1, <1>3, <2>1, <2>2, Sizes
    DEF ServerStep, Accept, ReadRequest, ParseRequest, RequestEnded, Parsed, ExecuteLayer,
        ExecuteFails, WriteOutput, StreamFails, LInv, LimitsOK
<1>4. CASE ConnectionLost \/ UNCHANGED vars
  BY <1>1, <1>4 DEF ConnectionLost, ClientUnchanged, ServerUnchanged, vars, LInv, LimitsOK
<1> QED
  BY <1>2, <1>3, <1>4 DEF Next

THEOREM LimitsAlwaysHold == Spec => []LInv
<1>1. Init => LimitsOK
  BY SizesAssumption DEF Init, LimitsOK
<1>2. Init => LInv
  BY <1>1, InvStarts DEF LInv
<1> QED
  BY <1>2, LimitsHold, PTL DEF Spec

\* executeStage and the handler wait for ever only over a request of less than the
\* handler's limit (orchestrator.go reads before it closes its side, and executor.go reads
\* to the end), and over a request or an output that is longer than the limit of its
\* reader and the window together: in every other state one of them goes on or both are
\* over.
THEOREM OthersNeverHang == Spec => []OnlyTheseSizesHang
<1>1. LInv => OnlyTheseSizesHang
  <2> SUFFICES ASSUME LInv, ~ ClientCanMove, ~ ServerCanMove
               PROVE  Over \/ BothRead \/ RequestNeverRead \/ OutputNeverRead
    BY DEF OnlyTheseSizesHang
  <2>1. TypeOK /\ LimitsOK /\ ServerOK /\ ClientOK
    BY DEF LInv, Inv
  <2>2. client \in {"writing", "reading", "returned"} /\ server \in {"none", "reading", "writing", "closed"}
    BY <2>1 DEF TypeOK, ClientCanMove, ServerCanMove
  <2>3. Window \in Nat \ {0} /\ sent <= requestSize /\ received <= sent /\ got <= replied
    BY <2>1, Sizes, SizesAssumption DEF TypeOK
  <2>4. CASE client = "returned"
    <3>1. server # "reading"
      BY <2>1, <2>3, <2>4, Sizes DEF ServerCanMove, RequestEnded
    <3>2. CASE server = "writing"
      <4>1. ~reset /\ replied >= got + Window /\ replied < outputSize
        BY <2>1, <2>3, <3>2, Sizes DEF ServerCanMove, ServerOK
      <4>2. got = MaxResponse
        BY <2>1, <2>4, <3>2, <4>1, Sizes DEF LimitsOK
      <4> QED
        BY <2>1, <2>3, <2>4, <3>2, <4>1, <4>2, Sizes DEF OutputNeverRead
    <3> QED
      BY <2>2, <2>4, <3>1, <3>2 DEF Over
  <2>5. CASE client = "writing"
    <3>1. ~reset /\ sent >= received + Window /\ sent < requestSize
      BY <2>1, <2>3, <2>5, Sizes DEF ClientCanMove, ClientOK
    <3>2. server \notin {"none", "reading"}
      BY <2>3, <3>1, Sizes, <2>1 DEF ServerCanMove
    <3>3. server # "writing"
      BY <2>1, <2>3, <3>1, Sizes DEF LimitsOK
    <3>4. server = "closed" /\ received = MaxRequest
      BY <2>1, <2>2, <2>5, <3>1, <3>2, <3>3 DEF LimitsOK
    <3> QED
      BY <2>1, <2>3, <2>5, <3>1, <3>4, Sizes DEF RequestNeverRead
  <2>6. CASE client = "reading"
    <3>1. ~reset /\ server # "closed" /\ got # MaxResponse /\ ~ (got < replied)
      BY <2>6 DEF ClientCanMove, ReplyLimit
    <3>2. got = replied /\ sent = requestSize /\ sent > 0
      BY <2>1, <2>3, <2>6, <3>1, Sizes DEF LimitsOK
    <3>3. server \notin {"none", "writing"}
      BY <2>3, <3>1, <3>2, Sizes, <2>1 DEF ServerCanMove
    <3>4. server = "reading"
      BY <2>2, <3>1, <3>3
    <3>5. received # MaxRequest /\ ~ (received < sent)
      BY <3>4 DEF ServerCanMove, RequestEnded
    <3>6. received = requestSize /\ received < MaxRequest
      BY <2>1, <2>3, <3>2, <3>5, Sizes DEF LimitsOK
    <3> QED
      BY <2>1, <2>6, <3>1, <3>2, <3>4, <3>6 DEF BothRead, ServerOK
  <2> QED
    BY <2>2, <2>4, <2>5, <2>6
<1> QED
  BY <1>1, LimitsAlwaysHold, PTL

LEMMA StepsLeftIsNat == LInv => StepsLeft \in Nat
<1> SUFFICES ASSUME LInv PROVE StepsLeft \in Nat
  OBVIOUS
<1>1. TypeOK
  BY DEF LInv, Inv
<1>2. /\ requestSize - sent \in Nat /\ requestSize - received \in Nat
      /\ outputSize - replied \in Nat /\ outputSize - got \in Nat
  BY <1>1, Sizes DEF TypeOK
<1>3. ClientPlacesLeft \in Nat /\ ServerPlacesLeft \in Nat
  BY DEF ClientPlacesLeft, ServerPlacesLeft
<1> QED
  BY <1>2, <1>3 DEF StepsLeft

\* A call and its handler take at most StepsLeft steps from any point on, and none of
\* them makes the other one start again.
THEOREM StreamsAdvance == Spec => [](StepsLeft \in Nat) /\ StreamAdvances
<1>1. ASSUME LInv, LInv', ClientStep
      PROVE  StepsLeft' < StepsLeft
  <2>1. UNCHANGED <<requestSize, outputSize, server, received, replied>>
    BY <1>1 DEF ClientStep, ServerUnchanged, RunUnchanged
  <2>2. ServerPlacesLeft' = ServerPlacesLeft /\ ServerPlacesLeft \in Nat /\ ClientPlacesLeft \in Nat
    BY <2>1 DEF ServerPlacesLeft, ClientPlacesLeft
  <2>3. TypeOK /\ TypeOK'
    BY <1>1 DEF LInv, Inv
  <2>4. \/ sent' = sent + 1 /\ got' = got /\ ClientPlacesLeft' <= ClientPlacesLeft
        \/ got' = got + 1 /\ sent' = sent /\ ClientPlacesLeft' <= ClientPlacesLeft
        \/ sent' = sent /\ got' = got /\ ClientPlacesLeft' < ClientPlacesLeft
    BY <1>1
    DEF ClientStep, OpenStream, OpenFails, WriteRequest, WriteFails, ReadOutput, ReadEnds,
        ReadFails, Return, ClientPlacesLeft
  <2>5. ClientPlacesLeft' \in Nat
    BY DEF ClientPlacesLeft
  <2> QED
    BY <2>1, <2>2, <2>3, <2>4, <2>5, Sizes DEF StepsLeft
<1>2. ASSUME LInv, LInv', ServerStep
      PROVE  StepsLeft' < StepsLeft
  <2>1. UNCHANGED <<requestSize, outputSize, client, sent, got>>
    BY <1>2 DEF ServerStep, ClientUnchanged, RunUnchanged
  <2>2. ClientPlacesLeft' = ClientPlacesLeft /\ ServerPlacesLeft \in Nat /\ ClientPlacesLeft \in Nat
    BY <2>1 DEF ServerPlacesLeft, ClientPlacesLeft
  <2>3. TypeOK /\ TypeOK' /\ ServerOK
    BY <1>2 DEF LInv, Inv
  <2>4. \/ received' = received + 1 /\ replied' = replied /\ ServerPlacesLeft' <= ServerPlacesLeft
        \/ replied' = replied + 1 /\ received' = received /\ ServerPlacesLeft' <= ServerPlacesLeft
        \/ received' = received /\ replied' = replied /\ ServerPlacesLeft' < ServerPlacesLeft
    BY <1>2, <2>3
    DEF ServerStep, Accept, ReadRequest, ParseRequest, ExecuteLayer, ExecuteFails, ReplyOnFailure,
        WriteOutput, StreamFails, ServerPlacesLeft, ServerOK
  <2>5. ServerPlacesLeft' \in Nat
    BY DEF ServerPlacesLeft
  <2> QED
    BY <2>1, <2>2, <2>3, <2>4, <2>5, Sizes DEF StepsLeft
<1>3. ASSUME ConnectionLost
      PROVE  StepsLeft' = StepsLeft /\ ~ ClientStep /\ ~ ServerStep
  BY <1>3
  DEF ConnectionLost, ClientUnchanged, ServerUnchanged, StepsLeft, ClientPlacesLeft,
      ServerPlacesLeft, ClientStep, ServerStep, RunUnchanged
<1>4. LInv /\ LInv' /\ [Next]_vars =>
        [/\ ClientStep \/ ServerStep => StepsLeft' < StepsLeft
         /\ ConnectionLost => StepsLeft' = StepsLeft]_vars
  BY <1>1, <1>2, <1>3
<1>5. Spec => [](StepsLeft \in Nat)
  BY StepsLeftIsNat, LimitsAlwaysHold, PTL
<1>6. Spec => StreamAdvances
  BY <1>4, LimitsAlwaysHold, PTL DEF Spec, StreamAdvances
<1> QED
  BY <1>5, <1>6
=============================================================================
