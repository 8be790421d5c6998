--------------------------- MODULE InferenceStream ---------------------------
(***************************************************************************)
(* One /compushare/inference/1.0 stream: Orchestrator.executeStage on the  *)
(* consumer (pipeline/orchestrator.go) and Executor.handleInferenceStream  *)
(* on the provider (pipeline/executor.go), with the libp2p stream between  *)
(* them: two byte pipes with a flow-control window, closed per direction,  *)
(* and reset when the connection is lost.  Over the TCP and yamux of the   *)
(* hosts' listen addresses Close ends the closer's own direction only: the *)
(* other end may still write, and waits, without a deadline, for a window  *)
(* that no reader opens.                                                   *)
(*                                                                         *)
(* Bytes are counted in units of which the handler reads MaxRequest and    *)
(* executeStage reads MaxResponse (4 MB and 64 MB in the code).            *)
(***************************************************************************)
EXTENDS Integers

CONSTANTS MaxRequest,       \* maxRequestBytes
          MaxResponse,      \* maxResponseBytes
          RequestSizes,     \* sizes of the JSON request
          OutputSizes,      \* sizes of an encrypted output
          Window            \* bytes a stream takes before its reader reads

ASSUME SizesAssumption ==
    /\ MaxRequest \in Nat \ {0} /\ MaxResponse \in Nat \ {0} /\ Window \in Nat \ {0}
    /\ RequestSizes \subseteq Nat \ {0} /\ OutputSizes \subseteq Nat \ {0}

VARIABLES requestSize, outputSize,
          client,           \* where executeStage is
          server,           \* where handleInferenceStream is
          sent, received,   \* request bytes written and read
          replied, got,     \* output bytes written and read
          reset,            \* the connection was lost
          contributions,    \* AddContribution calls of this stream
          result            \* what executeStage returned

vars == <<requestSize, outputSize, client, server, sent, received, replied, got,
          reset, contributions, result>>

Init ==
    /\ requestSize \in RequestSizes
    /\ outputSize \in OutputSizes
    /\ client = "opening"
    /\ server = "none"
    /\ sent = 0 /\ received = 0
    /\ replied = 0 /\ got = 0
    /\ reset = FALSE
    /\ contributions = 0
    /\ result = "pending"

ClientUnchanged == UNCHANGED <<client, sent, got, result>>
ServerUnchanged == UNCHANGED <<server, received, replied, contributions>>
RunUnchanged == UNCHANGED <<requestSize, outputSize, reset>>

-----------------------------------------------------------------------------
\* executeStage.  It returns with the deferred stream.Close, its only close.

Return(r) == client' = "returned" /\ result' = r

OpenStream ==
    /\ client = "opening" /\ ~reset
    /\ client' = "writing"
    /\ UNCHANGED <<sent, got, result>>

\* NewStream fails, or the evaluation keys cannot be marshalled.
OpenFails ==
    /\ client = "opening"
    /\ Return("error")
    /\ UNCHANGED <<sent, got>>

WriteRequest ==
    /\ client = "writing" /\ ~reset
    /\ sent - received < Window
    /\ sent' = sent + 1
    /\ client' = IF sent + 1 = requestSize THEN "reading" ELSE "writing"
    /\ UNCHANGED <<got, result>>

WriteFails ==
    /\ client = "writing" /\ reset
    /\ Return("error")
    /\ UNCHANGED <<sent, got>>

\* Mutant: both directions are read up to the limit of a request.
ReplyLimitOfRequest == MaxRequest

ReplyLimit == MaxResponse

ReadOutput ==
    /\ client = "reading" /\ ~reset
    /\ got < replied /\ got < ReplyLimit
    /\ got' = got + 1
    /\ UNCHANGED <<client, sent, result>>

\* What io.ReadAll of the limited stream has read when it returns.
Outcome(n) ==
    CASE n = 0 -> "empty"
      [] n = outputSize -> "computed"
      [] OTHER -> "truncated"

\* io.ReadAll ends at the end of the stream or at the limit.
ReadEnds ==
    /\ client = "reading" /\ ~reset
    /\ got = ReplyLimit \/ (server = "closed" /\ got = replied)
    /\ Return(Outcome(got))
    /\ UNCHANGED <<sent, got>>

ReadFails ==
    /\ client = "reading" /\ reset
    /\ Return("error")
    /\ UNCHANGED <<sent, got>>

ClientStep ==
    /\ \/ OpenStream \/ OpenFails
       \/ WriteRequest \/ WriteFails
       \/ ReadOutput \/ ReadEnds \/ ReadFails
    /\ ServerUnchanged /\ RunUnchanged

-----------------------------------------------------------------------------
\* handleInferenceStream.  It returns with the deferred stream.Close.

\* The stream reaches the provider with its first byte.
Accept ==
    /\ server = "none" /\ sent > 0 /\ ~reset
    /\ server' = "reading"
    /\ UNCHANGED <<received, replied, contributions>>

ReadRequest ==
    /\ server = "reading" /\ ~reset
    /\ received < sent /\ received < MaxRequest
    /\ received' = received + 1
    /\ UNCHANGED <<server, replied, contributions>>

\* Mutant: the request is read without a limit.
RequestEndedAtEOF == client = "returned" /\ received = sent

\* io.ReadAll has nothing more to read: the limit, or the end of the stream
\* (the consumer closes it only when executeStage returns).
RequestEnded == received = MaxRequest \/ (client = "returned" /\ received = sent)

\* json.Unmarshal accepts the request only if it is whole.
Parsed == received = requestSize

ParseRequest ==
    /\ server = "reading" /\ ~reset
    /\ RequestEnded
    /\ server' = IF Parsed THEN "executing" ELSE "closed"
    /\ UNCHANGED <<received, replied, contributions>>

\* Mutant: the stage is credited by the engine and by the executor.
CreditedTwice(n) == n + 2

Credited(n) == n + 1

\* The engine runs with context.Background(): nothing interrupts it.
ExecuteLayer ==
    /\ server = "executing"
    /\ contributions' = Credited(contributions)
    /\ server' = "writing"
    /\ UNCHANGED <<received, replied>>

\* Mutant: the contribution is added before the engine's error is looked at.
CreditedOnFailureToo(n) == n + 1

CreditedOnFailure(n) == n

\* Mutant: a provider that fails answers as if it had executed the stage.
ReplyOnFailureFull == outputSize

\* A provider that fails writes nothing before it closes the stream.
ReplyOnFailure == 0

ExecuteFails ==
    /\ server = "executing"
    /\ server' = "closed"
    /\ replied' = ReplyOnFailure
    /\ contributions' = CreditedOnFailure(contributions)
    /\ UNCHANGED received

WriteOutput ==
    /\ server = "writing" /\ ~reset
    /\ replied - got < Window
    /\ replied' = replied + 1
    /\ server' = IF replied + 1 = outputSize THEN "closed" ELSE "writing"
    /\ UNCHANGED <<received, contributions>>

StreamFails ==
    /\ server \in {"reading", "writing"} /\ reset
    /\ server' = "closed"
    /\ UNCHANGED <<received, replied, contributions>>

ServerStep ==
    /\ \/ Accept \/ ReadRequest \/ ParseRequest
       \/ ExecuteLayer \/ ExecuteFails
       \/ WriteOutput \/ StreamFails
    /\ ClientUnchanged /\ RunUnchanged

ConnectionLost ==
    /\ ~reset
    /\ reset' = TRUE
    /\ UNCHANGED <<requestSize, outputSize>>
    /\ ClientUnchanged /\ ServerUnchanged

Next == ClientStep \/ ServerStep \/ ConnectionLost

Spec == Init /\ [][Next]_vars

\* Both goroutines run and the network delivers; the connection need not fail.
FairSpec == Spec /\ WF_vars(ClientStep) /\ WF_vars(ServerStep)

-----------------------------------------------------------------------------
\* Type invariant of the stream and of the two functions at its ends.
TypeOK ==
    /\ requestSize \in RequestSizes /\ outputSize \in OutputSizes
    /\ client \in {"opening", "writing", "reading", "returned"}
    /\ server \in {"none", "reading", "executing", "writing", "closed"}
    /\ sent \in 0 .. requestSize /\ received \in 0 .. sent
    /\ replied \in 0 .. outputSize /\ got \in 0 .. replied
    /\ reset \in BOOLEAN
    /\ contributions \in 0 .. 1
    /\ result \in {"pending", "error", "empty", "truncated", "computed"}

\* executeStage implements the abstract call that executePipeline is modelled
\* with: its bytes are a stage output only if the provider executed the stage.
Abstract == INSTANCE StageCall WITH
    executed <- contributions > 0,
    result <- IF result \in {"empty", "truncated"} THEN "corrupt" ELSE result

ImplementsStageCall == Abstract!Spec

\* The provider earns karma exactly for executed stages: an empty answer never
\* hides work that was credited.
EmptyMeansNoWork == result = "empty" => contributions = 0

\* What each end of the stream can do in a state: executeStage goes on, and the
\* handler, or they wait for each other or for the network.
ClientCanMove ==
    \/ client = "opening"
    \/ client = "writing" /\ (reset \/ sent - received < Window)
    \/ client = "reading" /\ (reset \/ server = "closed" \/ got = ReplyLimit \/ got < replied)

ServerCanMove ==
    \/ server = "none" /\ sent > 0 /\ ~reset
    \/ server = "reading" /\ (reset \/ RequestEnded \/ received < sent)
    \/ server = "executing"
    \/ server = "writing" /\ (reset \/ replied - got < Window)

\* The stream is over: executeStage has returned, and the handler has, or it was never
\* started.
Over == client = "returned" /\ server \in {"none", "closed"}

\* Both ends read: all of a request below the limit was sent and read, no end of it is
\* to be seen, and nothing was answered.
BothRead ==
    /\ client = "reading" /\ server = "reading" /\ ~reset
    /\ sent = requestSize /\ received = requestSize /\ requestSize < MaxRequest
    /\ replied = 0

\* The handler returned at its limit, and executeStage still writes a request that does
\* not fit in the window behind it.
RequestNeverRead ==
    /\ client = "writing" /\ server = "closed" /\ ~reset
    /\ received = MaxRequest /\ requestSize > MaxRequest + Window

\* executeStage returned at its limit, and the handler still writes an output that does
\* not fit in the window behind it.
OutputNeverRead ==
    /\ client = "returned" /\ server = "writing" /\ ~reset
    /\ got = MaxResponse /\ outputSize > MaxResponse + Window

\* Nothing but these three sizes of messages makes a goroutine of the stream wait for
\* ever: a request of less than 4 MB, for which both ends read, and a request or an output
\* that the reader's limit and the window do not hold. A full window, a cut request or
\* reply, a handler that fails or a lost connection never does.
OnlyTheseSizesHang ==
    ~ ClientCanMove /\ ~ ServerCanMove =>
        Over \/ BothRead \/ RequestNeverRead \/ OutputNeverRead

\* executeStage returns when its request has exactly the size at which the
\* handler stops reading, whatever the provider does then.
ExactRequestReturns ==
    client = "writing" /\ requestSize = MaxRequest ~> client = "returned"

\* The background context interrupts nothing, but the handler of an output that the
\* consumer's limit and the window hold ends by itself, also when executeStage has stopped
\* reading or is gone while the window is full.
HandlerEnds ==
    server = "executing" /\ outputSize <= MaxResponse + Window ~> server = "closed"

\* README.md:29 "Final encrypted output is returned to you": every stage call
\* comes to an end, also when no connection is lost.
CallReturns == client = "writing" ~> client = "returned"
=============================================================================
