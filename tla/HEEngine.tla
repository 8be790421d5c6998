------------------------------ MODULE HEEngine ------------------------------
(***************************************************************************)
(* HEEngine.ExecuteLayer (pipeline/he_engine.go), run by the provider of   *)
(* each stage in turn on an allocation that AllocateLayers has returned    *)
(* (module LayerAllocator): which layers of the model are really executed, *)
(* and what becomes of the text that ReRequestInference encrypts (module   *)
(* Ciphertext).  A stage of an allocation is the half-open range           *)
(* start .. end-1, and the next stage begins at its end; the engine's loop *)
(* is inclusive.                                                           *)
(***************************************************************************)
EXTENDS LayerAllocator, Ciphertext

CONSTANT Texts              \* the input texts, sequences of bytes

ASSUME TextsAssumption == \A t \in Texts : t \in Seq(0 .. 255)

VARIABLES engine,           \* "wait" for a stage, "keys", "loop"
          executing,        \* the stage being executed, from 1
          layer,            \* the loop's l
          ran,              \* the layers executed so far, in order
          text,             \* what the consumer encrypted
          activations,      \* what the next stage is to work on
          evalKeys          \* the keys the engine works with

loopVars == <<executing, layer, ran>>
dataVars == <<text, activations, evalKeys>>
engineVars == <<engine, loopVars, dataVars>>

EngineInit ==
    /\ Init
    /\ engine = "wait"
    /\ executing = 0
    /\ layer = 0
    /\ ran = <<>>
    /\ text = <<>>
    /\ activations = <<>>
    /\ evalKeys = Refused

\* The consumer encrypts its text, once there are stages to run.
Encrypt ==
    /\ pc = "done" /\ stages # <<>>
    /\ executing = 0 /\ activations = <<>>
    /\ \E t \in Texts : text' = t /\ activations' \in EncryptInput(t)
    /\ UNCHANGED <<vars, engine, loopVars, evalKeys>>

\* The orchestrator sends the next stage to its provider.
NextStage ==
    /\ engine = "wait" /\ executing < Len(stages)
    /\ executing > 0 \/ activations # <<>>
    /\ executing' = executing + 1
    /\ engine' = "keys"
    /\ UNCHANGED <<vars, layer, ran, dataVars>>

MaxRequestBytes == 4194304  \* a longer request is cut and does not parse

\* What the engine gets for evaluation keys: the consumer's, as its parameter promises,
\* or their base64 text, which is what the executor passes on, as it does not decode it.
KeysReceived ==
    LET keys == MarshalKeys(GenerateEvaluationKeys)
    IN  {keys} \cup {t \in {EncodeToString(keys)} : Len(t) <= MaxRequestBytes}

\* A stage that fails is answered by the end of the stream, and the orchestrator
\* takes that for its output (run PipelineFailure).
StageFails ==
    /\ engine' = "wait"
    /\ activations' = <<>>
    /\ UNCHANGED <<vars, executing, layer, ran, text, evalKeys>>

\* The evaluation keys are deserialized; the loop starts at StartLayer.
Keys ==
    /\ engine = "keys"
    /\ \E data \in KeysReceived :
         LET keys == UnmarshalKeys(data)
         IN  \/ keys = Refused /\ StageFails
             \/ /\ keys # Refused
                /\ evalKeys' = keys
                /\ layer' = stages[executing].start
                /\ engine' = "loop"
                /\ UNCHANGED <<vars, executing, ran, text, activations>>

\* Mutant: the loop stops before the stage's last layer.
LoopRunsShort(l) == l < stages[executing].end - 1

\* Mutant: the loop counts the layers from 1.
LoopRunsBeyond(l) == l <= stages[executing].end + 1

LoopRuns(l) == l <= stages[executing].end

RunLayer ==
    /\ engine = "loop"
    /\ LoopRuns(layer)
    /\ LET sum == Add(activations, activations)
       IN  \/ sum = Refused /\ StageFails
           \/ /\ sum # Refused
              /\ activations' = sum
              /\ ran' = Append(ran, layer)
              /\ layer' = layer + 1
              /\ UNCHANGED <<vars, engine, executing, text, evalKeys>>

StageDone ==
    /\ engine = "loop"
    /\ ~ LoopRuns(layer)
    /\ engine' = "wait"
    /\ UNCHANGED <<vars, loopVars, dataVars>>

EngineNext ==
    \/ Next /\ UNCHANGED engineVars
    \/ Encrypt \/ NextStage \/ Keys \/ RunLayer \/ StageDone

EngineSpec == EngineInit /\ [][EngineNext]_<<vars, engineVars>>

-----------------------------------------------------------------------------
\* Type invariant of the allocation and of the engine's loop over its stages.
EngineTypeOK ==
    /\ TypeOK
    /\ engine \in {"wait", "keys", "loop"}
    /\ executing \in 0 .. Len(stages)
    /\ layer \in 0 .. TotalLayers + 1
    /\ ran \in Seq(0 .. TotalLayers)
    /\ text \in Texts \cup {<<>>}
    /\ activations \in Seq(Int)

PipelineEnded ==
    pc = "done" /\ stages # <<>> /\ engine = "wait" /\ executing = Len(stages)

\* An answer that is not empty at the end of a pipeline has been through every layer
\* of the model, each one right after the layer before it or once more after itself:
\* stages that meet in a layer repeat it, but none is left out, none runs out of
\* order, and a stage that failed never lets a later one answer.
NoLayerSkipped ==
    /\ \A i \in 1 .. Len(ran) - 1 : ran[i + 1] \in {ran[i], ran[i] + 1}
    /\ PipelineEnded /\ activations # <<>> =>
         \A l \in 0 .. TotalLayers - 1 : \E i \in 1 .. Len(ran) : ran[i] = l

\* A slot holds the byte times a power of two: after more layers than these it may leave
\* the range of int, and what DecryptOutput makes of it depends on the machine.
MaxDoublings == 54

\* The consumer's key gives the text back as long as no layer has run: cut off where
\* the slots end, with zeros behind it, whatever the noise.  After the whole pipeline
\* every byte that was not zero is 255, however often layers were repeated: the
\* outputs of two texts of one length cannot be told apart, and of the zeros only
\* doubled noise is left, which no two executions share.
EveryLetterSaturates ==
    activations # <<>> /\ Len(ran) <= MaxDoublings =>
        \A i \in 1 .. Slots :
            LET byte == IF i <= Len(text) THEN text[i] ELSE 0
                decrypted == DecryptOutput(activations)[i]
            IN  /\ ran = <<>> => decrypted = byte
                /\ PipelineEnded /\ byte # 0 => decrypted = 255

\* Layers are never run on a text that was taken for keys (its first four characters are
\* a length that no request has), and with keys they are run with all of them: the engine
\* can relinearize and rotate by any number of slots in either direction, although keys
\* are generated for one direction only.
KeysArriveWhole ==
    engine = "loop" =>
        /\ evalKeys.relin = GenerateEvaluationKeys.relin
        /\ \A steps \in -Slots .. Slots : HasKeyFor(evalKeys, steps)

\* README.md:27 "Each provider runs different layers (pipeline parallelism)":
\* no layer is run by two stages.
DifferentLayers ==
    \A i, j \in 1 .. Len(ran) : ran[i] = ran[j] => i = j
=============================================================================
