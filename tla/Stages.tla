------------------------------- MODULE Stages -------------------------------
(***************************************************************************)
(* PipelineStage and LayerAllocation (pipeline/layer_allocator.go): how    *)
(* the layers 0 .. TotalLayers-1 of a model are cut into pipeline stages.  *)
(* A stage runs the half-open range of layers start .. end-1.              *)
(***************************************************************************)
EXTENDS Integers, Sequences

CONSTANT TotalLayers        \* modelInfo.TotalLayers of the requested model

ASSUME LayersAssumption == TotalLayers \in Nat \ {0}

\* ss cuts 0 .. upto-1 into consecutive non-empty half-open ranges.
Consecutive(ss, upto) ==
    /\ \A i \in 1 .. Len(ss) : ss[i].start < ss[i].end
    /\ \A i \in 1 .. Len(ss) - 1 : ss[i].end = ss[i + 1].start
    /\ ss # <<>> => ss[1].start = 0 /\ ss[Len(ss)].end = upto
=============================================================================
