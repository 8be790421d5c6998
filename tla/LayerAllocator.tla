--------------------------- MODULE LayerAllocator ---------------------------
(***************************************************************************)
(* LayerAllocator.AllocateLayers (pipeline/layer_allocator.go): splits the *)
(* layers 0 .. TotalLayers-1 of a model over the selected providers.       *)
(* The loop is a state machine, one step per iteration, so that what it    *)
(* returns can be proved for every provider list and every model depth.    *)
(* A provider is its position in the list that findBestProviders returned; *)
(* of its manifest only the capacity VRAMGB * 4 + RAMGB matters.  It is    *)
(* positive: findBestProviders drops a manifest with neither VRAM nor 8 GB *)
(* of RAM.                                                                 *)
(***************************************************************************)
EXTENDS Stages

CONSTANTS Capacities,       \* the capacities a provider may have
          MaxProviders      \* bound: length of the provider list

ASSUME CapacityAssumption == Capacities \subseteq Nat \ {0}
ASSUME ProvidersAssumption == MaxProviders \in Nat \ {0}

VARIABLES providers,        \* capacity of each selected provider
          summed,           \* providers already added up by the first loop
          totalCapacity,
          stages,           \* alloc.Stages
          currentLayer,
          pc                \* "sum", "assign", "cover", "done"

vars == <<providers, summed, totalCapacity, stages, currentLayer, pc>>

Stage == [provider : Nat \ {0}, start : Nat, end : Nat]

ProviderLists == UNION {[1 .. n -> Capacities] : n \in 0 .. MaxProviders}

\* Mutant: the ratio truncated before it is multiplied.
SharesTruncatedRatio(capacity, total) == {(capacity \div total) * TotalLayers}

\* int(float64(totalLayers) * ratio): the quotient rounded down.  When the
\* division is exact the rounded ratio may be just below it and the result is
\* one less, except for a sole capacity, whose ratio is exactly 1.
Shares(capacity, total) ==
    LET exact == (TotalLayers * capacity) \div total
        atInteger == (TotalLayers * capacity) % total = 0
    IN  {exact} \cup (IF atInteger /\ capacity # total THEN {exact - 1} ELSE {})

\* Mutant: one layer on top of the share.
AtLeastOneMore(share) == share + 1

\* "Minimum 1 layer per provider if they are selected".
AtLeastOne(share) == IF share = 0 THEN 1 ELSE share

\* Mutant: the clamp is missing.
ClampedNever(layer) == layer

\* Stages never run past the last layer.
Clamped(layer) == IF layer > TotalLayers THEN TotalLayers ELSE layer

Init == /\ providers \in ProviderLists
        /\ summed = 0
        /\ totalCapacity = 0
        /\ stages = <<>>
        /\ currentLayer = 0
        /\ pc = "sum"

\* The first loop: one iteration, and its end.
AddCapacity ==
    /\ pc = "sum"
    /\ summed < Len(providers)
    /\ summed' = summed + 1
    /\ totalCapacity' = totalCapacity + providers[summed + 1]
    /\ UNCHANGED <<providers, stages, currentLayer, pc>>

SumEnds ==
    /\ pc = "sum"
    /\ summed = Len(providers)
    /\ pc' = "assign"
    /\ UNCHANGED <<providers, summed, totalCapacity, stages, currentLayer>>

\* One iteration of the second loop: the next provider's stage, then the break when all layers
\* are assigned.
Assign ==
    /\ pc = "assign"
    /\ Len(stages) < Len(providers)
    /\ \E share \in Shares(providers[Len(stages) + 1], totalCapacity) :
         LET endLayer == Clamped(currentLayer + AtLeastOne(share))
         IN  /\ stages' = Append(stages, [provider |-> Len(stages) + 1,
                                          start |-> currentLayer,
                                          end |-> endLayer])
             /\ currentLayer' = endLayer
             /\ pc' = IF endLayer >= TotalLayers THEN "cover" ELSE "assign"
    /\ UNCHANGED <<providers, summed, totalCapacity>>

LoopEnds ==
    /\ pc = "assign"
    /\ Len(stages) = Len(providers)
    /\ pc' = "cover"
    /\ UNCHANGED <<providers, summed, totalCapacity, stages, currentLayer>>

\* Mutant: the remainder of the rounding is lost.
StretchedNever(ss) == ss

\* The last stage is stretched over the layers that rounding down left over.
Stretched(ss) ==
    IF ss # <<>> /\ ss[Len(ss)].end < TotalLayers
    THEN [ss EXCEPT ![Len(ss)].end = TotalLayers]
    ELSE ss

CoverAll ==
    /\ pc = "cover"
    /\ stages' = Stretched(stages)
    /\ pc' = "done"
    /\ UNCHANGED <<providers, summed, totalCapacity, currentLayer>>

Next == AddCapacity \/ SumEnds \/ Assign \/ LoopEnds \/ CoverAll

Spec == Init /\ [][Next]_vars

-----------------------------------------------------------------------------
\* Type invariant of AllocateLayers' locals.
TypeOK ==
    /\ providers \in Seq(Nat \ {0})
    /\ stages \in Seq(Stage)
    /\ currentLayer \in 0 .. TotalLayers
    /\ summed \in 0 .. Len(providers)
    /\ totalCapacity \in Nat
    /\ pc \in {"sum", "assign", "cover", "done"}

\* The allocation that is returned runs every layer of the model exactly once:
\* rounding, the one-layer minimum, the clamp and the final stretch together
\* leave no gap, no overlap and no empty stage.
TilesModel ==
    pc = "done" => /\ Consecutive(stages, TotalLayers)
                   /\ stages = <<>> <=> providers = <<>>

\* Stretching the last stage stays a rounding correction: a provider gets at
\* most one layer per selected provider more than its exact share of the model.
RoundingBounded ==
    pc = "done" =>
        \A i \in 1 .. Len(stages) :
            (stages[i].end - stages[i].start) * totalCapacity
              <= TotalLayers * providers[i] + Len(providers) * totalCapacity

\* A selected provider goes without a stage, against the comment on the one-layer
\* minimum, only where this minimum has given a layer to a provider in front of it
\* whose exact share is less: rounding alone never uses up the layers early.
UnservedOnlyForMinimum ==
    pc = "done" /\ Len(stages) < Len(providers) =>
        \E i \in 1 .. Len(stages) : providers[i] * TotalLayers < totalCapacity
=============================================================================
