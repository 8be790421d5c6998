------------------------ MODULE LayerAllocatorProofs ------------------------
(***************************************************************************)
(* AllocateLayers returns a partition of the model into consecutive        *)
(* non-empty ranges that are no further from the exact shares than its     *)
(* rounding, for every model depth and every list of capacities; and the   *)
(* engine that runs those ranges one after the other leaves out no layer.  *)
(***************************************************************************)
EXTENDS HEEngine, SequenceTheorems, WellFoundedInduction, TLAPS

\* The strengthening: what the second loop has assigned so far is a partition
\* of 0 .. currentLayer-1, and layers are left as long as the loop goes on.
Partial ==
    /\ pc = "sum" => stages = <<>> /\ currentLayer = 0
    /\ pc = "assign" => currentLayer < TotalLayers
    /\ pc # "done" => Consecutive(stages, currentLayer)
    /\ stages = <<>> => currentLayer = 0
    /\ pc = "cover" /\ stages = <<>> => providers = <<>>
    /\ Len(stages) <= Len(providers)

\* The first loop: the divisor is positive as soon as a provider is added.
Summed ==
    /\ pc # "sum" => summed = Len(providers)
    /\ summed > 0 => totalCapacity > 0

IInv == TypeOK /\ Partial /\ Summed /\ TilesModel

-----------------------------------------------------------------------------
\* Whatever the rounding, a provider's share is a number of layers.
LEMMA ShareIsNat ==
  ASSUME NEW capacity \in Nat \ {0}, NEW total \in Nat \ {0},
         NEW share \in Shares(capacity, total)
  PROVE  share \in Nat
<1> DEFINE product == TotalLayers * capacity
           exact == product \div total
<1>1. product \in Nat \ {0}
  BY LayersAssumption
<1> HIDE DEF product
<1>2. exact \in Nat /\ product = exact * total + (product % total)
  BY <1>1
<1>3. CASE share = exact
  BY <1>2, <1>3
<1>4. CASE product % total = 0 /\ share = exact - 1
  <2>1. exact # 0
    BY <1>1, <1>2, <1>4
  <2> QED
    BY <1>2, <1>4, <2>1
<1> QED
  BY <1>3, <1>4 DEF Shares, product

LEMMA ListsAreSequences ==
  ASSUME NEW ps \in ProviderLists
  PROVE  ps \in Seq(Nat \ {0})
<1>1. PICK n \in 0 .. MaxProviders : ps \in [1 .. n -> Capacities]
  BY DEF ProviderLists
<1>2. ps \in [1 .. n -> Nat \ {0}] /\ n \in Nat
  <2>1. \A i \in 1 .. n : ps[i] \in Nat \ {0}
    BY <1>1, CapacityAssumption
  <2> QED
    BY <1>1, <2>1, ProvidersAssumption
<1> QED
  BY <1>2

LEMMA Elements ==
  ASSUME NEW S, NEW s \in Seq(S)
  PROVE  /\ Len(s) \in Nat
         /\ s = <<>> <=> Len(s) = 0
         /\ \A i \in 1 .. Len(s) : s[i] \in S
OBVIOUS

LEMMA InitHolds == Init => IInv
BY ListsAreSequences, LayersAssumption
   DEF Init, IInv, TypeOK, Partial, Summed, TilesModel, Consecutive, Stage

\* An iteration appends a non-empty stage that starts where the last one ends.
LEMMA AssignHolds == IInv /\ Assign => IInv'
<1> SUFFICES ASSUME IInv, Assign
             PROVE  IInv'
  OBVIOUS
<1> USE DEF IInv, TypeOK, Stage
<1> DEFINE n == Len(stages)
<1>1. n \in Nat /\ n + 1 <= Len(providers) /\ providers[n + 1] \in Nat \ {0}
  BY DEF Assign
<1>2. totalCapacity \in Nat \ {0}
  BY <1>1 DEF Assign, Summed
<1>3. PICK share \in Shares(providers[n + 1], totalCapacity) :
        LET endLayer == Clamped(currentLayer + AtLeastOne(share))
        IN  /\ stages' = Append(stages, [provider |-> n + 1,
                                         start |-> currentLayer,
                                         end |-> endLayer])
            /\ currentLayer' = endLayer
            /\ pc' = IF endLayer >= TotalLayers THEN "cover" ELSE "assign"
  BY DEF Assign
<1> DEFINE endLayer == Clamped(currentLayer + AtLeastOne(share))
           stage == [provider |-> n + 1, start |-> currentLayer, end |-> endLayer]
<1>4. share \in Nat
  BY <1>1, <1>2, <1>3, ShareIsNat
<1>5. currentLayer < TotalLayers
  BY DEF Assign, Partial
<1>6. endLayer \in Nat /\ currentLayer < endLayer /\ endLayer <= TotalLayers
  BY <1>4, <1>5, LayersAssumption DEF Clamped, AtLeastOne
<1>7. stages' = Append(stages, stage) /\ stage \in Stage /\ stage.start = currentLayer
      /\ stage.end = endLayer
  BY <1>1, <1>3, <1>6
<1> HIDE DEF stage, endLayer
<1>8. currentLayer' = endLayer /\ pc' = IF endLayer >= TotalLayers THEN "cover" ELSE "assign"
  BY <1>3 DEF endLayer
<1>9. UNCHANGED <<providers, summed, totalCapacity>> /\ pc = "assign"
  BY DEF Assign
<1>10. stages' \in Seq(Stage) /\ Len(stages') = n + 1 /\ stages'[n + 1] = stage
       /\ \A i \in 1 .. n : stages'[i] = stages[i]
  BY <1>1, <1>7
<1>11. TypeOK'
  BY <1>6, <1>8, <1>9, <1>10
<1>12. Consecutive(stages', currentLayer')
  <2>1. Consecutive(stages, currentLayer) /\ (stages = <<>> => currentLayer = 0)
    BY <1>9 DEF Partial
  <2>2. \A i \in 1 .. Len(stages') : stages'[i].start < stages'[i].end
    <3> SUFFICES ASSUME NEW i \in 1 .. n + 1
                 PROVE  stages'[i].start < stages'[i].end
      BY <1>10
    <3>1. CASE i = n + 1
      BY <1>6, <1>7, <1>10, <3>1
    <3>2. CASE i \in 1 .. n
      BY <1>10, <2>1, <3>2 DEF Consecutive
    <3> QED
      BY <1>1, <3>1, <3>2
  <2>3. \A i \in 1 .. Len(stages') - 1 : stages'[i].end = stages'[i + 1].start
    <3> SUFFICES ASSUME NEW i \in 1 .. n
                 PROVE  stages'[i].end = stages'[i + 1].start
      BY <1>1, <1>10
    <3>1. CASE i = n
      <4>1. stages # <<>>
        BY <3>1, Elements
      <4> QED
        BY <1>7, <1>10, <2>1, <3>1, <4>1 DEF Consecutive
    <3>2. CASE i \in 1 .. n - 1
      <4>1. i \in 1 .. Len(stages) - 1 /\ i \in 1 .. n /\ i + 1 \in 1 .. n
        BY <1>1, <3>2
      <4>2. stages[i].end = stages[i + 1].start
        BY <2>1, <4>1 DEF Consecutive
      <4> QED
        BY <1>10, <4>1, <4>2
    <3> QED
      BY <1>1, <3>1, <3>2
  <2>4. stages'[1].start = 0
    BY <1>1, <1>7, <1>10, <2>1 DEF Consecutive
  <2>5. stages'[Len(stages')].end = currentLayer'
    BY <1>7, <1>8, <1>10
  <2> QED
    BY <2>2, <2>3, <2>4, <2>5 DEF Consecutive
<1>13. Partial' /\ Summed' /\ TilesModel'
  <2>1. stages' # <<>>
    BY <1>1, <1>10
  <2> QED
    BY <1>1, <1>6, <1>8, <1>9, <1>10, <1>12, <2>1, LayersAssumption
       DEF Partial, Summed, TilesModel
<1> QED
  BY <1>11, <1>13

\* The final stretch closes the gap to the last layer.
LEMMA CoverAllHolds == IInv /\ CoverAll => IInv'
<1> SUFFICES ASSUME IInv, CoverAll
             PROVE  IInv'
  OBVIOUS
<1>0. /\ stages \in Seq(Stage)
      /\ Len(stages) \in Nat
      /\ stages = <<>> <=> Len(stages) = 0
      /\ \A i \in 1 .. Len(stages) : stages[i] \in Stage
  <2>1. stages \in Seq(Stage)
    BY DEF IInv, TypeOK
  <2> QED
    BY <2>1, Elements
<1> USE DEF IInv, TypeOK
<1>1. Consecutive(stages, currentLayer) /\ pc' = "done" /\ stages' = Stretched(stages)
      /\ UNCHANGED <<providers, summed, totalCapacity, currentLayer>>
  BY DEF CoverAll, Partial
<1>2. stages' \in Seq(Stage) /\ Len(stages') = Len(stages)
  <2>1. CASE stages # <<>> /\ stages[Len(stages)].end < TotalLayers
    <3>1. Len(stages) \in 1 .. Len(stages) /\ stages[Len(stages)] \in Stage
      BY <1>0, <2>1
    <3>2. [stages[Len(stages)] EXCEPT !.end = TotalLayers] \in Stage
      BY <3>1, LayersAssumption DEF Stage
    <3> QED
      BY <1>1, <2>1, <3>1, <3>2 DEF Stretched
  <2>2. CASE ~ (stages # <<>> /\ stages[Len(stages)].end < TotalLayers)
    BY <1>1, <2>2 DEF Stretched
  <2> QED
    BY <2>1, <2>2
<1>3. ASSUME NEW i \in 1 .. Len(stages)
      PROVE  /\ stages'[i].start = stages[i].start
             /\ stages'[i].end = IF i = Len(stages) THEN TotalLayers ELSE stages[i].end
  <2>0. stages # <<>> /\ stages[i] \in Stage
    BY <1>0
  <2>1. CASE stages[Len(stages)].end < TotalLayers
    BY <1>0, <1>1, <2>0, <2>1 DEF Stretched, Stage
  <2>2. CASE ~ (stages[Len(stages)].end < TotalLayers)
    <3>1. stages[Len(stages)].end = TotalLayers
      BY <1>0, <1>1, <2>0, <2>2, LayersAssumption DEF Consecutive, Stage
    <3> QED
      BY <1>1, <2>0, <2>2, <3>1 DEF Stretched
  <2> QED
    BY <2>1, <2>2
<1>4. Consecutive(stages', TotalLayers)
  <2>1. stages = <<>> <=> stages' = <<>>
    BY <1>2
  <2>2. ASSUME NEW i \in 1 .. Len(stages)
        PROVE  stages'[i].start < stages'[i].end
    <3>1. stages[i].start < stages[i].end
      BY <1>1 DEF Consecutive
    <3>2. CASE i = Len(stages)
      <4>1. stages # <<>> /\ stages[i] \in Stage
        BY <1>0
      <4>2. stages[i].end <= TotalLayers
        BY <1>1, <3>2, <4>1 DEF Consecutive
      <4> QED
        BY <1>3, <3>1, <3>2, <4>1, <4>2, LayersAssumption DEF Stage
    <3> QED
      BY <1>3, <3>1, <3>2
  <2>3. ASSUME NEW i \in 1 .. Len(stages) - 1
        PROVE  stages'[i].end = stages'[i + 1].start
    <3>1. i \in 1 .. Len(stages) /\ i + 1 \in 1 .. Len(stages) /\ i # Len(stages)
      BY <1>0
    <3>2. stages[i].end = stages[i + 1].start
      BY <1>1 DEF Consecutive
    <3> QED
      BY <1>3, <3>1, <3>2
  <2>4. stages # <<>> => stages'[1].start = 0 /\ stages'[Len(stages)].end = TotalLayers
    <3>1. stages # <<>> => 1 \in 1 .. Len(stages) /\ Len(stages) \in 1 .. Len(stages)
      BY <1>0
    <3> QED
      BY <1>1, <1>3, <3>1 DEF Consecutive
  <2> QED
    BY <1>2, <2>1, <2>2, <2>3, <2>4 DEF Consecutive
<1>5. stages' = <<>> <=> providers' = <<>>
  BY <1>1, <1>2 DEF CoverAll, Partial
<1> QED
  BY <1>1, <1>2, <1>4, <1>5 DEF Partial, Summed, TilesModel, CoverAll

LEMMA StepHolds == IInv /\ [Next]_vars => IInv'
<1> SUFFICES ASSUME IInv, [Next]_vars
             PROVE  IInv'
  OBVIOUS
<1>1. CASE AddCapacity
  BY <1>1 DEF IInv, TypeOK, Partial, Summed, TilesModel, Consecutive, AddCapacity
<1>2. CASE SumEnds
  BY <1>2, LayersAssumption
     DEF IInv, TypeOK, Partial, Summed, TilesModel, Consecutive, SumEnds
<1>3. CASE Assign
  BY <1>3, AssignHolds
<1>4. CASE LoopEnds
  BY <1>4 DEF IInv, TypeOK, Partial, Summed, TilesModel, Consecutive, LoopEnds
<1>5. CASE CoverAll
  BY <1>5, CoverAllHolds
<1>6. CASE UNCHANGED vars
  BY <1>6 DEF IInv, TypeOK, Partial, Summed, TilesModel, Consecutive, vars
<1> QED
  BY <1>1, <1>2, <1>3, <1>4, <1>5, <1>6 DEF Next

\* AllocateLayers' locals keep their types for every model and provider list.
THEOREM AllocatorTypes == Spec => []TypeOK
<1>1. IInv => TypeOK
  BY DEF IInv
<1> QED
  BY InitHolds, StepHolds, <1>1, PTL DEF Spec

\* AllocateLayers' result is a partition of the model into consecutive,
\* non-empty layer ranges, whatever the capacities and the rounding.
THEOREM AllocationTilesModel == Spec => []TilesModel
<1>1. IInv => TilesModel
  BY DEF IInv
<1> QED
  BY InitHolds, StepHolds, <1>1, PTL DEF Spec
-----------------------------------------------------------------------------
\* How far a stage may be from the exact share of its provider.  The running totals
\* of the capacities are built up by the first loop, so that none has to be defined
\* by recursion.
Running(pre) ==
    /\ pre[0] = 0 /\ pre[summed] = totalCapacity
    /\ \A i \in 1 .. summed : pre[i] = pre[i - 1] + providers[i]
    /\ \A i, j \in 0 .. summed : i < j => pre[i] < pre[j]

Width(i) == stages[i].end - stages[i].start

\* What rounding down has left over so far is a layer per stage at most, and what the
\* minimum adds to the last stage it has not left over too; without the minimum, the
\* stages have not more than their share.
Rounded(pre) ==
    LET n == Len(stages)
    IN  /\ n > 0 => pc # "sum"
        /\ pc # "done" => \A i \in 1 .. n : Width(i) * totalCapacity
                                              <= TotalLayers * providers[i] + totalCapacity
        /\ pc # "sum" /\ currentLayer < TotalLayers =>
             TotalLayers * pre[n] <= currentLayer * totalCapacity + n * totalCapacity
        /\ pc \in {"assign", "cover"} /\ currentLayer < TotalLayers /\ n > 0 =>
             TotalLayers * pre[n] + Width(n) * totalCapacity
               <= TotalLayers * providers[n] + currentLayer * totalCapacity + n * totalCapacity
        /\ pc # "sum" /\ (\A i \in 1 .. n : totalCapacity <= providers[i] * TotalLayers) =>
             currentLayer * totalCapacity <= TotalLayers * pre[n]
        /\ pc \in {"cover", "done"} /\ n < Len(providers) => currentLayer = TotalLayers

RInv == /\ IInv
        /\ \E pre \in [0 .. summed -> Nat] : Running(pre) /\ Rounded(pre)
        /\ RoundingBounded /\ UnservedOnlyForMinimum

LEMMA Distributes ==
  \A a, b, c \in Int : a * (b + c) = a * b + a * c /\ (b + c) * a = b * a + c * a
OBVIOUS

LEMMA Commutes == \A a, b \in Int : a * b = b * a /\ a * b \in Int
OBVIOUS

LEMMA Products == \A a, b \in Nat : a * b \in Nat
OBVIOUS

LEMMA Monotone == \A a, b, c \in Nat : a <= b => a * c <= b * c
<1> SUFFICES ASSUME NEW a \in Nat, NEW b \in Nat, NEW c \in Nat, a <= b
             PROVE  a * c <= b * c
  OBVIOUS
<1>1. PICK d \in Nat : b = a + d
  <2>1. b - a \in Nat /\ b = a + (b - a)
    OBVIOUS
  <2> QED
    BY <2>1
<1>2. \A x, y \in Nat : x * y \in Nat
  OBVIOUS
<1>3. b * c = a * c + d * c
  BY <1>1, Distributes
<1>4. a * c \in Nat /\ d * c \in Nat
  BY <1>2
<1> QED
  BY <1>3, <1>4

\* A share is not more than the exact one and less by a layer at most.
LEMMA ShareBounds ==
  ASSUME NEW capacity \in Nat \ {0}, NEW total \in Nat \ {0},
         NEW share \in Shares(capacity, total)
  PROVE  /\ share * total <= TotalLayers * capacity
         /\ TotalLayers * capacity <= share * total + total
<1> DEFINE product == TotalLayers * capacity
<1>1. product \in Nat
  BY LayersAssumption
<1> HIDE DEF product
<1>2. PICK q \in Nat, r \in 0 .. total - 1 :
         q = product \div total /\ r = product % total /\ product = q * total + r
  <2>1. /\ product \div total \in Nat /\ product % total \in 0 .. total - 1
        /\ product = (product \div total) * total + (product % total)
    BY <1>1
  <2> QED
    BY <2>1
<1> DEFINE part == q * total
<1>3. part \in Nat /\ product = part + r /\ total \in Nat \ {0} /\ r \in 0 .. total - 1
  BY <1>2
<1>4. \/ share = q
      \/ r = 0 /\ share = q - 1
  BY <1>2 DEF Shares, product
<1>5. CASE share = q
  <2>1. share * total = part
    BY <1>5
  <2> HIDE DEF part
  <2>2. part <= product /\ product <= part + total
    BY <1>3
  <2> QED
    BY <2>1, <2>2 DEF product
<1>6. CASE r = 0 /\ share = q - 1
  <2>1. share * total = part - total
    BY <1>2, <1>6, Distributes
  <2> HIDE DEF part
  <2>2. part - total <= product /\ product <= (part - total) + total
    BY <1>3, <1>6
  <2> QED
    BY <2>1, <2>2 DEF product
<1> QED
  BY <1>4, <1>5, <1>6

\* The arithmetic of one iteration, for the unclamped width of its stage.
LEMMA StageArithmetic ==
  ASSUME NEW p \in Nat \ {0}, NEW total \in Nat \ {0}, NEW share \in Nat,
         share * total <= TotalLayers * p, TotalLayers * p <= share * total + total,
         NEW start \in Nat, NEW n \in Nat, NEW before \in Nat
  PROVE  LET w == AtLeastOne(share)
         IN  /\ w * total <= TotalLayers * p + total
             /\ total <= p * TotalLayers => w * total <= TotalLayers * p
             /\ TotalLayers * before <= start * total + n * total =>
                  /\ TotalLayers * (before + p) <= (start + w) * total + (n + 1) * total
                  /\ TotalLayers * (before + p) + w * total
                       <= TotalLayers * p + (start + w) * total + (n + 1) * total
<1> DEFINE w == AtLeastOne(share)
           Tp == TotalLayers * p
           Tb == TotalLayers * before
           lt == start * total
           nt == n * total
           st == share * total
           wt == w * total
<1>1. /\ Tp \in Nat /\ Tb \in Nat /\ lt \in Nat /\ nt \in Nat /\ st \in Nat
      /\ st <= Tp /\ Tp <= st + total
  BY LayersAssumption
<1>2. w \in Nat /\ (share = 0 => w = 1) /\ (share # 0 => w = share)
  BY DEF AtLeastOne
<1> HIDE DEF w
<1>3. wt \in Nat /\ (share = 0 => wt = total /\ st = 0) /\ (share # 0 => wt = st)
  BY <1>2
<1>4. /\ TotalLayers * (before + p) = Tb + Tp
      /\ (start + w) * total = lt + wt
      /\ (n + 1) * total = nt + total
      /\ p * TotalLayers = Tp
  BY <1>2, Distributes, Commutes, LayersAssumption
<1> HIDE DEF Tp, Tb, lt, nt, st, wt
<1>5. /\ wt <= Tp + total
      /\ total <= Tp => wt <= Tp
      /\ Tb <= lt + nt =>
           /\ Tb + Tp <= (lt + wt) + (nt + total)
           /\ (Tb + Tp) + wt <= (Tp + (lt + wt)) + (nt + total)
  BY <1>1, <1>3
<1> QED
  BY <1>4, <1>5 DEF w, Tp, Tb, lt, nt, st, wt

LEMMA RoundingStarts == Init => RInv
<1> SUFFICES ASSUME Init PROVE RInv
  OBVIOUS
<1> DEFINE none == [i \in 0 .. 0 |-> 0]
<1>1. summed = 0 /\ totalCapacity = 0 /\ stages = <<>> /\ Len(stages) = 0 /\ pc = "sum"
  BY DEF Init
<1>2. none \in [0 .. summed -> Nat] /\ none[0] = 0
  BY <1>1
<1>3. Running(none) /\ Rounded(none)
  BY <1>1, <1>2 DEF Running, Rounded
<1> QED
  BY <1>1, <1>2, <1>3, InitHolds DEF RInv, RoundingBounded, UnservedOnlyForMinimum

\* The first loop adds a capacity, which is positive, to the running totals.
LEMMA AddCapacityRounds ==
  ASSUME IInv, AddCapacity, NEW pre \in [0 .. summed -> Nat], Running(pre)
  PROVE  \E next \in [0 .. summed' -> Nat] : Running(next)' /\ Rounded(next)'
<1>1. /\ summed \in Nat /\ summed' = summed + 1 /\ summed + 1 \in 1 .. Len(providers)
      /\ providers[summed + 1] \in Nat \ {0}
      /\ totalCapacity' = totalCapacity + providers[summed + 1]
      /\ pc' = "sum" /\ providers' = providers /\ stages' = <<>> /\ Len(stages') = 0
  BY DEF AddCapacity, IInv, TypeOK, Partial
<1>2. PICK next \in [0 .. summed + 1 -> Nat] :
        /\ next[summed + 1] = pre[summed] + providers[summed + 1]
        /\ \A i \in 0 .. summed : next[i] = pre[i]
  <2> DEFINE f == [i \in 0 .. summed + 1 |->
                     IF i <= summed THEN pre[i] ELSE pre[summed] + providers[summed + 1]]
  <2>1. /\ f \in [0 .. summed + 1 -> Nat]
        /\ f[summed + 1] = pre[summed] + providers[summed + 1]
        /\ \A i \in 0 .. summed : f[i] = pre[i]
    BY <1>1
  <2> HIDE DEF f
  <2> QED
    BY <2>1
<1>3. /\ next[0] = 0 /\ next[summed + 1] = totalCapacity'
  BY <1>1, <1>2 DEF Running
<1>4. ASSUME NEW i \in 1 .. summed + 1 PROVE next[i] = next[i - 1] + providers[i]
  <2>1. CASE i = summed + 1
    BY <1>1, <1>2, <2>1
  <2>2. CASE i \in 1 .. summed
    BY <1>1, <1>2, <2>2 DEF Running
  <2> QED
    BY <1>1, <2>1, <2>2
<1>5. ASSUME NEW i \in 0 .. summed + 1, NEW j \in 0 .. summed + 1, i < j
      PROVE  next[i] < next[j]
  <2>1. CASE j \in 0 .. summed
    <3>1. i \in 0 .. summed
      BY <1>1, <1>5, <2>1
    <3>2. pre[i] < pre[j]
      BY <1>5, <2>1, <3>1 DEF Running
    <3> QED
      BY <1>2, <2>1, <3>1, <3>2
  <2>2. CASE j = summed + 1
    <3>1. i \in 0 .. summed /\ (i = summed \/ i < summed)
      BY <1>1, <1>5, <2>2
    <3>2. pre[i] <= pre[summed]
      BY <1>1, <3>1 DEF Running
    <3> QED
      BY <1>1, <1>2, <2>2, <3>1, <3>2
  <2> QED
    BY <1>1, <2>1, <2>2
<1>6. Running(next)'
  BY <1>1, <1>3, <1>4, <1>5 DEF Running
<1>7. Rounded(next)'
  BY <1>1 DEF Rounded
<1> QED
  BY <1>1, <1>2, <1>6, <1>7

\* The second loop starts at the first layer.
LEMMA SumEndsRounds ==
  ASSUME IInv, SumEnds, NEW pre \in [0 .. summed -> Nat], Running(pre)
  PROVE  Running(pre)' /\ Rounded(pre)'
<1>1. /\ stages' = <<>> /\ Len(stages') = 0 /\ currentLayer' = 0 /\ pc' = "assign"
      /\ UNCHANGED <<providers, summed, totalCapacity>> /\ totalCapacity \in Nat
  BY DEF SumEnds, IInv, TypeOK, Partial
<1>2. Running(pre)'
  BY <1>1 DEF Running
<1>3. pre[0] = 0 /\ TotalLayers * 0 = 0 /\ 0 * totalCapacity = 0
  BY <1>1, LayersAssumption DEF Running
<1>4. Rounded(pre)'
  BY <1>1, <1>3 DEF Rounded
<1> QED
  BY <1>2, <1>4

LEMMA AssignRounds ==
  ASSUME IInv, Assign, NEW pre \in [0 .. summed -> Nat], Running(pre), Rounded(pre)
  PROVE  Running(pre)' /\ Rounded(pre)'
<1> DEFINE n == Len(stages)
           p == providers[n + 1]
<1>1. /\ n \in Nat /\ n + 1 \in 1 .. Len(providers) /\ p \in Nat \ {0} /\ pc = "assign"
      /\ summed = Len(providers) /\ totalCapacity \in Nat \ {0}
      /\ currentLayer \in Nat /\ currentLayer < TotalLayers
      /\ \A i \in 1 .. n : stages[i] \in Stage
  BY DEF Assign, IInv, TypeOK, Partial, Summed
<1>2. PICK share \in Shares(p, totalCapacity) :
        LET endLayer == Clamped(currentLayer + AtLeastOne(share))
        IN  /\ stages' = Append(stages, [provider |-> n + 1,
                                         start |-> currentLayer,
                                         end |-> endLayer])
            /\ currentLayer' = endLayer
            /\ pc' = IF endLayer >= TotalLayers THEN "cover" ELSE "assign"
  BY DEF Assign
<1> DEFINE w == AtLeastOne(share)
           endLayer == Clamped(currentLayer + w)
           v == endLayer - currentLayer
<1>3. share \in Nat /\ w \in Nat \ {0}
  BY <1>1, ShareIsNat DEF AtLeastOne
<1>4. /\ endLayer \in Nat /\ v \in Nat /\ v <= w /\ endLayer <= TotalLayers
      /\ endLayer < TotalLayers => v = w /\ endLayer = currentLayer + w
  BY <1>1, <1>3, LayersAssumption DEF Clamped
<1>5. /\ stages' = Append(stages, [provider |-> n + 1, start |-> currentLayer, end |-> endLayer])
      /\ currentLayer' = endLayer
      /\ pc' \in {"cover", "assign"} /\ (pc' = "cover" => endLayer = TotalLayers)
  BY <1>2, <1>4, LayersAssumption
<1>6. UNCHANGED <<providers, summed, totalCapacity>>
  BY DEF Assign
<1>7. stages \in Seq(Stage)
  BY DEF IInv, TypeOK
<1>8. /\ Len(stages') = n + 1
      /\ \A i \in 1 .. n + 1 : Width(i)' = IF i = n + 1 THEN v ELSE Width(i)
  BY <1>1, <1>5, <1>7 DEF Width
<1>9. pre[n] \in Nat /\ pre[n + 1] = pre[n] + p
  BY <1>1 DEF Running
<1>10. /\ share * totalCapacity <= TotalLayers * p
       /\ TotalLayers * p <= share * totalCapacity + totalCapacity
  BY <1>1, ShareBounds
<1>11. /\ w * totalCapacity <= TotalLayers * p + totalCapacity
       /\ totalCapacity <= p * TotalLayers => w * totalCapacity <= TotalLayers * p
       /\ TotalLayers * pre[n] <= currentLayer * totalCapacity + n * totalCapacity =>
            /\ TotalLayers * (pre[n] + p)
                 <= (currentLayer + w) * totalCapacity + (n + 1) * totalCapacity
            /\ TotalLayers * (pre[n] + p) + w * totalCapacity
                 <= TotalLayers * p + (currentLayer + w) * totalCapacity + (n + 1) * totalCapacity
  BY <1>1, <1>3, <1>9, <1>10, StageArithmetic
<1>12. v * totalCapacity <= w * totalCapacity
  BY <1>1, <1>3, <1>4, Monotone
<1>13. /\ v * totalCapacity \in Nat /\ w * totalCapacity \in Nat /\ TotalLayers * p \in Nat
       /\ currentLayer * totalCapacity \in Nat /\ TotalLayers * pre[n] \in Nat
  <2>1. v \in Nat /\ w \in Nat /\ p \in Nat /\ totalCapacity \in Nat /\ TotalLayers \in Nat
    BY <1>1, <1>3, <1>4, LayersAssumption
  <2> HIDE DEF v, w, p
  <2> QED
    BY <1>1, <1>9, <2>1, Products
<1>14. TotalLayers * pre[n] <= currentLayer * totalCapacity + n * totalCapacity
  BY <1>1 DEF Rounded
<1> HIDE DEF w, endLayer, v
<1>15. ASSUME NEW i \in 1 .. n + 1
       PROVE  Width(i)' * totalCapacity <= TotalLayers * providers[i] + totalCapacity
  <2>1. CASE i = n + 1
    BY <1>1, <1>8, <1>11, <1>12, <1>13, <2>1
  <2>2. CASE i \in 1 .. n
    BY <1>1, <1>8, <2>2 DEF Rounded
  <2> QED
    BY <1>1, <2>1, <2>2
<1>16. endLayer < TotalLayers =>
         /\ TotalLayers * pre[n + 1] <= endLayer * totalCapacity + (n + 1) * totalCapacity
         /\ TotalLayers * pre[n + 1] + v * totalCapacity
              <= TotalLayers * p + endLayer * totalCapacity + (n + 1) * totalCapacity
  BY <1>4, <1>9, <1>11, <1>14
<1>17. ASSUME \A i \in 1 .. n + 1 : totalCapacity <= providers[i] * TotalLayers
       PROVE  endLayer * totalCapacity <= TotalLayers * pre[n + 1]
  <2>1. currentLayer * totalCapacity <= TotalLayers * pre[n]
    BY <1>1, <1>17 DEF Rounded
  <2>2. v * totalCapacity <= TotalLayers * p
    BY <1>1, <1>11, <1>12, <1>13, <1>17
  <2>3. endLayer = currentLayer + v
    BY <1>1, <1>4 DEF v
  <2>4. endLayer * totalCapacity = currentLayer * totalCapacity + v * totalCapacity
    BY <1>1, <1>4, <2>3, Distributes
  <2>5. TotalLayers * pre[n + 1] = TotalLayers * pre[n] + TotalLayers * p
    BY <1>1, <1>9, Distributes, LayersAssumption
  <2> QED
    BY <1>13, <2>1, <2>2, <2>4, <2>5
<1>18. Running(pre)'
  BY <1>6 DEF Running
<1>19. Rounded(pre)'
  <2>1. pc' = "cover" => currentLayer' = TotalLayers
    BY <1>5
  <2>2. \A i \in 1 .. Len(stages') :
          Width(i)' * totalCapacity' <= TotalLayers * providers'[i] + totalCapacity'
    BY <1>6, <1>8, <1>15
  <2>3. currentLayer' < TotalLayers =>
          /\ TotalLayers * pre[Len(stages')]
               <= currentLayer' * totalCapacity' + Len(stages') * totalCapacity'
          /\ TotalLayers * pre[Len(stages')] + v * totalCapacity'
               <= TotalLayers * providers'[Len(stages')] + currentLayer' * totalCapacity'
                    + Len(stages') * totalCapacity'
    BY <1>5, <1>6, <1>8, <1>16
  <2>4. \A i \in 1 .. Len(stages') : i = Len(stages') => Width(i)' = v
    BY <1>8
  <2>5. (\A i \in 1 .. Len(stages') : totalCapacity' <= providers'[i] * TotalLayers) =>
          currentLayer' * totalCapacity' <= TotalLayers * pre[Len(stages')]
    BY <1>5, <1>6, <1>8, <1>17
  <2>6. Len(stages') \in 1 .. Len(stages') /\ pc' \in {"cover", "assign"}
    BY <1>1, <1>5, <1>8
  <2> HIDE DEF v
  <2> QED
    BY <2>1, <2>2, <2>3, <2>4, <2>5, <2>6 DEF Rounded
<1> QED
  BY <1>18, <1>19

LEMMA LoopEndsRounds ==
  ASSUME IInv, LoopEnds, NEW pre \in [0 .. summed -> Nat], Running(pre), Rounded(pre)
  PROVE  Running(pre)' /\ Rounded(pre)'
<1>1. /\ UNCHANGED <<providers, summed, totalCapacity, stages, currentLayer>>
      /\ pc = "assign" /\ pc' = "cover" /\ Len(stages) = Len(providers)
      /\ Len(providers) \in Nat
  BY DEF LoopEnds, IInv, TypeOK
<1> QED
  BY <1>1 DEF Running, Rounded, Width

\* What the last stage gets when it is stretched.
LEMMA StretchedWidth ==
  ASSUME IInv, CoverAll, NEW i \in 1 .. Len(stages)
  PROVE  /\ Width(i) \in Nat
         /\ i < Len(stages) => Width(i)' = Width(i)
         /\ i = Len(stages) => Width(i)' = Width(i) + (TotalLayers - currentLayer)
<1>1. /\ stages \in Seq(Stage) /\ Len(stages) \in Nat /\ stages # <<>> /\ stages[i] \in Stage
      /\ currentLayer \in 0 .. TotalLayers /\ Len(stages) \in 1 .. Len(stages)
      /\ stages[Len(stages)] \in Stage
  BY Elements DEF IInv, TypeOK
<1>2. /\ Consecutive(stages, currentLayer) /\ stages' = Stretched(stages)
  BY DEF CoverAll, IInv, Partial
<1>3. stages[i].start < stages[i].end /\ stages[Len(stages)].end = currentLayer
  BY <1>1, <1>2 DEF Consecutive
<1>4. Width(i) \in Nat
  BY <1>1, <1>3 DEF Width, Stage
<1>5. CASE currentLayer < TotalLayers
  <2>1. stages' = [stages EXCEPT ![Len(stages)].end = TotalLayers]
    BY <1>1, <1>2, <1>3, <1>5 DEF Stretched
  <2>2. /\ stages'[i].start = stages[i].start
        /\ stages'[i].end = IF i = Len(stages) THEN TotalLayers ELSE stages[i].end
    BY <1>1, <2>1 DEF Stage
  <2>3. stages[i].start \in Nat /\ stages[i].end \in Nat
    BY <1>1 DEF Stage
  <2> QED
    BY <1>1, <1>3, <1>4, <2>2, <2>3, LayersAssumption DEF Width
<1>6. CASE currentLayer = TotalLayers
  <2>1. stages' = stages
    BY <1>1, <1>2, <1>3, <1>6, LayersAssumption DEF Stretched
  <2> QED
    BY <1>4, <1>6, <2>1, LayersAssumption DEF Width
<1> QED
  BY <1>1, <1>5, <1>6, LayersAssumption

\* What rounding down has left over is a layer per provider at most.
LEMMA CoverAllRounds ==
  ASSUME IInv, CoverAll, NEW pre \in [0 .. summed -> Nat], Running(pre), Rounded(pre)
  PROVE  Running(pre)' /\ Rounded(pre)' /\ RoundingBounded' /\ UnservedOnlyForMinimum'
<1> DEFINE n == Len(stages)
           total == totalCapacity
<1>1. /\ n \in Nat /\ n <= Len(providers) /\ Len(providers) \in Nat /\ total \in Nat
      /\ summed = Len(providers) /\ currentLayer \in 0 .. TotalLayers
      /\ pc = "cover" /\ \A i \in 1 .. n : providers[i] \in Nat \ {0}
  <2>1. /\ providers \in Seq(Nat \ {0}) /\ stages \in Seq(Stage) /\ n <= Len(providers)
        /\ totalCapacity \in Nat /\ currentLayer \in 0 .. TotalLayers
        /\ pc = "cover" /\ summed = Len(providers)
    BY DEF CoverAll, IInv, TypeOK, Partial, Summed
  <2>2. /\ n \in Nat /\ Len(providers) \in Nat
        /\ \A i \in 1 .. Len(providers) : providers[i] \in Nat \ {0}
    BY <2>1, Elements
  <2> QED
    BY <2>1, <2>2
<1>2. /\ UNCHANGED <<providers, summed, totalCapacity, currentLayer>>
      /\ pc' = "done" /\ stages' = Stretched(stages)
  BY DEF CoverAll
<1>3. Len(stages') = Len(stages)
  <2>1. stages \in Seq(Stage)
    BY DEF IInv, TypeOK
  <2> QED
    BY <1>2, <2>1 DEF Stretched
<1>4. Running(pre)'
  BY <1>2 DEF Running
<1>5. Rounded(pre)'
  BY <1>1, <1>2, <1>3 DEF Rounded
<1>6. ASSUME NEW i \in 1 .. n
      PROVE  Width(i)' * total <= TotalLayers * providers[i] + Len(providers) * total
  <2> DEFINE W == Width(i)
             Tp == TotalLayers * providers[i]
  <2>1. /\ W \in Nat
        /\ i < n => Width(i)' = W
        /\ i = n => Width(i)' = W + (TotalLayers - currentLayer)
    BY StretchedWidth
  <2>2. W \in Nat
    BY <2>1
  <2>3. W * total <= Tp + total
    BY <1>1 DEF Rounded
  <2>4. /\ W * total \in Nat /\ Tp \in Nat /\ TotalLayers * total \in Nat
        /\ currentLayer * total \in Nat /\ Len(providers) * total \in Nat
    <3>1. W \in Nat /\ total \in Nat /\ TotalLayers \in Nat /\ currentLayer \in Nat
          /\ Len(providers) \in Nat /\ providers[i] \in Nat
      BY <1>1, <2>2, LayersAssumption
    <3> HIDE DEF W, total
    <3> QED
      BY <3>1, Products
  <2>5. total <= Len(providers) * total
    <3>1. 1 <= Len(providers) /\ 1 * total = total
      BY <1>1
    <3> QED
      BY <1>1, <3>1, Monotone
  <2>6. CASE i < n \/ currentLayer = TotalLayers
    <3>1. Width(i)' = W
      BY <1>1, <2>1, <2>2, <2>6, LayersAssumption
    <3> HIDE DEF W, Tp
    <3> QED
      BY <1>1, <2>3, <2>4, <2>5, <3>1 DEF Tp
  <2>7. CASE i = n /\ currentLayer < TotalLayers
    <3>1. n = Len(providers) /\ pre[n] = total
      BY <1>1, <2>7 DEF Rounded, Running
    <3>2. TotalLayers * total + W * total <= Tp + currentLayer * total + n * total
      BY <1>1, <2>7, <3>1 DEF Rounded
    <3>3. Width(i)' * total = W * total + (TotalLayers * total - currentLayer * total)
      <4>1. Width(i)' = W + (TotalLayers - currentLayer)
        BY <2>1, <2>7
      <4>2. TotalLayers \in Int /\ currentLayer \in Int /\ total \in Int /\ W \in Int
        BY <1>1, <2>2, LayersAssumption
      <4>3. (TotalLayers - currentLayer) * total = TotalLayers * total - currentLayer * total
        BY <4>2
      <4>4. (W + (TotalLayers - currentLayer)) * total
               = W * total + (TotalLayers - currentLayer) * total
        BY <4>2, Distributes
      <4> QED
        BY <4>1, <4>3, <4>4
    <3>4. Width(i)' * total <= Tp + n * total
      <4> DEFINE a == TotalLayers * total
                 b == currentLayer * total
                 c == W * total
                 d == n * total
      <4>1. a \in Nat /\ b \in Nat /\ c \in Nat /\ Tp \in Nat /\ d \in Nat
        BY <2>4, <3>1
      <4>2. a + c <= Tp + b + d /\ Width(i)' * total = c + (a - b)
        BY <3>2, <3>3
      <4> HIDE DEF a, b, c, d, Tp, W
      <4> QED
        BY <4>1, <4>2 DEF d
    <3> QED
      BY <3>1, <3>4
  <2> QED
    BY <1>1, <2>6, <2>7
<1>7. RoundingBounded'
  BY <1>2, <1>3, <1>6 DEF RoundingBounded, Width
<1>8. UnservedOnlyForMinimum'
  <2> SUFFICES ASSUME n < Len(providers),
                      \A i \in 1 .. n : ~ (providers[i] * TotalLayers < total)
               PROVE  FALSE
    BY <1>2, <1>3 DEF UnservedOnlyForMinimum
  <2>1. currentLayer = TotalLayers
    BY <1>1 DEF Rounded
  <2>2. pre[n] \in Nat /\ pre[n] + 1 <= total
    BY <1>1 DEF Running
  <2>3. \A i \in 1 .. n : total <= providers[i] * TotalLayers
    <3> SUFFICES ASSUME NEW i \in 1 .. n PROVE total <= providers[i] * TotalLayers
      OBVIOUS
    <3>1. providers[i] * TotalLayers \in Nat /\ total \in Nat
      BY <1>1, Products, LayersAssumption
    <3> QED
      BY <3>1
  <2>4. TotalLayers * total <= TotalLayers * pre[n]
    BY <1>1, <2>1, <2>3 DEF Rounded
  <2>5. (pre[n] + 1) * TotalLayers <= total * TotalLayers
    <3> DEFINE k == pre[n] + 1
    <3>1. k \in Nat /\ k <= total /\ TotalLayers \in Nat
      BY <2>2, LayersAssumption
    <3> HIDE DEF k
    <3>2. k * TotalLayers <= total * TotalLayers
      BY <1>1, <3>1, Monotone
    <3> QED
      BY <3>2 DEF k
  <2>6. (pre[n] + 1) * TotalLayers = TotalLayers * pre[n] + TotalLayers
    BY <2>2, Distributes, Commutes, LayersAssumption
  <2>7. total * TotalLayers = TotalLayers * total /\ TotalLayers * pre[n] \in Nat
        /\ TotalLayers * total \in Nat
    BY <1>1, <2>2, Commutes, Products, LayersAssumption
  <2> QED
    BY <2>4, <2>5, <2>6, <2>7, LayersAssumption
<1> QED
  BY <1>4, <1>5, <1>7, <1>8

LEMMA RoundingHolds == RInv /\ [Next]_vars => RInv'
<1> SUFFICES ASSUME RInv, [Next]_vars PROVE RInv'
  OBVIOUS
<1>1. IInv /\ IInv'
  BY StepHolds DEF RInv
<1>2. PICK pre \in [0 .. summed -> Nat] : Running(pre) /\ Rounded(pre)
  BY DEF RInv
<1>3. CASE AddCapacity
  <2>1. \E next \in [0 .. summed' -> Nat] : Running(next)' /\ Rounded(next)'
    BY <1>1, <1>2, <1>3, AddCapacityRounds
  <2>2. pc' # "done"
    BY <1>3 DEF AddCapacity
  <2> QED
    BY <1>1, <2>1, <2>2 DEF RInv, RoundingBounded, UnservedOnlyForMinimum
<1>4. CASE SumEnds \/ Assign \/ LoopEnds
  <2>1. Running(pre)' /\ Rounded(pre)'
    BY <1>1, <1>2, <1>4, SumEndsRounds, AssignRounds, LoopEndsRounds
  <2>2. pc' # "done" /\ summed' = summed
    BY <1>4 DEF SumEnds, Assign, LoopEnds
  <2> QED
    BY <1>1, <2>1, <2>2 DEF RInv, RoundingBounded, UnservedOnlyForMinimum
<1>5. CASE CoverAll
  <2>1. Running(pre)' /\ Rounded(pre)' /\ RoundingBounded' /\ UnservedOnlyForMinimum'
    BY <1>1, <1>2, <1>5, CoverAllRounds
  <2>2. summed' = summed
    BY <1>5 DEF CoverAll
  <2> QED
    BY <1>1, <2>1, <2>2 DEF RInv
<1>6. CASE UNCHANGED vars
  <2>1. Running(pre)' /\ Rounded(pre)' /\ RoundingBounded' /\ UnservedOnlyForMinimum'
    BY <1>2, <1>6 DEF RInv, vars, Running, Rounded, Width, RoundingBounded, UnservedOnlyForMinimum
  <2>2. summed' = summed
    BY <1>6 DEF vars
  <2> QED
    BY <1>1, <2>1, <2>2 DEF RInv
<1> QED
  BY <1>3, <1>4, <1>5, <1>6 DEF Next

\* A provider is given at most a layer per selected provider more than its exact share
\* (AllocateLayers stretches the last stage), for every list of capacities.
THEOREM RoundingIsBounded == Spec => []RoundingBounded
<1>1. RInv => RoundingBounded
  BY DEF RInv
<1> QED
  BY <1>1, RoundingStarts, RoundingHolds, PTL DEF Spec

\* Where AllocateLayers leaves a selected provider without a stage, the one-layer
\* minimum has given a layer to one with less than a layer's share.
THEOREM OnlyTheMinimumLeavesOut == Spec => []UnservedOnlyForMinimum
<1>1. RInv => UnservedOnlyForMinimum
  BY DEF RInv
<1> QED
  BY <1>1, RoundingStarts, RoundingHolds, PTL DEF Spec

-----------------------------------------------------------------------------
\* The encoding of a ciphertext, which is never empty, and what is read back of it.
Whole(data) == \E v \in [1 .. Slots -> Int] : data = MarshalCiphertext(v)

LEMMA Encoded ==
  ASSUME NEW v \in [1 .. Slots -> Int]
  PROVE  /\ MarshalCiphertext(v) \in Seq(Int)
         /\ Len(MarshalCiphertext(v)) = Slots + 2
         /\ MarshalCiphertext(v)[1] = 1
         /\ \A i \in 1 .. Slots : MarshalCiphertext(v)[i + 2] = v[i]
<1>1. Slots \in Nat \ {0} /\ 2 * Slots \in Int
  BY SlotsAssumption
<1>2. v \in Seq(Int) /\ Len(v) = Slots
  BY <1>1
<1> DEFINE prefix == Field(Params)
<1>3. prefix \in Seq(Int) /\ Len(prefix) = 2 /\ prefix[1] = 1
  <2>1. <<2 * Slots>> \in Seq(Int) /\ Len(<<2 * Slots>>) = 1 /\ <<1>> \in Seq(Int)
    BY <1>1
  <2>2. prefix = <<1>> \o <<2 * Slots>>
    BY <2>1 DEF Field, Params
  <2> HIDE DEF prefix
  <2> QED
    BY <2>1, <2>2, ConcatProperties
<1> HIDE DEF prefix
<1>4. MarshalCiphertext(v) = prefix \o v
  BY DEF MarshalCiphertext, prefix
<1>5. /\ prefix \o v \in Seq(Int) /\ Len(prefix \o v) = 2 + Slots
      /\ \A i \in 1 .. 2 + Slots : (prefix \o v)[i] = IF i <= 2 THEN prefix[i] ELSE v[i - 2]
  <2>1. /\ prefix \o v \in Seq(Int) /\ Len(prefix \o v) = Len(prefix) + Len(v)
        /\ \A i \in 1 .. Len(prefix) + Len(v) :
              (prefix \o v)[i] = IF i <= Len(prefix) THEN prefix[i] ELSE v[i - Len(prefix)]
    BY <1>2, <1>3, ConcatProperties
  <2> QED
    BY <1>2, <1>3, <2>1
<1>6. ASSUME NEW i \in 1 .. Slots PROVE (prefix \o v)[i + 2] = v[i]
  <2>1. i + 2 \in 1 .. 2 + Slots /\ ~ (i + 2 <= 2) /\ (i + 2) - 2 = i
    BY <1>1
  <2> QED
    BY <1>5, <2>1
<1>7. (prefix \o v)[1] = 1 /\ 2 + Slots = Slots + 2
  BY <1>1, <1>3, <1>5
<1> QED
  BY <1>4, <1>5, <1>6, <1>7

LEMMA Decodes ==
  ASSUME NEW v \in [1 .. Slots -> Int]
  PROVE  UnmarshalCiphertext(MarshalCiphertext(v)) = v /\ v # Refused
<1> DEFINE data == MarshalCiphertext(v)
           values == SubSeq(data, 3, Len(data))
<1>1. /\ data \in Seq(Int) /\ Len(data) = Slots + 2 /\ data[1] = 1 /\ Slots \in Nat \ {0}
      /\ \A i \in 1 .. Slots : data[i + 2] = v[i]
  BY Encoded, SlotsAssumption
<1> HIDE DEF data
<1>2. FieldAt(data, 1) # Refused /\ FieldAt(data, 1).next = 3
  <2>1. ~ (1 > Len(data) \/ 1 + data[1] > Len(data)) /\ 1 + data[1] + 1 = 3
    BY <1>1
  <2>2. FieldAt(data, 1) = [blob |-> SubSeq(data, 1 + 1, 1 + data[1]), next |-> 1 + data[1] + 1]
    BY <2>1 DEF FieldAt
  <2>3. SubSeq(data, 2, 2) \in Seq(Int)
    BY <1>1
  <2>4. [blob |-> SubSeq(data, 2, 2), next |-> 3] \in DecoderAnswers
    BY <2>3 DEF DecoderAnswers
  <2> QED
    BY <1>1, <2>1, <2>2, <2>4, RefusedAssumption
<1>3. /\ values \in Seq(Int) /\ Len(values) = Slots
      /\ \A i \in 1 .. Slots : values[i] = v[i]
  <2> DEFINE n == Slots + 2
  <2>1. n \in Nat /\ n - 3 + 1 = Slots /\ 3 <= n
    BY <1>1
  <2>2. \A i \in 3 .. n : data[i] \in Int
    BY <1>1, Elements
  <2>3. /\ Len(SubSeq(data, 3, n)) = n - 3 + 1 /\ SubSeq(data, 3, n) \in Seq(Int)
        /\ \A i \in 1 .. n - 3 + 1 : SubSeq(data, 3, n)[i] = data[3 + i - 1]
    BY <2>1, <2>2, SubSeqProperties
  <2>4. \A i \in 1 .. Slots : 3 + i - 1 = i + 2
    OBVIOUS
  <2> QED
    BY <1>1, <2>1, <2>3, <2>4
<1> HIDE DEF values
<1>4. values = v
  BY <1>3
<1>5. values # Refused
  BY <1>3, RefusedAssumption DEF DecoderAnswers
<1>6. UnmarshalCiphertext(data) = values
  <2> DEFINE field == FieldAt(data, 1)
             rest == SubSeq(data, field.next, Len(data))
  <2>1. UnmarshalCiphertext(data) = IF field = Refused \/ Len(rest) < Slots THEN Refused ELSE rest
    BY DEF UnmarshalCiphertext
  <2>2. rest = values
    BY <1>2 DEF values
  <2> HIDE DEF field, rest
  <2>3. field # Refused
    BY <1>2 DEF field
  <2>4. ~ (Len(values) < Slots)
    BY <1>1, <1>3
  <2> QED
    BY <2>1, <2>2, <2>3, <2>4
<1> QED
  BY <1>4, <1>5, <1>6 DEF data

\* Evaluator.Add doubles every slot of a ciphertext, and refuses what is none.
Doubled(v) == [i \in 1 .. Slots |-> Saturated(v[i] + v[i])]

LEMMA AddAnswers ==
  /\ \A v \in [1 .. Slots -> Int] :
        /\ Doubled(v) \in [1 .. Slots -> Int]
        /\ Add(MarshalCiphertext(v), MarshalCiphertext(v)) = MarshalCiphertext(Doubled(v))
  /\ Add(<<>>, <<>>) = Refused
<1>1. ASSUME NEW v \in [1 .. Slots -> Int]
      PROVE  Doubled(v) \in [1 .. Slots -> Int]
  <2>1. ASSUME NEW i \in 1 .. Slots PROVE Saturated(v[i] + v[i]) \in Int
    BY DEF Saturated, Bounded, Unit
  <2> QED
    BY <2>1 DEF Doubled
<1>2. ASSUME NEW v \in [1 .. Slots -> Int]
      PROVE  Add(MarshalCiphertext(v), MarshalCiphertext(v)) = MarshalCiphertext(Doubled(v))
  BY Decodes DEF Add, Doubled
<1>3. FieldAt(<<>>, 1) = Refused
  BY DEF FieldAt
<1>4. UnmarshalCiphertext(<<>>) = Refused
  BY <1>3 DEF UnmarshalCiphertext
<1> QED
  BY <1>1, <1>2, <1>4 DEF Add

LEMMA BytesOfText ==
  ASSUME NEW t \in Texts \cup {<<>>}, NEW i \in 1 .. Slots
  PROVE  ByteIn(t, i) \in 0 .. 255
<1>1. t \in Seq(0 .. 255)
  <2>1. <<>> \in Seq(0 .. 255)
    OBVIOUS
  <2> QED
    BY <2>1, TextsAssumption
<1>2. Len(t) \in Nat /\ \A k \in 1 .. Len(t) : t[k] \in 0 .. 255
  BY <1>1, Elements
<1>3. ASSUME i <= Len(t) PROVE t[i] \in 0 .. 255
  <2>1. i \in 1 .. Len(t)
    BY <1>2, <1>3, SlotsAssumption
  <2> QED
    BY <1>2, <2>1
<1> QED
  BY <1>3 DEF ByteIn

\* What the consumer encrypts is a ciphertext, whatever the text: its bytes are integers.
LEMMA InputsAreWhole ==
  ASSUME NEW t \in Texts, NEW data \in EncryptInput(t)
  PROVE  Whole(data)
<1>1. PICK n \in Noise : data = MarshalCiphertext([i \in 1 .. Slots |-> ByteIn(t, i) * Unit + n])
  BY DEF EncryptInput
<1>2. ASSUME NEW i \in 1 .. Slots PROVE ByteIn(t, i) * Unit + n \in Int
  <2>1. ByteIn(t, i) \in 0 .. 255
    BY BytesOfText
  <2> QED
    BY <2>1 DEF Unit, Noise
<1>3. [i \in 1 .. Slots |-> ByteIn(t, i) * Unit + n] \in [1 .. Slots -> Int]
  BY <1>2
<1> QED
  BY <1>1, <1>3 DEF Whole

LEMMA WholeIsNotEmpty ==
  ASSUME NEW data, Whole(data)
  PROVE  data # <<>> /\ data \in Seq(Int)
<1>1. data \in Seq(Int) /\ Len(data) = Slots + 2
  BY Encoded DEF Whole
<1> QED
  BY <1>1, SlotsAssumption

\* The layers 0 to l have been executed, l at last.
RanUpTo(l) ==
    /\ ran # <<>> /\ ran[Len(ran)] = l
    /\ \A k \in 0 .. l : \E i \in 1 .. Len(ran) : ran[i] = k

EngineTypes ==
    /\ engine \in {"wait", "keys", "loop"}
    /\ executing \in 0 .. Len(stages)
    /\ ran \in Seq(0 .. TotalLayers)
    /\ text \in Texts \cup {<<>>}
    /\ activations = <<>> \/ Whole(activations)
    /\ pc # "done" => executing = 0 /\ activations = <<>>
    /\ executing = 0 => engine = "wait" /\ ran = <<>>
    /\ layer \in 0 .. TotalLayers + 1
    /\ engine = "loop" => layer \in stages[executing].start .. stages[executing].end + 1

\* As long as the activations are not lost, the stages run up to the layer in which
\* the next one begins, each including its last.
Progress ==
    /\ \A i \in 1 .. Len(ran) - 1 : ran[i + 1] \in {ran[i], ran[i] + 1}
    /\ activations # <<>> /\ executing > 0 =>
         /\ engine = "wait" => RanUpTo(stages[executing].end)
         /\ engine = "keys" =>
              (executing = 1 /\ ran = <<>>) \/ RanUpTo(stages[executing].start)
         /\ engine = "loop" =>
              IF layer = stages[executing].start
              THEN (executing = 1 /\ ran = <<>>) \/ RanUpTo(layer)
              ELSE RanUpTo(layer - 1)

WithinModel == \A i \in 1 .. Len(stages) : stages[i].end <= TotalLayers

EInv == IInv /\ WithinModel /\ EngineTypes /\ Progress

LEMMA EngineStarts == EngineInit => EInv
<1> SUFFICES ASSUME EngineInit PROVE EInv
  OBVIOUS
<1>1. IInv
  BY InitHolds DEF EngineInit
<1>2. stages = <<>> /\ Len(stages) = 0 /\ pc = "sum" /\ ran = <<>> /\ Len(ran) = 0
  BY DEF EngineInit, Init
<1>3. WithinModel /\ EngineTypes /\ Progress
  BY <1>2, LayersAssumption DEF EngineInit, WithinModel, EngineTypes, Progress
<1> QED
  BY <1>1, <1>3 DEF EInv

\* What the engine needs of an allocation that has been returned.
LEMMA StageFacts ==
  ASSUME IInv, pc = "done", NEW k \in 1 .. Len(stages)
  PROVE  /\ stages[k].start \in Nat /\ stages[k].end \in Nat
         /\ stages[k].start < stages[k].end
         /\ k = 1 => stages[k].start = 0
         /\ k > 1 => k - 1 \in 1 .. Len(stages) /\ stages[k - 1].end = stages[k].start
         /\ k = Len(stages) => stages[k].end = TotalLayers
<1> DEFINE n == Len(stages)
<1>1. /\ stages \in Seq(Stage) /\ Consecutive(stages, TotalLayers)
  BY DEF IInv, TypeOK, TilesModel
<1>2. n \in Nat /\ stages # <<>> /\ \A i \in 1 .. n : stages[i] \in Stage
  BY <1>1, Elements
<1>3. /\ \A i \in 1 .. n : stages[i].start < stages[i].end
      /\ \A i \in 1 .. n - 1 : stages[i].end = stages[i + 1].start
      /\ stages[1].start = 0 /\ stages[n].end = TotalLayers
  BY <1>1, <1>2 DEF Consecutive
<1>4. \A i \in 1 .. n : stages[i].start \in Nat /\ stages[i].end \in Nat
  BY <1>2 DEF Stage
<1>5. stages[k].start < stages[k].end
  BY <1>3
<1>6. k > 1 => k - 1 \in 1 .. n /\ stages[k - 1].end = stages[k].start
  <2> SUFFICES ASSUME k > 1 PROVE k - 1 \in 1 .. n /\ stages[k - 1].end = stages[k].start
    OBVIOUS
  <2>1. k - 1 \in 1 .. n - 1 /\ k - 1 \in 1 .. n /\ (k - 1) + 1 = k
    BY <1>2
  <2>2. stages[k - 1].end = stages[(k - 1) + 1].start
    BY <1>3, <2>1
  <2> QED
    BY <2>1, <2>2
<1> QED
  BY <1>3, <1>4, <1>5, <1>6

\* No stage ends behind the model.
LEMMA StagesStayWithin == IInv /\ WithinModel /\ Next => WithinModel'
<1> SUFFICES ASSUME IInv, WithinModel, Next PROVE WithinModel'
  OBVIOUS
<1>1. /\ stages \in Seq(Stage) /\ Len(stages) \in Nat
      /\ \A i \in 1 .. Len(stages) : stages[i].end \in Nat /\ stages[i].end <= TotalLayers
      /\ \A i \in 1 .. Len(stages) : stages[i] \in Stage
  <2>1. stages \in Seq(Stage)
    BY DEF IInv, TypeOK
  <2>2. Len(stages) \in Nat /\ \A i \in 1 .. Len(stages) : stages[i] \in Stage
    BY <2>1, Elements
  <2> QED
    BY <2>1, <2>2 DEF WithinModel, Stage
<1>2. CASE Assign
  <2>1. PICK share \in Shares(providers[Len(stages) + 1], totalCapacity) :
           /\ stages' = Append(stages, [provider |-> Len(stages) + 1, start |-> currentLayer,
                                       end |-> Clamped(currentLayer + AtLeastOne(share))])
           /\ currentLayer' = Clamped(currentLayer + AtLeastOne(share))
    BY <1>2 DEF Assign
  <2> DEFINE s == [provider |-> Len(stages) + 1, start |-> currentLayer,
                   end |-> Clamped(currentLayer + AtLeastOne(share))]
  <2>2. s.end = currentLayer' /\ currentLayer' <= TotalLayers
    <3>1. IInv'
      BY <1>2, AssignHolds
    <3> QED
      BY <2>1, <3>1, LayersAssumption DEF IInv, TypeOK
  <2>3. stages' = Append(stages, s)
    BY <2>1
  <2> HIDE DEF s
  <2>4. /\ Len(stages') = Len(stages) + 1 /\ stages'[Len(stages) + 1] = s
        /\ \A i \in 1 .. Len(stages) : stages'[i] = stages[i]
    BY <1>1, <2>3
  <2> QED
    BY <1>1, <2>2, <2>4 DEF WithinModel
<1>3. CASE CoverAll
  <2>1. /\ Len(stages') = Len(stages)
        /\ \A i \in 1 .. Len(stages) : stages'[i].end \in {stages[i].end, TotalLayers}
    BY <1>1, <1>3 DEF CoverAll, Stretched, Stage
  <2> QED
    BY <1>1, <2>1, LayersAssumption DEF WithinModel
<1>4. CASE AddCapacity \/ SumEnds \/ LoopEnds
  BY <1>4 DEF AddCapacity, SumEnds, LoopEnds, WithinModel
<1> QED
  BY <1>2, <1>3, <1>4 DEF Next

\* The loop of AllocateLayers has ended before the engine does anything.
LEMMA AllocationStepsHold == EInv /\ Next /\ UNCHANGED engineVars => EInv'
<1> SUFFICES ASSUME EInv, Next, UNCHANGED engineVars PROVE EInv'
  OBVIOUS
<1>1. IInv' /\ WithinModel'
  BY StepHolds, StagesStayWithin DEF EInv
<1>2. pc # "done"
  BY DEF Next, AddCapacity, SumEnds, Assign, LoopEnds, CoverAll
<1>3. /\ executing = 0 /\ activations = <<>> /\ ran = <<>> /\ engine = "wait"
      /\ UNCHANGED <<executing, activations, ran, engine, layer, text>>
  BY <1>2 DEF EInv, EngineTypes, engineVars, loopVars, dataVars
<1>4. executing' \in 0 .. Len(stages')
  <2>1. Len(stages') \in Nat
    BY <1>1, Elements DEF IInv, TypeOK
  <2> QED
    BY <1>3, <2>1
<1>5. EngineTypes' /\ Progress'
  BY <1>3, <1>4 DEF EInv, EngineTypes, Progress
<1> QED
  BY <1>1, <1>5 DEF EInv

\* A layer that follows the last one, or repeats it, extends what has run.
LEMMA RunExtends ==
  ASSUME ran \in Seq(0 .. TotalLayers), NEW l \in 0 .. TotalLayers,
         (ran = <<>> /\ l = 0) \/ RanUpTo(l) \/ (l > 0 /\ RanUpTo(l - 1)),
         \A i \in 1 .. Len(ran) - 1 : ran[i + 1] \in {ran[i], ran[i] + 1},
         ran' = Append(ran, l)
  PROVE  /\ ran' \in Seq(0 .. TotalLayers) /\ RanUpTo(l)'
         /\ \A i \in 1 .. Len(ran') - 1 : ran'[i + 1] \in {ran'[i], ran'[i] + 1}
<1>1. /\ ran' \in Seq(0 .. TotalLayers) /\ Len(ran) \in Nat /\ Len(ran') = Len(ran) + 1
      /\ ran'[Len(ran) + 1] = l /\ \A i \in 1 .. Len(ran) : ran'[i] = ran[i]
      /\ \A i \in 1 .. Len(ran) : ran[i] \in 0 .. TotalLayers
      /\ ran = <<>> <=> Len(ran) = 0
  <2>1. /\ Append(ran, l) \in Seq(0 .. TotalLayers) /\ Len(Append(ran, l)) = Len(ran) + 1
        /\ Append(ran, l)[Len(ran) + 1] = l
        /\ \A i \in 1 .. Len(ran) : Append(ran, l)[i] = ran[i]
    BY AppendProperties
  <2>2. /\ Len(ran) \in Nat /\ (ran = <<>> <=> Len(ran) = 0)
        /\ \A i \in 1 .. Len(ran) : ran[i] \in 0 .. TotalLayers
    BY Elements
  <2> QED
    BY <2>1, <2>2
<1>2. ran' # <<>> /\ ran'[Len(ran')] = l
  BY <1>1
<1>3. ASSUME NEW k \in 0 .. l PROVE \E i \in 1 .. Len(ran') : ran'[i] = k
  <2>1. CASE k = l
    BY <1>1, <2>1
  <2>2. CASE k # l
    <3>1. k \in 0 .. l - 1 /\ l > 0
      BY <2>2, LayersAssumption
    <3>2. RanUpTo(l) \/ RanUpTo(l - 1)
      BY <3>1
    <3>3. \E i \in 1 .. Len(ran) : ran[i] = k
      BY <3>1, <3>2 DEF RanUpTo
    <3> QED
      BY <1>1, <3>3
  <2> QED
    BY <2>1, <2>2
<1>4. ASSUME NEW i \in 1 .. Len(ran') - 1
      PROVE  ran'[i + 1] \in {ran'[i], ran'[i] + 1}
  <2>1. CASE i = Len(ran)
    <3>1. ran # <<>> /\ ran[Len(ran)] \in {l, l - 1}
      BY <1>1, <2>1 DEF RanUpTo
    <3> QED
      BY <1>1, <2>1, <3>1
  <2>2. CASE i # Len(ran)
    <3>1. i \in 1 .. Len(ran) - 1 /\ i \in 1 .. Len(ran) /\ i + 1 \in 1 .. Len(ran)
      BY <1>1, <2>2
    <3> QED
      BY <1>1, <3>1
  <2> QED
    BY <2>1, <2>2
<1> QED
  BY <1>1, <1>2, <1>3, <1>4 DEF RanUpTo

\* What a step of the engine finds: an allocation, which it leaves as it is.
LEMMA EngineStands ==
  ASSUME EInv, UNCHANGED vars
  PROVE  /\ IInv' /\ WithinModel'
         /\ Len(stages) \in Nat
         /\ executing > 0 => pc = "done" /\ executing \in 1 .. Len(stages)
<1>1. IInv' /\ WithinModel'
  BY DEF EInv, IInv, TypeOK, Partial, Summed, TilesModel, Consecutive, WithinModel, vars
<1>2. Len(stages) \in Nat
  BY Elements DEF EInv, IInv, TypeOK
<1> QED
  BY <1>1, <1>2 DEF EInv, EngineTypes

\* Where the loop is when it executes a layer: within its stage, and one layer further
\* than before at most.
LEMMA LoopIsWithin ==
  ASSUME EInv, RunLayer
  PROVE  /\ UNCHANGED vars /\ engine = "loop" /\ IInv' /\ WithinModel'
         /\ Len(stages) \in Nat /\ pc = "done" /\ executing \in 1 .. Len(stages)
         /\ stages[executing].start \in Nat /\ stages[executing].end \in Nat
         /\ layer \in 0 .. TotalLayers
         /\ layer \in stages[executing].start .. stages[executing].end
         /\ activations # <<>> =>
              (ran = <<>> /\ layer = 0) \/ RanUpTo(layer) \/ (layer > 0 /\ RanUpTo(layer - 1))
<1>1. UNCHANGED vars /\ engine = "loop" /\ layer <= stages[executing].end
  BY DEF RunLayer, StageFails, LoopRuns
<1>2. /\ IInv' /\ WithinModel' /\ Len(stages) \in Nat
      /\ pc = "done" /\ executing \in 1 .. Len(stages)
  <2>1. executing \in 0 .. Len(stages) /\ executing # 0
    BY <1>1 DEF EInv, EngineTypes
  <2>2. executing > 0
    BY <2>1, <1>1, EngineStands
  <2> QED
    BY <1>1, <2>2, EngineStands
<1>4. /\ stages[executing].start \in Nat /\ stages[executing].end \in Nat
      /\ stages[executing].start < stages[executing].end
      /\ stages[executing].end <= TotalLayers
      /\ executing = 1 => stages[executing].start = 0
  BY <1>2, StageFacts DEF EInv, WithinModel
<1>5. layer \in 0 .. TotalLayers /\ layer \in stages[executing].start .. stages[executing].end
  <2>1. layer \in stages[executing].start .. stages[executing].end + 1
    BY <1>1 DEF EInv, EngineTypes
  <2> QED
    BY <1>1, <1>4, <2>1, LayersAssumption
<1>6. activations # <<>> =>
        (ran = <<>> /\ layer = 0) \/ RanUpTo(layer) \/ (layer > 0 /\ RanUpTo(layer - 1))
  BY <1>1, <1>2, <1>4, <1>5 DEF EInv, Progress
<1> QED
  BY <1>1, <1>2, <1>4, <1>5, <1>6

LEMMA RunLayerHolds == EInv /\ RunLayer => EInv'
<1> SUFFICES ASSUME EInv, RunLayer PROVE EInv'
  OBVIOUS
<1>1. UNCHANGED vars /\ engine = "loop"
  BY LoopIsWithin
<1>2. /\ IInv' /\ WithinModel' /\ Len(stages) \in Nat
      /\ pc = "done" /\ executing \in 1 .. Len(stages)
  BY LoopIsWithin
<1>4. stages[executing].start \in Nat /\ stages[executing].end \in Nat
  BY LoopIsWithin
<1>5. PICK l \in 0 .. TotalLayers :
         /\ l = layer /\ l \in stages[executing].start .. stages[executing].end
         /\ activations # <<>> =>
              (ran = <<>> /\ l = 0) \/ RanUpTo(l) \/ (l > 0 /\ RanUpTo(l - 1))
  BY LoopIsWithin
<1> DEFINE sum == Add(activations, activations)
<1>6. CASE StageFails
  BY <1>1, <1>2, <1>6 DEF StageFails, EInv, EngineTypes, Progress, vars
<1>7. CASE /\ sum # Refused /\ activations' = sum
           /\ ran' = Append(ran, layer) /\ layer' = layer + 1
           /\ UNCHANGED <<vars, engine, executing, text, evalKeys>>
  <2>1. activations # <<>> /\ Whole(activations')
    BY <1>7, AddAnswers DEF EInv, EngineTypes, Whole
  <2>2. (ran = <<>> /\ l = 0) \/ RanUpTo(l) \/ (l > 0 /\ RanUpTo(l - 1))
    BY <1>5, <2>1
  <2>3. /\ ran' \in Seq(0 .. TotalLayers)
        /\ RanUpTo(l)'
        /\ \A i \in 1 .. Len(ran') - 1 : ran'[i + 1] \in {ran'[i], ran'[i] + 1}
    BY <1>5, <1>7, <2>2, RunExtends DEF EInv, EngineTypes, Progress
  <2>4. /\ stages' = stages /\ pc' = pc /\ executing' = executing /\ engine' = engine
        /\ text' = text /\ layer' = l + 1
    BY <1>5, <1>7 DEF vars
  <2>5. EngineTypes'
    BY <1>1, <1>2, <1>4, <1>5, <2>1, <2>3, <2>4, LayersAssumption DEF EInv, EngineTypes
  <2>6. Progress'
    <3>1. layer' # stages'[executing'].start /\ layer' - 1 = l /\ engine' = "loop"
      BY <1>1, <1>4, <1>5, <2>4
    <3>2. RanUpTo(layer - 1)'
      BY <2>3, <3>1 DEF RanUpTo
    <3> QED
      BY <2>3, <3>1, <3>2 DEF Progress
  <2> QED
    BY <1>2, <2>5, <2>6 DEF EInv
<1> QED
  BY <1>6, <1>7 DEF RunLayer

\* The other steps of the engine: its loop ends behind the stage's last layer, the one
\* in which the next stage begins.
LEMMA EngineStepsHold ==
  EInv /\ (Encrypt \/ NextStage \/ Keys \/ StageDone) => EInv'
<1> SUFFICES ASSUME EInv, Encrypt \/ NextStage \/ Keys \/ StageDone PROVE EInv'
  OBVIOUS
<1>1. UNCHANGED vars
  BY DEF Encrypt, NextStage, Keys, StageFails, StageDone
<1>2. /\ IInv' /\ WithinModel' /\ Len(stages) \in Nat /\ stages' = stages /\ pc' = pc
      /\ executing > 0 => pc = "done" /\ executing \in 1 .. Len(stages)
  BY <1>1, EngineStands DEF vars
<1>3. CASE Encrypt
  <2>1. PICK t \in Texts : text' = t /\ activations' \in EncryptInput(t)
    BY <1>3 DEF Encrypt
  <2>2. Whole(activations')
    BY <2>1, InputsAreWhole
  <2>3. /\ pc = "done" /\ executing = 0
        /\ UNCHANGED <<engine, executing, layer, ran>>
    BY <1>3 DEF Encrypt, loopVars
  <2>4. EngineTypes'
    BY <1>2, <2>1, <2>2, <2>3 DEF EInv, EngineTypes
  <2>5. Progress'
    BY <1>2, <2>3 DEF EInv, Progress
  <2> QED
    BY <1>2, <2>4, <2>5 DEF EInv
<1>4. CASE NextStage
  <2>1. /\ engine = "wait" /\ executing < Len(stages)
        /\ executing > 0 \/ activations # <<>>
        /\ executing' = executing + 1 /\ engine' = "keys"
        /\ UNCHANGED <<layer, ran, text, activations>>
    BY <1>4 DEF NextStage, dataVars
  <2>2. pc = "done" /\ executing \in Nat /\ executing + 1 \in 1 .. Len(stages)
    BY <1>2, <2>1 DEF EInv, EngineTypes
  <2>3. EngineTypes'
    BY <1>2, <2>1, <2>2 DEF EInv, EngineTypes
  <2>4. ASSUME activations # <<>>
        PROVE  (executing + 1 = 1 /\ ran = <<>>) \/ RanUpTo(stages[executing + 1].start)
    <3>1. CASE executing = 0
      BY <3>1 DEF EInv, EngineTypes
    <3>2. CASE executing > 0
      <4>1. RanUpTo(stages[executing].end)
        BY <2>1, <2>4, <3>2 DEF EInv, Progress
      <4>2. stages[executing].end = stages[executing + 1].start
        <5>1. executing + 1 > 1 /\ (executing + 1) - 1 = executing
          BY <2>2, <3>2
        <5>2. stages[(executing + 1) - 1].end = stages[executing + 1].start
          BY <2>2, <5>1, StageFacts DEF EInv
        <5> QED
          BY <5>1, <5>2
      <4> QED
        BY <4>1, <4>2
    <3> QED
      BY <2>2, <3>1, <3>2
  <2>5. Progress'
    BY <1>2, <2>1, <2>4 DEF EInv, Progress, RanUpTo
  <2> QED
    BY <1>2, <2>3, <2>5 DEF EInv
<1>5. CASE Keys /\ StageFails
  BY <1>2, <1>5 DEF StageFails, EInv, EngineTypes, Progress
<1>6. CASE Keys /\ ~ StageFails
  <2>1. /\ engine = "keys" /\ engine' = "loop" /\ layer' = stages[executing].start
        /\ UNCHANGED <<executing, ran, text, activations>>
    BY <1>6 DEF Keys
  <2>2. /\ pc = "done" /\ executing \in 1 .. Len(stages) /\ executing > 0
    <3>1. executing \in 0 .. Len(stages) /\ executing # 0
      BY <2>1 DEF EInv, EngineTypes
    <3> QED
      BY <1>2, <3>1
  <2>3. /\ stages[executing].start \in Nat /\ stages[executing].end \in Nat
        /\ stages[executing].start < stages[executing].end
        /\ stages[executing].end <= TotalLayers
    BY <2>2, StageFacts DEF EInv, WithinModel
  <2>4. EngineTypes'
    BY <1>2, <2>1, <2>2, <2>3, LayersAssumption DEF EInv, EngineTypes
  <2>5. Progress'
    BY <1>2, <2>1, <2>2 DEF EInv, Progress, RanUpTo
  <2> QED
    BY <1>2, <2>4, <2>5 DEF EInv
<1>7. CASE StageDone
  <2>1. /\ engine = "loop" /\ ~ (layer <= stages[executing].end) /\ engine' = "wait"
        /\ UNCHANGED <<executing, layer, ran, text, activations>>
    BY <1>7 DEF StageDone, LoopRuns, loopVars, dataVars
  <2>2. /\ pc = "done" /\ executing \in 1 .. Len(stages) /\ executing > 0
    <3>1. executing \in 0 .. Len(stages) /\ executing # 0
      BY <2>1 DEF EInv, EngineTypes
    <3> QED
      BY <1>2, <3>1
  <2>3. /\ stages[executing].start \in Nat /\ stages[executing].end \in Nat
        /\ stages[executing].start < stages[executing].end
    BY <2>2, StageFacts DEF EInv
  <2>4. layer = stages[executing].end + 1
    <3>1. layer \in stages[executing].start .. stages[executing].end + 1
      BY <2>1 DEF EInv, EngineTypes
    <3> QED
      BY <2>1, <2>3, <3>1
  <2>5. EngineTypes'
    BY <1>2, <2>1, <2>2 DEF EInv, EngineTypes
  <2>6. activations # <<>> => RanUpTo(stages[executing].end)
    <3>1. layer # stages[executing].start /\ layer - 1 = stages[executing].end
      BY <2>3, <2>4
    <3> QED
      BY <2>1, <2>2, <3>1 DEF EInv, Progress
  <2>7. Progress'
    BY <1>2, <2>1, <2>6 DEF EInv, Progress, RanUpTo
  <2> QED
    BY <1>2, <2>5, <2>7 DEF EInv
<1> QED
  BY <1>3, <1>4, <1>5, <1>6, <1>7

LEMMA EngineHolds == EInv /\ [EngineNext]_<<vars, engineVars>> => EInv'
<1> SUFFICES ASSUME EInv, [EngineNext]_<<vars, engineVars>> PROVE EInv'
  OBVIOUS
<1>1. CASE UNCHANGED <<vars, engineVars>>
  <2>1. IInv' /\ WithinModel'
    BY <1>1, EngineStands
  <2> QED
    BY <1>1, <2>1
    DEF EInv, EngineTypes, Progress, RanUpTo, vars, engineVars, loopVars, dataVars
<1> QED
  BY <1>1, AllocationStepsHold, RunLayerHolds, EngineStepsHold DEF EngineNext

\* The engine's loop (he_engine.go, ExecuteLayer) stays within the stages it is given.
THEOREM EngineTypesHold == EngineSpec => []EngineTypeOK
<1>1. EInv => EngineTypeOK
  <2> SUFFICES ASSUME EInv PROVE EngineTypeOK
    OBVIOUS
  <2>1. activations \in Seq(Int)
    <3>1. <<>> \in Seq(Int)
      OBVIOUS
    <3> QED
      BY <3>1, WholeIsNotEmpty DEF EInv, EngineTypes
  <2> QED
    BY <2>1 DEF EInv, IInv, EngineTypes, EngineTypeOK
<1> QED
  BY <1>1, EngineStarts, EngineHolds, PTL DEF EngineSpec

LEMMA AllRanAtTheEnd ==
  ASSUME EInv, PipelineEnded, activations # <<>>
  PROVE  RanUpTo(TotalLayers)
<1>1. /\ pc = "done" /\ engine = "wait" /\ executing = Len(stages)
      /\ Len(stages) \in 1 .. Len(stages)
  BY Elements DEF PipelineEnded, EInv, IInv, TypeOK
<1>2. RanUpTo(stages[executing].end)
  BY <1>1 DEF EInv, Progress
<1>3. stages[executing].end = TotalLayers
  BY <1>1, StageFacts DEF EInv
<1> QED
  BY <1>2, <1>3

\* An answer at the end of a pipeline has been through every layer in order, for any
\* model and any allocation, although every stage but the first repeats a layer
\* (he_engine.go) and any stage may fail.
THEOREM NoLayerIsSkipped == EngineSpec => []NoLayerSkipped
<1>1. EInv => NoLayerSkipped
  <2> SUFFICES ASSUME EInv PROVE NoLayerSkipped
    OBVIOUS
  <2>1. ASSUME PipelineEnded, activations # <<>>, NEW l \in 0 .. TotalLayers - 1
        PROVE  \E i \in 1 .. Len(ran) : ran[i] = l
    <3>1. RanUpTo(TotalLayers)
      BY <2>1, AllRanAtTheEnd
    <3>2. l \in 0 .. TotalLayers
      BY LayersAssumption
    <3> QED
      BY <3>1, <3>2 DEF RanUpTo
  <2> QED
    BY <2>1 DEF EInv, Progress, NoLayerSkipped
<1> QED
  BY <1>1, EngineStarts, EngineHolds, PTL DEF EngineSpec

-----------------------------------------------------------------------------
\* What a byte that was not zero has grown to after n layers, from three quarters
\* at least, doubling: above 254.5 after nine, whatever the noise was.
Reached(n) ==
    CASE n = 0 -> 3   [] n = 1 -> 6   [] n = 2 -> 12  [] n = 3 -> 24 [] n = 4 -> 48
      [] n = 5 -> 96  [] n = 6 -> 192 [] n = 7 -> 384 [] n = 8 -> 768
      [] OTHER -> 256 * Unit

LEMMA DoublingReaches ==
  ASSUME NEW n \in Nat, NEW x \in Int, x >= Reached(n)
  PROVE  Saturated(x + x) >= Reached(n + 1)
<1>1. /\ Reached(n + 1) <= Reached(n) + Reached(n) /\ Reached(n + 1) <= 1024
      /\ Reached(n) \in Nat /\ Reached(n + 1) \in Nat /\ Reached(n) > 0
  BY DEF Reached, Unit
<1>2. Saturated(x + x) = IF x + x > 1024 THEN 1024 ELSE x + x
  BY <1>1 DEF Saturated, Bounded, Unit
<1> QED
  BY <1>1, <1>2

\* Rounding takes the noise off again, and above a byte's range gives 255.
LEMMA Rounds ==
  /\ \A byte \in 0 .. 255, n \in Noise : Bounded(Round(byte * Unit + n), 0, 255) = byte
  /\ \A x \in Int : x >= 256 * Unit => Bounded(Round(x), 0, 255) = 255
<1>1. ASSUME NEW byte \in 0 .. 255, NEW n \in Noise
      PROVE  Bounded(Round(byte * Unit + n), 0, 255) = byte
  <2>1. Round(byte * 4 + 1) = byte
    BY DEF Round, Unit
  <2>2. Round(byte * 4 - 1) = byte
    <3>1. CASE byte = 0
      <4>1. (4 \div 2 - (0 - 1)) \div 4 = 0 /\ byte * 4 - 1 = 0 - 1 /\ 0 - 1 < 0
        BY <3>1
      <4>2. Round(0 - 1) = -((4 \div 2 - (0 - 1)) \div 4)
        BY <4>1 DEF Round, Unit
      <4> QED
        BY <3>1, <4>1, <4>2
    <3>2. CASE byte # 0
      BY <3>2 DEF Round, Unit
    <3> QED
      BY <3>1, <3>2
  <2>3. byte * Unit + n \in {byte * 4 + 1, byte * 4 - 1}
    BY DEF Noise, Unit
  <2> QED
    BY <2>1, <2>2, <2>3 DEF Bounded
<1>2. ASSUME NEW x \in Int, x >= 256 * Unit
      PROVE  Bounded(Round(x), 0, 255) = 255
  <2>1. Round(x) = (x + 2) \div 4
    BY <1>2 DEF Round, Unit
  <2>2. (x + 2) \div 4 >= 256
    BY <1>2 DEF Unit
  <2> QED
    BY <2>1, <2>2 DEF Bounded
<1> QED
  BY <1>1, <1>2

\* The layer that is executed as the n-th is the n-th or one before it, so that a
\* pipeline has executed as many as the model has at least; and the slots hold what
\* so many doublings make of the text.
Grown(v) ==
    \A i \in 1 .. Slots :
        /\ ran = <<>> => \E n \in Noise : v[i] = ByteIn(text, i) * Unit + n
        /\ ByteIn(text, i) # 0 => v[i] >= Reached(Len(ran))

GInv ==
    /\ EInv
    /\ \A i \in 1 .. Len(ran) : ran[i] < i
    /\ activations # <<>> =>
         \E v \in [1 .. Slots -> Int] : activations = MarshalCiphertext(v) /\ Grown(v)

LEMMA GrowthStarts == EngineInit => GInv
<1> SUFFICES ASSUME EngineInit PROVE GInv
  OBVIOUS
<1>1. ran = <<>> /\ Len(ran) = 0 /\ activations = <<>>
  BY DEF EngineInit
<1> QED
  BY <1>1, EngineStarts DEF GInv

LEMMA GrowthStands ==
  GInv /\ UNCHANGED <<ran, text>> /\ activations' \in {<<>>, activations} /\ EInv' => GInv'
BY DEF GInv, Grown

\* What is encrypted: nothing has run, and a byte is at least one.
LEMMA EncryptGrows == GInv /\ Encrypt => GInv'
<1> SUFFICES ASSUME GInv, Encrypt PROVE GInv'
  OBVIOUS
<1>1. EInv' /\ EInv
  BY EngineStepsHold DEF GInv
<1>2. PICK t \in Texts : text' = t /\ activations' \in EncryptInput(t)
  BY DEF Encrypt
<1>3. ran = <<>> /\ ran' = ran /\ Len(ran') = 0
  BY <1>1 DEF Encrypt, EInv, EngineTypes, loopVars
<1>4. PICK n \in Noise : activations' = MarshalCiphertext([i \in 1 .. Slots |-> ByteIn(t, i) * Unit + n])
  BY <1>2 DEF EncryptInput
<1> DEFINE v == [i \in 1 .. Slots |-> ByteIn(t, i) * Unit + n]
<1>5. \A i \in 1 .. Slots : ByteIn(t, i) \in 0 .. 255
  BY BytesOfText
<1>6. v \in [1 .. Slots -> Int]
  BY <1>5 DEF Unit, Noise
<1>7. ASSUME NEW i \in 1 .. Slots, ByteIn(t, i) # 0 PROVE v[i] >= Reached(0)
  BY <1>5, <1>7 DEF Reached, Unit, Noise
<1> HIDE DEF v
<1>8. \A i \in 1 .. Slots : v[i] = ByteIn(t, i) * Unit + n
  BY DEF v
<1>9. Grown(v)'
  BY <1>2, <1>3, <1>7, <1>8 DEF Grown
<1>10. activations' = MarshalCiphertext(v)
  BY <1>4 DEF v
<1> QED
  BY <1>1, <1>3, <1>6, <1>9, <1>10 DEF GInv

LEMMA LayerGrows == GInv /\ RunLayer => GInv'
<1> SUFFICES ASSUME GInv, RunLayer PROVE GInv'
  OBVIOUS
<1>1. EInv' /\ EInv
  BY RunLayerHolds DEF GInv
<1>2. CASE StageFails
  BY <1>1, <1>2, GrowthStands DEF StageFails
<1>3. CASE ~ StageFails
  <2>1. /\ Add(activations, activations) # Refused
        /\ activations' = Add(activations, activations)
        /\ ran' = Append(ran, layer) /\ text' = text
        /\ layer <= stages[executing].end
    BY <1>3 DEF RunLayer, LoopRuns
  <2>2. activations # <<>>
    BY <2>1, AddAnswers
  <2>3. PICK v \in [1 .. Slots -> Int] : activations = MarshalCiphertext(v) /\ Grown(v)
    BY <2>2 DEF GInv
  <2>4. Doubled(v) \in [1 .. Slots -> Int] /\ activations' = MarshalCiphertext(Doubled(v))
    BY <2>1, <2>3, AddAnswers
  <2>5. /\ ran' # <<>> /\ Len(ran) \in Nat /\ Len(ran') = Len(ran) + 1
        /\ ran'[Len(ran) + 1] = layer /\ \A i \in 1 .. Len(ran) : ran'[i] = ran[i]
    <3>1. ran \in Seq(0 .. TotalLayers) /\ layer \in Nat
      BY <1>1, LayersAssumption DEF EInv, EngineTypes
    <3>2. ran \in Seq(Nat)
      BY <3>1, LayersAssumption
    <3> QED
      BY <2>1, <3>1, <3>2, AppendProperties, Elements
  <2>6. ASSUME NEW i \in 1 .. Slots, ByteIn(text, i) # 0
        PROVE  Doubled(v)[i] >= Reached(Len(ran'))
    <3>1. v[i] \in Int /\ v[i] >= Reached(Len(ran))
      BY <2>3, <2>6 DEF Grown
    <3> QED
      BY <2>5, <3>1, DoublingReaches DEF Doubled
  <2>7. Grown(Doubled(v))'
    <3>1. \A i \in 1 .. Slots : ByteIn(text', i) # 0 => Doubled(v)[i] >= Reached(Len(ran'))
      BY <2>1, <2>6
    <3> QED
      BY <2>5, <3>1 DEF Grown, Doubled
  <2>8. layer <= Len(ran)
    <3>1. (ran = <<>> /\ layer = 0) \/ RanUpTo(layer) \/ (layer > 0 /\ RanUpTo(layer - 1))
      BY <1>1, <2>2, LoopIsWithin
    <3>2. layer \in Nat
      BY <1>1, LoopIsWithin, LayersAssumption
    <3>3. CASE ran = <<>>
      BY <2>5, <3>1, <3>3 DEF RanUpTo
    <3>4. CASE ran # <<>>
      <4>1. Len(ran) \in 1 .. Len(ran) /\ ran[Len(ran)] \in {layer, layer - 1}
        BY <2>5, <3>1, <3>4 DEF RanUpTo
      <4> QED
        BY <2>5, <3>2, <4>1 DEF GInv
    <3> QED
      BY <3>3, <3>4
  <2>9. \A i \in 1 .. Len(ran') : ran'[i] < i
    <3>1. layer \in Nat /\ \A i \in 1 .. Len(ran) : ran[i] < i
      BY <1>1, LoopIsWithin, LayersAssumption DEF GInv
    <3>2. ASSUME NEW i \in 1 .. Len(ran') PROVE i \in 1 .. Len(ran) \/ i = Len(ran) + 1
      BY <2>5
    <3>3. ASSUME NEW i \in 1 .. Len(ran') PROVE ran'[i] < i
      BY <2>5, <2>8, <3>1, <3>2
    <3> QED
      BY <3>3
  <2> QED
    BY <1>1, <2>4, <2>7, <2>9 DEF GInv
<1> QED
  BY <1>2, <1>3

LEMMA GrowthHolds == GInv /\ [EngineNext]_<<vars, engineVars>> => GInv'
<1> SUFFICES ASSUME GInv, [EngineNext]_<<vars, engineVars>> PROVE GInv'
  OBVIOUS
<1>1. EInv'
  BY EngineHolds DEF GInv
<1>2. CASE Encrypt
  BY <1>2, EncryptGrows
<1>3. CASE RunLayer
  BY <1>3, LayerGrows
<1>4. CASE NextStage \/ Keys \/ StageDone
  BY <1>1, <1>4, GrowthStands DEF NextStage, Keys, StageFails, StageDone, loopVars, dataVars
<1>5. CASE UNCHANGED engineVars
  BY <1>1, <1>5, GrowthStands DEF engineVars, loopVars, dataVars
<1> QED
  BY <1>2, <1>3, <1>4, <1>5 DEF EngineNext

\* A model of eight layers or more (those of content_store.go have 22, 32 and 40) leaves
\* 255 of every byte that was not zero, for any text, allocation and number of slots,
\* although a stage may fail, as long as no more than MaxDoublings layers were run; and
\* before the first layer the text is there unchanged (he_engine.go ExecuteLayer,
\* encryptor.go DecryptOutput).
THEOREM LettersSaturate ==
  ASSUME TotalLayers >= 8
  PROVE  EngineSpec => []EveryLetterSaturates
<1>1. GInv => EveryLetterSaturates
  <2> SUFFICES ASSUME GInv, activations # <<>>, NEW i \in 1 .. Slots
               PROVE  /\ ran = <<>> => DecryptOutput(activations)[i] = ByteIn(text, i)
                      /\ PipelineEnded /\ ByteIn(text, i) # 0 =>
                           DecryptOutput(activations)[i] = 255
    BY DEF EveryLetterSaturates, ByteIn
  <2>1. PICK v \in [1 .. Slots -> Int] : activations = MarshalCiphertext(v) /\ Grown(v)
    BY DEF GInv
  <2>2. DecryptOutput(activations)[i] = Bounded(Round(v[i]), 0, 255)
    BY <2>1, Decodes DEF DecryptOutput
  <2>3. ASSUME ran = <<>>
        PROVE  DecryptOutput(activations)[i] = ByteIn(text, i)
    <3>1. PICK n \in Noise : v[i] = ByteIn(text, i) * Unit + n
      BY <2>1, <2>3 DEF Grown
    <3>2. ByteIn(text, i) \in 0 .. 255
      BY BytesOfText DEF GInv, EInv, EngineTypes
    <3>3. PICK byte \in 0 .. 255 : byte = ByteIn(text, i)
      BY <3>2
    <3>4. Bounded(Round(byte * Unit + n), 0, 255) = byte
      BY Rounds
    <3>5. v[i] = byte * Unit + n
      BY <3>1, <3>3
    <3> QED
      BY <2>2, <3>3, <3>4, <3>5, Zenon
  <2>4. ASSUME PipelineEnded, ByteIn(text, i) # 0
        PROVE  DecryptOutput(activations)[i] = 255
    <3>1. ran \in Seq(0 .. TotalLayers) /\ RanUpTo(TotalLayers)
      BY <2>4, AllRanAtTheEnd DEF GInv, EInv, EngineTypes
    <3>2. Len(ran) \in Nat /\ Len(ran) \in 1 .. Len(ran) /\ ran[Len(ran)] = TotalLayers
      BY <3>1, Elements DEF RanUpTo
    <3>3. Len(ran) > TotalLayers
      BY <3>2 DEF GInv
    <3>4. Len(ran) >= 9
      BY <3>2, <3>3, LayersAssumption
    <3>5. v[i] >= 256 * Unit
      <4>1. v[i] >= Reached(Len(ran))
        BY <2>1, <2>4 DEF Grown
      <4>2. Reached(Len(ran)) = 256 * Unit
        BY <3>2, <3>4 DEF Reached
      <4> QED
        BY <4>1, <4>2
    <3> QED
      BY <2>2, <3>5, Rounds
  <2> QED
    BY <2>3, <2>4
<1> QED
  BY <1>1, GrowthStarts, GrowthHolds, PTL DEF EngineSpec

-----------------------------------------------------------------------------
\* Induction over the numbers, for a set of them: what holds of 0, and of n + 1 if it
\* holds of n.
LEMMA SetInduction ==
  ASSUME NEW S, 0 \in S, \A n \in Nat : n \in S => n + 1 \in S
  PROVE  Nat \subseteq S
<1> DEFINE Rest == Nat \ S
           Less == {ss \in Nat \X Nat : ss[1] < ss[2]}
<1> SUFFICES ASSUME Rest # {} PROVE FALSE
  OBVIOUS
<1>1. PICK x \in Rest : \A y \in Rest : ~ (<<y, x>> \in Less)
  <2>1. Rest \subseteq Nat
    OBVIOUS
  <2>2. IsWellFoundedOn(Less, Nat)
    BY NatLessThanWellFounded DEF OpToRel
  <2> HIDE DEF Rest, Less
  <2> QED
    BY <2>1, <2>2, WFMin
<1>2. x # 0 /\ x - 1 \in Nat /\ <<x - 1, x>> \in Less
  OBVIOUS
<1>3. x - 1 \in S
  BY <1>1, <1>2
<1> QED
  BY <1>2, <1>3

\* Fields of one number follow each other in pairs, the length and the number.
Pairs(s, k) == [j \in 1 .. 2 * k |-> IF j % 2 = 1 THEN s[(j + 1) \div 2][1] ELSE s[j \div 2][2]]

LEMMA PairsFollow ==
  ASSUME NEW s \in Seq(Seq(Int)), \A i \in 1 .. Len(s) : Len(s[i]) = 2
  PROVE  FlattenSeq(s) = Pairs(s, Len(s))
<1> DEFINE n == Len(s)
           flatten[i \in 1 .. Len(s)] == IF i = 1 THEN s[i] ELSE flatten[i - 1] \o s[i]
           Flatten(g) == g = [i \in 1 .. Len(s) |-> IF i = 1 THEN s[i] ELSE g[i - 1] \o s[i]]
<1>1. n \in Nat /\ \A i \in 1 .. n : s[i] \in Seq(Int) /\ Len(s[i]) = 2
  OBVIOUS
<1>2. CASE n = 0
  BY <1>2 DEF FlattenSeq, Pairs
<1>3. CASE n # 0
  <2>1. FlattenSeq(s) = flatten[n]
    BY <1>3 DEF FlattenSeq
  <2>2. flatten = CHOOSE g : Flatten(g)
    OBVIOUS
  <2>3. ASSUME NEW i \in 1 .. n
        PROVE  Pairs(s, i) = IF i = 1 THEN s[i] ELSE Pairs(s, i - 1) \o s[i]
    <3>1. /\ s[i] \in Seq(Int) /\ Len(s[i]) = 2
          /\ s[i] = [j \in 1 .. 2 |-> s[i][j]]
      <4>1. \A x \in Seq(Int) : Len(x) = 2 => x = [j \in 1 .. 2 |-> x[j]]
        OBVIOUS
      <4> QED
        BY <1>1, <4>1
    <3>2. \A k \in Nat : Pairs(s, k) = [j \in 1 .. 2 * k |-> Pairs(s, k)[j]] /\ Len(Pairs(s, k)) = 2 * k
      BY DEF Pairs
    <3>3. CASE i = 1
      <4>1. Pairs(s, 1) = [j \in 1 .. 2 |-> IF j % 2 = 1 THEN s[(j + 1) \div 2][1] ELSE s[j \div 2][2]]
        BY DEF Pairs
      <4>2. /\ 1 % 2 = 1 /\ (1 + 1) \div 2 = 1 /\ 2 % 2 = 0 /\ 2 \div 2 = 1
            /\ \A j \in 1 .. 2 : j = 1 \/ j = 2
        OBVIOUS
      <4>3. \A j \in 1 .. 2 : Pairs(s, 1)[j] = s[1][j]
        BY <4>1, <4>2
      <4>4. s[1] = [j \in 1 .. 2 |-> s[1][j]]
        BY <3>1, <3>3
      <4> QED
        BY <3>3, <4>1, <4>3, <4>4
    <3>4. CASE i # 1
      <4> DEFINE w == Pairs(s, i - 1)
      <4>1. i - 1 \in Nat /\ 2 * (i - 1) + 2 = 2 * i
        BY <1>1
      <4>2. w \in Seq(Int) /\ Len(w) = 2 * (i - 1)
        <5>1. ASSUME NEW j \in 1 .. 2 * (i - 1)
              PROVE  (IF j % 2 = 1 THEN s[(j + 1) \div 2][1] ELSE s[j \div 2][2]) \in Int
          <6>1. /\ j % 2 = 1 => (j + 1) \div 2 \in 1 .. n
                /\ j % 2 # 1 => j \div 2 \in 1 .. n
            BY <1>1, <4>1
          <6>2. \A k \in 1 .. n : s[k][1] \in Int /\ s[k][2] \in Int
            BY <1>1
          <6> QED
            BY <6>1, <6>2
        <5> QED
          BY <4>1, <5>1 DEF Pairs
      <4>3. w \o s[i] = [j \in 1 .. 2 * i |-> IF j <= 2 * (i - 1) THEN w[j] ELSE s[i][j - 2 * (i - 1)]]
        <5> DEFINE y == s[i]
                   c == w \o y
        <5>1. y \in Seq(Int) /\ Len(y) = 2
          BY <3>1
        <5> HIDE DEF w, y
        <5>2. /\ c \in Seq(Int) /\ Len(c) = Len(w) + Len(y)
              /\ \A j \in 1 .. Len(w) + Len(y) :
                    c[j] = IF j <= Len(w) THEN w[j] ELSE y[j - Len(w)]
          BY <4>2, <5>1, ConcatProperties
        <5> HIDE DEF c
        <5>3. c = [j \in 1 .. Len(c) |-> c[j]]
          BY <5>2
        <5>4. Len(c) = 2 * i
          BY <4>1, <4>2, <5>1, <5>2
        <5>5. \A j \in 1 .. 2 * i :
                 c[j] = IF j <= 2 * (i - 1) THEN w[j] ELSE y[j - 2 * (i - 1)]
          BY <4>2, <5>2, <5>4
        <5>6. c = [j \in 1 .. 2 * i |-> IF j <= 2 * (i - 1) THEN w[j] ELSE y[j - 2 * (i - 1)]]
          BY <5>3, <5>4, <5>5
        <5> QED
          BY <5>6 DEF c, y
      <4>4. ASSUME NEW j \in 1 .. 2 * i
            PROVE  Pairs(s, i)[j] = IF j <= 2 * (i - 1) THEN w[j] ELSE s[i][j - 2 * (i - 1)]
        <5>1. Pairs(s, i)[j] = IF j % 2 = 1 THEN s[(j + 1) \div 2][1] ELSE s[j \div 2][2]
          BY DEF Pairs
        <5>2. CASE j <= 2 * (i - 1)
          BY <4>1, <5>1, <5>2 DEF Pairs
        <5>3. CASE j = 2 * i - 1
          <6>1. j % 2 = 1 /\ (j + 1) \div 2 = i /\ j - 2 * (i - 1) = 1 /\ ~ (j <= 2 * (i - 1))
            BY <1>1, <5>3
          <6> QED
            BY <5>1, <6>1
        <5>4. CASE j = 2 * i
          <6>1. j % 2 # 1 /\ j \div 2 = i /\ j - 2 * (i - 1) = 2 /\ ~ (j <= 2 * (i - 1))
            BY <1>1, <5>4
          <6> QED
            BY <5>1, <6>1
        <5>5. j <= 2 * (i - 1) \/ j = 2 * i - 1 \/ j = 2 * i
          BY <1>1
        <5> QED
          BY <5>2, <5>3, <5>4, <5>5
      <4>5. i \in Nat /\ Pairs(s, i) = [j \in 1 .. 2 * i |-> Pairs(s, i)[j]]
        BY <1>1, <3>2
      <4> HIDE DEF w
      <4>6. Pairs(s, i) = w \o s[i]
        BY <4>3, <4>4, <4>5
      <4> QED
        BY <3>4, <4>6 DEF w
    <3> QED
      BY <3>3, <3>4
  <2>4. Flatten([k \in 1 .. n |-> Pairs(s, k)])
    <3> DEFINE g == [k \in 1 .. Len(s) |-> Pairs(s, k)]
    <3>1. ASSUME NEW i \in 1 .. n
          PROVE  g[i] = IF i = 1 THEN s[i] ELSE g[i - 1] \o s[i]
      <4>1. i # 1 => i - 1 \in 1 .. n
        BY <1>1
      <4> QED
        BY <2>3, <4>1
    <3>2. g = [i \in 1 .. Len(s) |-> g[i]]
      OBVIOUS
    <3> HIDE DEF g
    <3>3. Flatten(g)
      BY <3>1, <3>2
    <3> QED
      BY <3>3 DEF g
  <2> HIDE DEF flatten
  <2>5. Flatten(flatten)
    <3> HIDE DEF Flatten
    <3> QED
      BY <2>2, <2>4, Zenon
  <2>6. ASSUME NEW i \in 1 .. n
        PROVE  flatten[i] = IF i = 1 THEN s[i] ELSE flatten[i - 1] \o s[i]
    BY <2>5
  <2> HIDE DEF Flatten
  <2> DEFINE Good == {k \in Nat : k \in 1 .. n => flatten[k] = Pairs(s, k)}
  <2>7. 0 \in Good
    OBVIOUS
  <2>8. ASSUME NEW k \in Nat, k \in Good PROVE k + 1 \in Good
    <3>1. SUFFICES ASSUME k + 1 \in 1 .. n PROVE flatten[k + 1] = Pairs(s, k + 1)
      OBVIOUS
    <3>2. (k + 1) - 1 = k /\ (k + 1 # 1 => k \in 1 .. n)
      BY <1>1, <3>1
    <3>3. /\ flatten[k + 1] = IF k + 1 = 1 THEN s[k + 1] ELSE flatten[k] \o s[k + 1]
          /\ Pairs(s, k + 1) = IF k + 1 = 1 THEN s[k + 1] ELSE Pairs(s, k) \o s[k + 1]
      BY <2>3, <2>6, <3>1, <3>2, Zenon
    <3>4. k + 1 # 1 => flatten[k] = Pairs(s, k)
      BY <2>8, <3>2
    <3> HIDE DEF Good
    <3> QED
      BY <3>3, <3>4, Zenon
  <2>9. n \in Good
    <3> HIDE DEF Good
    <3> QED
      BY <1>1, <2>7, <2>8, SetInduction
  <2> QED
    BY <1>1, <1>3, <2>1, <2>9
<1> QED
  BY <1>2, <1>3

LEMMA GaloisIsInt == \A i \in Nat : GaloisElement(i) \in Int
<1>1. Slots \in Nat \ {0}
  BY SlotsAssumption
<1>2. \A i \in Nat : i % Slots \in Nat
  BY <1>1
<1>3. \A k \in Nat : 5 ^ k \in Int
  OBVIOUS
<1>4. \A x \in Int : x % (4 * Slots) \in Int
  BY <1>1
<1> QED
  BY <1>2, <1>3, <1>4 DEF GaloisElement

\* The encoding of the keys is a sequence of fields of one number, and the count of
\* the galois keys.
KeysEncoded == MarshalKeys(GenerateEvaluationKeys)

LEMMA HeadLaidOut ==
  ASSUME NEW a \in Seq(Int), NEW b \in Seq(Int), NEW c \in Int, Len(a) = 2, Len(b) = 2
  PROVE  /\ a \o b \o <<c>> \in Seq(Int) /\ Len(a \o b \o <<c>>) = 5
         /\ (a \o b \o <<c>>)[1] = a[1] /\ (a \o b \o <<c>>)[2] = a[2]
         /\ (a \o b \o <<c>>)[3] = b[1] /\ (a \o b \o <<c>>)[4] = b[2]
         /\ (a \o b \o <<c>>)[5] = c
<1> DEFINE two == a \o b
<1>1. /\ two \in Seq(Int) /\ Len(two) = Len(a) + Len(b)
      /\ \A i \in 1 .. Len(a) + Len(b) : two[i] = IF i <= Len(a) THEN a[i] ELSE b[i - Len(a)]
  BY ConcatProperties
<1> HIDE DEF two
<1>2. Len(two) = 4 /\ \A i \in 1 .. 2 + 2 : two[i] = IF i <= 2 THEN a[i] ELSE b[i - 2]
  BY <1>1
<1>3. two[1] = a[1] /\ two[2] = a[2] /\ two[3] = b[1] /\ two[4] = b[2]
  BY <1>2
<1>4. a \o b \o <<c>> = Append(two, c)
  BY <1>1 DEF two
<1>5. /\ Append(two, c) \in Seq(Int) /\ Len(Append(two, c)) = Len(two) + 1
      /\ \A i \in 1 .. Len(two) : Append(two, c)[i] = two[i]
      /\ Append(two, c)[Len(two) + 1] = c
  <2>1. two \in Seq(Int)
    BY <1>1
  <2> QED
    BY <2>1
<1>6. \A i \in {1, 2, 3, 4} : i \in 1 .. Len(two)
  BY <1>2
<1> QED
  BY <1>2, <1>3, <1>4, <1>5, <1>6

LEMMA KeysLaidOut ==
  /\ KeysEncoded \in Seq(Int) /\ Len(KeysEncoded) = 2 * Slots + 3
  /\ KeysEncoded[1] = 1 /\ KeysEncoded[2] = 2 * Slots
  /\ KeysEncoded[3] = 1 /\ KeysEncoded[4] = 0 /\ KeysEncoded[5] = Slots - 1
  /\ \A i \in 1 .. Slots - 1 :
        /\ KeysEncoded[2 * i + 4] = 1
        /\ KeysEncoded[2 * i + 5] = GaloisElement(i)
<1>1. Slots \in Nat \ {0}
  BY SlotsAssumption
<1> DEFINE G == GenerateEvaluationKeys
           fields == [i \in 1 .. Slots - 1 |-> Field(<<GaloisElement(i)>>)]
           head == Field(Params) \o Field(<<0>>) \o <<Slots - 1>>
<1>2. /\ G.params = Params /\ G.relin = <<0>>
      /\ G.galois = [i \in 1 .. Slots - 1 |-> <<GaloisElement(i)>>] /\ Len(G.galois) = Slots - 1
  <2>1. Len(Rotations) = Slots - 1 /\ \A i \in 1 .. Slots - 1 : Rotations[i] = i
    BY <1>1 DEF Rotations
  <2>2. G.galois = [i \in 1 .. Slots - 1 |-> <<GaloisElement(i)>>]
    BY <2>1 DEF GenerateEvaluationKeys
  <2> QED
    BY <1>1, <2>2 DEF GenerateEvaluationKeys
<1>3. \A i \in Nat : GaloisElement(i) \in Int
  BY GaloisIsInt
<1>4. \A x \in Int :
         /\ Field(<<x>>) \in Seq(Int) /\ Len(Field(<<x>>)) = 2
         /\ Field(<<x>>)[1] = 1 /\ Field(<<x>>)[2] = x
  BY DEF Field
<1>5. /\ fields \in Seq(Seq(Int)) /\ Len(fields) = Slots - 1
      /\ \A i \in 1 .. Slots - 1 :
            /\ fields[i] \in Seq(Int) /\ Len(fields[i]) = 2
            /\ fields[i][1] = 1 /\ fields[i][2] = GaloisElement(i)
  BY <1>1, <1>3, <1>4
<1>6. KeysEncoded = head \o FlattenSeq(fields)
  <2>1. \A i \in 1 .. Slots - 1 : G.galois[i] = <<GaloisElement(i)>>
    BY <1>2
  <2>2. [i \in 1 .. Len(G.galois) |-> Field(G.galois[i])] = fields
    BY <1>2, <2>1
  <2> HIDE DEF G, fields
  <2> QED
    BY <1>2, <2>2 DEF KeysEncoded, MarshalKeys, G
<1>7. /\ FlattenSeq(fields) \in Seq(Int) /\ Len(FlattenSeq(fields)) = 2 * (Slots - 1)
      /\ \A i \in 1 .. Slots - 1 :
            /\ FlattenSeq(fields)[2 * i - 1] = 1
            /\ FlattenSeq(fields)[2 * i] = GaloisElement(i)
  <2> DEFINE k == Slots - 1
             w == Pairs(fields, k)
  <2> HIDE DEF fields
  <2>1. FlattenSeq(fields) = w
    BY <1>5, PairsFollow
  <2>2. w = [j \in 1 .. 2 * k |-> IF j % 2 = 1 THEN fields[(j + 1) \div 2][1]
                                            ELSE fields[j \div 2][2]]
    BY DEF Pairs
  <2>3. k \in Nat /\ \A i \in 1 .. k : fields[i][1] = 1 /\ fields[i][2] = GaloisElement(i)
    <3>1. Slots - 1 \in Nat
      BY <1>1
    <3>2. ASSUME NEW i \in 1 .. Slots - 1
          PROVE  fields[i][1] = 1 /\ fields[i][2] = GaloisElement(i)
      BY <1>5
    <3> QED
      BY <3>1, <3>2
  <2> HIDE DEF w, k
  <2>4. ASSUME NEW j \in 1 .. 2 * k PROVE w[j] \in Int
    <3>1. /\ j % 2 = 1 => (j + 1) \div 2 \in 1 .. k
          /\ j % 2 # 1 => j \div 2 \in 1 .. k
      BY <2>3
    <3>2. \A i \in 1 .. k : GaloisElement(i) \in Int
      BY <2>3, GaloisIsInt
    <3> QED
      BY <2>2, <2>3, <3>1, <3>2
  <2>5. w \in [1 .. 2 * k -> Int]
    BY <2>2, <2>4
  <2>6. w \in Seq(Int) /\ Len(w) = 2 * k
    BY <2>3, <2>5
  <2>7. ASSUME NEW i \in 1 .. k PROVE w[2 * i - 1] = 1 /\ w[2 * i] = GaloisElement(i)
    <3>1. /\ 2 * i - 1 \in 1 .. 2 * k /\ (2 * i - 1) % 2 = 1 /\ (2 * i - 1 + 1) \div 2 = i
          /\ 2 * i \in 1 .. 2 * k /\ (2 * i) % 2 # 1 /\ (2 * i) \div 2 = i
      BY <2>3
    <3> QED
      BY <2>2, <2>3, <3>1
  <2> QED
    BY <2>1, <2>6, <2>7 DEF k
<1>8. /\ head \in Seq(Int) /\ Len(head) = 5 /\ head[1] = 1 /\ head[2] = 2 * Slots
      /\ head[3] = 1 /\ head[4] = 0 /\ head[5] = Slots - 1
  <2>1. /\ Field(Params) \in Seq(Int) /\ Len(Field(Params)) = 2
        /\ Field(Params)[1] = 1 /\ Field(Params)[2] = 2 * Slots
    BY <1>1, <1>4 DEF Params
  <2>2. /\ Field(<<0>>) \in Seq(Int) /\ Len(Field(<<0>>)) = 2
        /\ Field(<<0>>)[1] = 1 /\ Field(<<0>>)[2] = 0
    BY <1>4
  <2> QED
    BY <1>1, <2>1, <2>2, HeadLaidOut
<1>9. /\ KeysEncoded \in Seq(Int) /\ Len(KeysEncoded) = 5 + 2 * (Slots - 1)
      /\ \A j \in 1 .. 5 + 2 * (Slots - 1) :
            KeysEncoded[j] = IF j <= 5 THEN head[j] ELSE FlattenSeq(fields)[j - 5]
  <2> DEFINE tail == FlattenSeq(fields)
  <2>1. /\ head \o tail \in Seq(Int) /\ Len(head \o tail) = Len(head) + Len(tail)
        /\ \A j \in 1 .. Len(head) + Len(tail) :
              (head \o tail)[j] = IF j <= Len(head) THEN head[j] ELSE tail[j - Len(head)]
    <3> HIDE DEF head, tail
    <3> QED
      BY <1>7, <1>8, ConcatProperties DEF tail
  <2> HIDE DEF head, fields
  <2> QED
    BY <1>6, <1>7, <1>8, <2>1
<1> HIDE DEF head, fields
<1>10. ASSUME NEW i \in 1 .. Slots - 1
       PROVE  KeysEncoded[2 * i + 4] = 1 /\ KeysEncoded[2 * i + 5] = GaloisElement(i)
  <2>1. /\ 2 * i + 4 \in 1 .. 5 + 2 * (Slots - 1) /\ 2 * i + 5 \in 1 .. 5 + 2 * (Slots - 1)
        /\ ~ (2 * i + 4 <= 5) /\ ~ (2 * i + 5 <= 5)
        /\ (2 * i + 4) - 5 = 2 * i - 1 /\ (2 * i + 5) - 5 = 2 * i
    BY <1>1
  <2> QED
    BY <1>7, <1>9, <2>1
<1>11. \A j \in {1, 2, 3, 4, 5} : j \in 1 .. 5 + 2 * (Slots - 1) /\ j <= 5
  BY <1>1
<1> QED
  BY <1>1, <1>8, <1>9, <1>10, <1>11

\* A field of one number is read as a whole or refused.
LEMMA FieldRead ==
  ASSUME NEW data \in Seq(Int), NEW at \in Nat \ {0}, at <= Len(data) => data[at] = 1
  PROVE  IF at < Len(data)
         THEN /\ FieldAt(data, at) = [blob |-> <<data[at + 1]>>, next |-> at + 2]
              /\ FieldAt(data, at) # Refused
         ELSE FieldAt(data, at) = Refused
<1>1. Len(data) \in Nat
  OBVIOUS
<1>2. CASE ~ (at < Len(data))
  <2>1. at > Len(data) \/ at + data[at] > Len(data)
    BY <1>1, <1>2
  <2> QED
    BY <1>2, <2>1 DEF FieldAt
<1>3. CASE at < Len(data)
  <2>1. data[at] = 1 /\ ~ (at > Len(data) \/ at + data[at] > Len(data))
    BY <1>1, <1>3
  <2>2. FieldAt(data, at) = [blob |-> SubSeq(data, at + 1, at + 1), next |-> at + 1 + 1]
    BY <2>1 DEF FieldAt
  <2>3. data[at + 1] \in Int /\ <<data[at + 1]>> \in Seq(Int)
    BY <1>1, <1>3
  <2>4. SubSeq(data, at + 1, at + 1) = <<data[at + 1]>>
    <3> DEFINE from == at + 1
               part == SubSeq(data, from, from)
    <3>1. from \in 1 .. Len(data) /\ from - from + 1 = 1 /\ from + 1 - 1 = from
      BY <1>1, <1>3
    <3> HIDE DEF from
    <3>2. part \in Seq(Int) /\ Len(part) = 1 /\ part[1] = data[from]
      BY <3>1
    <3> HIDE DEF part
    <3>3. part = <<data[from]>>
      BY <3>2
    <3> QED
      BY <3>3 DEF part, from
  <2>5. [blob |-> <<data[at + 1]>>, next |-> at + 2] \in DecoderAnswers
    BY <2>3 DEF DecoderAnswers
  <2>6. FieldAt(data, at) = [blob |-> <<data[at + 1]>>, next |-> at + 2]
    <3>1. at + 1 + 1 = at + 2
      OBVIOUS
    <3> QED
      BY <2>2, <2>4, <3>1, Zenon
  <2>7. FieldAt(data, at) # Refused
    BY <2>5, <2>6, RefusedAssumption
  <2> QED
    BY <1>3, <2>6, <2>7
<1> QED
  BY <1>2, <1>3

\* What the loop over the galois keys has read after i times around, and at the end:
\* all of them, or it has run out of data.
KeysRead(i) == [keys |-> [j \in 1 .. i |-> <<GaloisElement(j)>>], next |-> 2 * i + 6]

LEMMA KeysReadTyped ==
  ASSUME NEW i \in Nat
  PROVE  /\ KeysRead(i) # Refused /\ KeysRead(i).next = 2 * i + 6
         /\ KeysRead(i).keys \in Seq(Seq(Int))
         /\ KeysRead(i + 1).keys = Append(KeysRead(i).keys, <<GaloisElement(i + 1)>>)
<1> DEFINE ks == [j \in 1 .. i |-> <<GaloisElement(j)>>]
<1>1. \A j \in Nat : <<GaloisElement(j)>> \in Seq(Int)
  BY GaloisIsInt
<1>2. ks \in Seq(Seq(Int)) /\ Len(ks) = i
  BY <1>1
<1>3. [j \in 1 .. i + 1 |-> <<GaloisElement(j)>>] = Append(ks, <<GaloisElement(i + 1)>>)
  <2> DEFINE x == <<GaloisElement(i + 1)>>
             more == [j \in 1 .. i + 1 |-> <<GaloisElement(j)>>]
  <2>1. more[i + 1] = x /\ \A j \in 1 .. i : more[j] = ks[j]
    OBVIOUS
  <2>2. more \in Seq(Seq(Int)) /\ Len(more) = i + 1 /\ x \in Seq(Int)
    BY <1>1
  <2> HIDE DEF more, ks, x
  <2>3. more = Append(ks, x)
    BY <1>2, <2>1, <2>2
  <2> QED
    BY <2>3 DEF more, x
<1>4. KeysRead(i) = [keys |-> ks, next |-> 2 * i + 6]
  BY DEF KeysRead
<1>5. KeysRead(i) # Refused
  <2>1. [keys |-> ks, next |-> 2 * i + 6] \in DecoderAnswers
    BY <1>2 DEF DecoderAnswers
  <2> QED
    BY <1>4, <2>1, RefusedAssumption
<1> QED
  BY <1>2, <1>3, <1>4, <1>5 DEF KeysRead

LEMMA GaloisKeysRead ==
  ASSUME NEW data \in Seq(Int), NEW count \in Nat,
         \A i \in 1 .. count :
            /\ Len(data) >= 2 * i + 4 => data[2 * i + 4] = 1
            /\ Len(data) >= 2 * i + 5 => data[2 * i + 5] = GaloisElement(i)
  PROVE  ReadGaloisKeys(data, 6, count) =
            IF count = 0 \/ Len(data) >= 2 * count + 5 THEN KeysRead(count) ELSE Refused
<1> DEFINE n == Len(data)
           sofar(i) == IF i = 0 \/ n >= 2 * i + 5 THEN KeysRead(i) ELSE Refused
           read[i \in 0 .. count] == IF i = 0 THEN [keys |-> <<>>, next |-> 6]
                                              ELSE ReadGaloisKey(data, read[i - 1])
           Read(g) == g = [i \in 0 .. count |-> IF i = 0 THEN [keys |-> <<>>, next |-> 6]
                                                ELSE ReadGaloisKey(data, g[i - 1])]
<1>1. n \in Nat
  OBVIOUS
<1>2. ReadGaloisKeys(data, 6, count) = read[count]
  BY DEF ReadGaloisKeys
<1>3. read = CHOOSE g : Read(g)
  OBVIOUS
<1>4. sofar(0) = [keys |-> <<>>, next |-> 6]
  BY DEF KeysRead
<1>5. ASSUME NEW i \in Nat, i + 1 \in 1 .. count
      PROVE  sofar(i + 1) = ReadGaloisKey(data, sofar(i))
  <2> DEFINE at == 2 * i + 6
  <2>1. /\ at \in Nat \ {0} /\ at = 2 * (i + 1) + 4 /\ at + 1 = 2 * (i + 1) + 5
        /\ at <= n => data[at] = 1
        /\ at + 1 <= n => data[at + 1] = GaloisElement(i + 1)
    <3>1. 2 * (i + 1) + 4 = at /\ 2 * (i + 1) + 5 = at + 1 /\ at \in Nat \ {0}
      OBVIOUS
    <3>2. /\ n >= 2 * (i + 1) + 4 => data[2 * (i + 1) + 4] = 1
          /\ n >= 2 * (i + 1) + 5 => data[2 * (i + 1) + 5] = GaloisElement(i + 1)
      BY <1>5
    <3> HIDE DEF n, at
    <3>3. /\ at <= n => n >= at
          /\ at + 1 <= n => n >= at + 1
      BY <1>1, <3>1
    <3> QED
      BY <3>1, <3>2, <3>3
  <2>2. CASE sofar(i) = Refused
    <3>1. ~ (i = 0 \/ n >= 2 * i + 5)
      BY <2>2, KeysReadTyped
    <3>2. ~ (i + 1 = 0 \/ n >= 2 * (i + 1) + 5)
      BY <1>1, <3>1
    <3> QED
      BY <2>2, <3>2 DEF ReadGaloisKey
  <2>3. CASE sofar(i) = KeysRead(i) /\ sofar(i) # Refused
    <3>1. /\ KeysRead(i).next = at /\ KeysRead(i).keys \in Seq(Seq(Int))
          /\ KeysRead(i + 1).keys = Append(KeysRead(i).keys, <<GaloisElement(i + 1)>>)
      BY KeysReadTyped
    <3>2. IF at < n THEN /\ FieldAt(data, at) = [blob |-> <<data[at + 1]>>, next |-> at + 2]
                         /\ FieldAt(data, at) # Refused
                    ELSE FieldAt(data, at) = Refused
      BY <2>1, FieldRead
    <3>3. ReadGaloisKey(data, sofar(i)) =
             IF FieldAt(data, at) = Refused THEN Refused
             ELSE [keys |-> Append(KeysRead(i).keys, FieldAt(data, at).blob),
                   next |-> FieldAt(data, at).next]
      BY <2>3, <3>1 DEF ReadGaloisKey
    <3>4. CASE at < n
      <4>1. n >= 2 * (i + 1) + 5 /\ at + 1 <= n
        BY <1>1, <3>4
      <4>2. sofar(i + 1) = KeysRead(i + 1)
        BY <4>1
      <4>3. KeysRead(i + 1) = [keys |-> KeysRead(i + 1).keys, next |-> at + 2]
        BY DEF KeysRead
      <4>4. data[at + 1] = GaloisElement(i + 1)
        BY <2>1, <4>1
      <4>5. ReadGaloisKey(data, sofar(i)) =
              [keys |-> Append(KeysRead(i).keys, <<data[at + 1]>>), next |-> at + 2]
        <5> DEFINE field == FieldAt(data, at)
        <5>1. field # Refused /\ field = [blob |-> <<data[at + 1]>>, next |-> at + 2]
          BY <3>2, <3>4
        <5>2. ReadGaloisKey(data, sofar(i)) =
                [keys |-> Append(KeysRead(i).keys, field.blob), next |-> field.next]
          BY <3>3, <5>1
        <5> HIDE DEF n, at, sofar, field
        <5>3. field.blob = <<data[at + 1]>> /\ field.next = at + 2
          BY <5>1
        <5> QED
          BY <5>2, <5>3
      <4> HIDE DEF n, at, sofar
      <4> QED
        BY <3>1, <4>2, <4>3, <4>4, <4>5
    <3>5. CASE ~ (at < n)
      <4>1. ~ (i + 1 = 0 \/ n >= 2 * (i + 1) + 5)
        BY <1>1, <3>5
      <4>2. sofar(i + 1) = Refused
        BY <4>1
      <4> HIDE DEF n, at, sofar
      <4> QED
        BY <3>2, <3>3, <3>5, <4>2
    <3> QED
      BY <3>4, <3>5
  <2>4. sofar(i) = Refused \/ sofar(i) = KeysRead(i)
    OBVIOUS
  <2> HIDE DEF sofar
  <2> QED
    BY <2>2, <2>3, <2>4
<1>6. Read([i \in 0 .. count |-> sofar(i)])
  <2> DEFINE g == [i \in 0 .. count |-> sofar(i)]
  <2>1. ASSUME NEW i \in 0 .. count
        PROVE  g[i] = IF i = 0 THEN [keys |-> <<>>, next |-> 6]
                               ELSE ReadGaloisKey(data, g[i - 1])
    <3> HIDE DEF sofar
    <3>1. CASE i = 0
      BY <1>4, <3>1
    <3>2. CASE i # 0
      <4>1. i - 1 \in Nat /\ i - 1 \in 0 .. count /\ (i - 1) + 1 = i /\ i \in 1 .. count
        BY <3>2
      <4>2. sofar((i - 1) + 1) = ReadGaloisKey(data, sofar(i - 1))
        BY <1>5, <4>1
      <4> QED
        BY <3>2, <4>1, <4>2
    <3> QED
      BY <3>1, <3>2
  <2>2. g = [i \in 0 .. count |-> g[i]]
    OBVIOUS
  <2> HIDE DEF g
  <2>3. Read(g)
    BY <2>1, <2>2
  <2> QED
    BY <2>3 DEF g
<1> HIDE DEF read, sofar
<1>7. Read(read)
  <2> HIDE DEF Read
  <2> QED
    BY <1>3, <1>6, Zenon
<1>8. ASSUME NEW i \in 0 .. count
      PROVE  read[i] = IF i = 0 THEN [keys |-> <<>>, next |-> 6]
                                ELSE ReadGaloisKey(data, read[i - 1])
  BY <1>7
<1> HIDE DEF Read
<1> DEFINE Good == {k \in Nat : k \in 0 .. count => read[k] = sofar(k)}
<1>9. 0 \in Good
  BY <1>4, <1>8
<1>10. ASSUME NEW k \in Nat, k \in Good PROVE k + 1 \in Good
  <2>1. SUFFICES ASSUME k + 1 \in 0 .. count PROVE read[k + 1] = sofar(k + 1)
    OBVIOUS
  <2>2. k \in 0 .. count /\ k + 1 \in 1 .. count /\ k + 1 # 0 /\ (k + 1) - 1 = k
    BY <2>1
  <2>3. read[k] = sofar(k)
    BY <1>10, <2>2
  <2>4. read[k + 1] = ReadGaloisKey(data, read[k])
    BY <1>8, <2>1, <2>2
  <2>5. sofar(k + 1) = ReadGaloisKey(data, sofar(k))
    BY <1>5, <2>2
  <2> QED
    BY <2>3, <2>4, <2>5
<1>11. count \in Good
  <2> HIDE DEF Good
  <2> QED
    BY <1>9, <1>10, SetInduction
<1>12. read[count] = sofar(count)
  BY <1>11
<1> QED
  BY <1>2, <1>12 DEF sofar

\* Keys that are cut anywhere are refused; those that are not are read as they were,
\* whatever follows.
LEMMA KeysWholeOrRefused ==
  ASSUME NEW data \in Seq(Int),
         \A j \in 1 .. Len(data) : j <= Len(KeysEncoded) => data[j] = KeysEncoded[j]
  PROVE  UnmarshalKeys(data) = IF Len(data) < Len(KeysEncoded)
                               THEN Refused ELSE GenerateEvaluationKeys
<1> DEFINE n == Len(data)
           params == FieldAt(data, 1)
           relin == IF params = Refused THEN Refused ELSE FieldAt(data, params.next)
           galois == ReadGaloisKeys(data, relin.next + 1, data[relin.next])
<1>1. Slots \in Nat \ {0} /\ n \in Nat
  BY SlotsAssumption
<1>2. /\ n >= 1 => data[1] = 1
      /\ n >= 2 => data[2] = 2 * Slots
      /\ n >= 3 => data[3] = 1
      /\ n >= 4 => data[4] = 0
      /\ n >= 5 => data[5] = Slots - 1
      /\ Len(KeysEncoded) = 2 * Slots + 3
  <2>1. \A j \in 1 .. 5 : n >= j => data[j] = KeysEncoded[j]
    BY <1>1, KeysLaidOut
  <2> HIDE DEF n
  <2> QED
    BY <2>1, KeysLaidOut
<1>3. \A i \in 1 .. Slots - 1 :
         /\ n >= 2 * i + 4 => data[2 * i + 4] = 1
         /\ n >= 2 * i + 5 => data[2 * i + 5] = GaloisElement(i)
  <2> SUFFICES ASSUME NEW i \in 1 .. Slots - 1
               PROVE  /\ n >= 2 * i + 4 => data[2 * i + 4] = KeysEncoded[2 * i + 4]
                      /\ n >= 2 * i + 5 => data[2 * i + 5] = KeysEncoded[2 * i + 5]
    BY KeysLaidOut
  <2>1. /\ 2 * i + 4 \in Nat \ {0} /\ 2 * i + 4 <= 2 * Slots + 3
        /\ 2 * i + 5 \in Nat \ {0} /\ 2 * i + 5 <= 2 * Slots + 3
    BY <1>1
  <2>2. /\ n >= 2 * i + 4 => 2 * i + 4 \in 1 .. n
        /\ n >= 2 * i + 5 => 2 * i + 5 \in 1 .. n
    BY <1>1, <2>1
  <2> QED
    BY <1>2, <2>1, <2>2
<1>4. UnmarshalKeys(data) = IF relin = Refused \/ relin.next > n \/ galois = Refused
                            THEN Refused
                            ELSE [params |-> params.blob, relin |-> relin.blob,
                                  galois |-> galois.keys]
  BY DEF UnmarshalKeys
<1>5. IF n > 1 THEN params = [blob |-> <<2 * Slots>>, next |-> 3] /\ params # Refused
      ELSE params = Refused
  <2>1. IF 1 < n
        THEN params = [blob |-> <<data[1 + 1]>>, next |-> 1 + 2] /\ params # Refused
        ELSE params = Refused
    <3>1. 1 \in Nat \ {0} /\ (1 <= n => data[1] = 1)
      BY <1>1, <1>2
    <3> QED
      BY <3>1, FieldRead
  <2> HIDE DEF n, params
  <2> QED
    BY <1>1, <1>2, <2>1
<1>6. IF n > 3 THEN relin = [blob |-> <<0>>, next |-> 5] /\ relin # Refused
      ELSE relin = Refused
  <2> DEFINE field == FieldAt(data, 3)
  <2>1. IF 3 < n
        THEN field = [blob |-> <<data[3 + 1]>>, next |-> 3 + 2] /\ field # Refused
        ELSE field = Refused
    <3>1. 3 \in Nat \ {0} /\ (3 <= n => data[3] = 1)
      BY <1>1, <1>2
    <3> QED
      BY <3>1, FieldRead
  <2>2. relin = IF params = Refused THEN Refused ELSE FieldAt(data, params.next)
    OBVIOUS
  <2> HIDE DEF n, params, relin
  <2>3. CASE n > 1
    <3>1. relin = field
      BY <1>5, <2>2, <2>3
    <3> HIDE DEF field
    <3> QED
      BY <1>1, <1>2, <2>1, <3>1
  <2>4. CASE ~ (n > 1)
    BY <1>1, <1>5, <2>2, <2>4
  <2> QED
    BY <2>3, <2>4
<1>7. CASE n < 5
  <2> HIDE DEF n, params, relin, galois
  <2>1. relin = Refused \/ relin.next > n
    BY <1>1, <1>6, <1>7
  <2>2. n < Len(KeysEncoded)
    BY <1>1, <1>2, <1>7
  <2> QED
    BY <1>4, <2>1, <2>2 DEF n
<1>8. CASE n >= 5
  <2>1. galois = ReadGaloisKeys(data, relin.next + 1, data[relin.next])
    OBVIOUS
  <2> HIDE DEF n, params, relin, galois
  <2>2. relin # Refused /\ relin.next = 5 /\ relin.blob = <<0>> /\ params.blob = <<2 * Slots>>
    BY <1>1, <1>5, <1>6, <1>8
  <2>3. galois = ReadGaloisKeys(data, 6, Slots - 1)
    BY <1>2, <1>8, <2>1, <2>2
  <2>4. galois = IF Slots - 1 = 0 \/ n >= 2 * (Slots - 1) + 5 THEN KeysRead(Slots - 1) ELSE Refused
    <3> DEFINE count == Slots - 1
    <3>0. count \in Nat
      BY <1>1
    <3>1. ASSUME NEW i \in 1 .. count
          PROVE  /\ Len(data) >= 2 * i + 4 => data[2 * i + 4] = 1
                 /\ Len(data) >= 2 * i + 5 => data[2 * i + 5] = GaloisElement(i)
      BY <1>3 DEF n
    <3> HIDE DEF count
    <3>2. ReadGaloisKeys(data, 6, count) =
            IF count = 0 \/ Len(data) >= 2 * count + 5 THEN KeysRead(count) ELSE Refused
      BY <3>0, <3>1, GaloisKeysRead
    <3> QED
      BY <2>3, <3>2 DEF n, count
  <2>5. ~ (relin.next > n)
    BY <1>1, <1>8, <2>2
  <2>6. UnmarshalKeys(data) = IF galois = Refused THEN Refused
                              ELSE [params |-> <<2 * Slots>>, relin |-> <<0>>,
                                    galois |-> galois.keys]
    BY <1>4, <2>2, <2>5
  <2>7. CASE n < 2 * Slots + 3
    <3>1. galois = Refused
      BY <1>1, <1>8, <2>4, <2>7
    <3> QED
      BY <1>2, <2>6, <2>7, <3>1 DEF n
  <2>8. CASE ~ (n < 2 * Slots + 3)
    <3>1. galois = KeysRead(Slots - 1) /\ galois # Refused
      <4>1. Slots - 1 \in Nat /\ n >= 2 * (Slots - 1) + 5
        BY <1>1, <2>8
      <4>2. galois = KeysRead(Slots - 1)
        BY <2>4, <4>1
      <4>3. KeysRead(Slots - 1) # Refused
        BY <4>1, KeysReadTyped
      <4> QED
        BY <4>2, <4>3
    <3>2. galois.keys = [i \in 1 .. Slots - 1 |-> <<GaloisElement(i)>>]
      BY <3>1 DEF KeysRead
    <3>3. Len(Rotations) = Slots - 1 /\ \A i \in 1 .. Slots - 1 : Rotations[i] = i
      BY <1>1 DEF Rotations
    <3>4. GenerateEvaluationKeys =
            [params |-> <<2 * Slots>>, relin |-> <<0>>,
             galois |-> [i \in 1 .. Slots - 1 |-> <<GaloisElement(i)>>]]
      BY <3>3 DEF GenerateEvaluationKeys, Params
    <3> QED
      BY <1>2, <2>6, <2>8, <3>1, <3>2, <3>4 DEF n
  <2> QED
    BY <2>7, <2>8
<1> QED
  BY <1>1, <1>7, <1>8

\* The keys of all rotations are among those of the rotations to one side.
LEMMA KeysRotate ==
  ASSUME NEW steps \in Int
  PROVE  HasKeyFor(GenerateEvaluationKeys, steps)
<1>1. Slots \in Nat \ {0} /\ steps % Slots \in 0 .. Slots - 1
  BY SlotsAssumption
<1>2. CASE steps % Slots = 0
  <2>1. 5 ^ 0 = 1 /\ 1 % (4 * Slots) = 1
    BY <1>1
  <2> QED
    BY <1>2, <2>1 DEF HasKeyFor, GaloisElement
<1>3. CASE steps % Slots # 0
  <2> DEFINE i == steps % Slots
  <2>1. i \in 1 .. Slots - 1 /\ i % Slots = i
    BY <1>1, <1>3
  <2>2. GaloisElement(i) = GaloisElement(steps)
    BY <2>1 DEF GaloisElement
  <2>3. Len(Rotations) = Slots - 1 /\ Rotations[i] = i
    BY <1>1, <2>1 DEF Rotations
  <2>4. /\ Len(GenerateEvaluationKeys.galois) = Slots - 1
        /\ GenerateEvaluationKeys.galois[i] = <<GaloisElement(i)>>
    <3> HIDE DEF i
    <3> QED
      BY <1>1, <2>1, <2>3 DEF GenerateEvaluationKeys
  <2> HIDE DEF i
  <2> QED
    BY <2>1, <2>2, <2>4 DEF HasKeyFor
<1> QED
  BY <1>2, <1>3

\* A text is no encoding of keys: its first length is longer than a request.
LEMMA TextIsRefused ==
  ASSUME NEW data \in Seq(Int), Len(EncodeToString(data)) <= MaxRequestBytes
  PROVE  UnmarshalKeys(EncodeToString(data)) = Refused
<1> DEFINE n == 4 * ((Len(data) + 2) \div 3)
           t == EncodeToString(data)
<1>1. n \in Nat
  BY Z3
<1>2. t = [i \in 1 .. n |-> FourCharacters]
  BY DEF EncodeToString
<1> HIDE DEF n, t
<1>3. Len(t) = n /\ (n >= 1 => t[1] = 724249387)
  BY <1>1, <1>2 DEF FourCharacters
<1>4. n <= 4194304
  BY <1>3 DEF t, MaxRequestBytes
<1>5. 1 > Len(t) \/ 1 + t[1] > Len(t)
  BY <1>1, <1>3, <1>4
<1>6. FieldAt(t, 1) = Refused
  BY <1>5 DEF FieldAt
<1> QED
  BY <1>6 DEF UnmarshalKeys, t

\* No layer runs with other keys than the consumer's, for any number of slots: of what
\* the executor may pass on, a text is refused (eval_keys.go UnmarshalBinary) and keys are
\* read as they were written; and they serve rotations by any number of slots.
THEOREM KeysArriveInFull == EngineSpec => []KeysArriveWhole
<1> DEFINE Held == engine = "loop" => evalKeys = GenerateEvaluationKeys
<1>1. EngineInit => Held
  BY DEF EngineInit
<1>2. Held /\ [EngineNext]_<<vars, engineVars>> => Held'
  <2> SUFFICES ASSUME Held, [EngineNext]_<<vars, engineVars>>, engine' = "loop"
               PROVE  evalKeys' = GenerateEvaluationKeys
    OBVIOUS
  <2>1. CASE Keys
    <3>1. PICK data \in KeysReceived :
             UnmarshalKeys(data) # Refused /\ evalKeys' = UnmarshalKeys(data)
      BY <2>1 DEF Keys, StageFails
    <3>2. KeysEncoded \in Seq(Int) /\ Len(KeysEncoded) \in Nat
      BY KeysLaidOut, SlotsAssumption
    <3>3. data = KeysEncoded \/ (data = EncodeToString(KeysEncoded) /\ Len(data) <= MaxRequestBytes)
      BY <3>1 DEF KeysReceived, KeysEncoded
    <3>4. data = KeysEncoded
      BY <3>1, <3>2, <3>3, TextIsRefused
    <3> QED
      BY <3>1, <3>2, <3>4, KeysWholeOrRefused
  <2>2. CASE RunLayer
    BY <2>2 DEF RunLayer, StageFails
  <2>3. CASE UNCHANGED engineVars \/ Encrypt \/ NextStage \/ StageDone
    BY <2>3 DEF engineVars, dataVars, Encrypt, NextStage, StageDone
  <2> QED
    BY <2>1, <2>2, <2>3 DEF EngineNext
<1>3. Held => KeysArriveWhole
  <2>1. \A steps \in -Slots .. Slots : HasKeyFor(GenerateEvaluationKeys, steps)
    BY KeysRotate, SlotsAssumption
  <2> QED
    BY <2>1 DEF KeysArriveWhole
<1> QED
  BY <1>1, <1>2, <1>3, PTL DEF EngineSpec
=============================================================================
