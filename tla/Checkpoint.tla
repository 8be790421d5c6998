----------------------------- MODULE Checkpoint -----------------------------
(***************************************************************************)
(* CreateCheckpoint and VerifyCheckpoint (verification/verifier.go), a     *)
(* commitment to the weights of a range of layers.  A Merkle root is       *)
(* represented by what it commits to: SHA-256 is taken to be injective.    *)
(***************************************************************************)
EXTENDS Integers

CONSTANT NoWeights          \* the empty byte sequence

\* The positions of the layers of a range, its last one included.
Committed(range) == 0 .. range[2] - range[1]

\* weights[i] of a Go map: nothing, where there is no entry.
WeightsAt(weights, i) == IF i \in DOMAIN weights THEN weights[i] ELSE NoWeights

\* CreateCheckpoint does not sign.
CreateCheckpoint(range, weights) ==
    [range |-> range, signed |-> FALSE,
     root |-> [i \in Committed(range) |-> WeightsAt(weights, i)]]

VerifyCheckpoint(cp, weights) ==
    /\ cp.signed
    /\ Committed(cp.range) \subseteq DOMAIN weights
    /\ cp.root = [i \in Committed(cp.range) |-> weights[i]]

-----------------------------------------------------------------------------
Sign(cp) == [cp EXCEPT !.signed = TRUE]
=============================================================================
