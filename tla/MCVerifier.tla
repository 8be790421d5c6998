----------------------------- MODULE MCVerifier -----------------------------
(* Verifier with the hashes it compares by, and its symmetry for TLC. *)
EXTENDS ResultHash, Checkpoint, TLC

MCTokens == {-1, 0, 1, 10, 110}

VerifierSymmetry ==
    Permutations(Calls) \cup Permutations(Requests)
      \cup Permutations(Providers) \cup Permutations(Answers)
=============================================================================
