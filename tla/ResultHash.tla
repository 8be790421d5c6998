----------------------------- MODULE ResultHash -----------------------------
(***************************************************************************)
(* The text that verification/verifier.go hashes for a token sequence.     *)
(* SHA-256 is taken to be injective, so a digest is represented by what    *)
(* was hashed, a text by the sequence of its characters.  Module Verifier  *)
(* compares answers by equality; that this is what comparing their hashes  *)
(* does is HashSeparates.                                                  *)
(***************************************************************************)
EXTENDS Verifier, SequencesExt

CONSTANTS Tokens,           \* token IDs
          MaxTokens         \* bound: tokens of a result

ASSUME TokensAssumption == Tokens \subseteq Int /\ MaxTokens \in Nat

-----------------------------------------------------------------------------
\* A character: a digit, or one of these.
Minus == 10
Colon == 11

Digits(n) ==
    LET digits[k \in 0 .. n] == IF k < 10 THEN <<k>>
                                ELSE Append(digits[k \div 10], k % 10)
    IN  digits[n]

\* fmt's %d.
Decimal(t) == IF t < 0 THEN <<Minus>> \o Digits(-t) ELSE Digits(t)

\* Mutant: nothing between two tokens.
SeparatedNot(t) == Decimal(t)

Separated(t) == Decimal(t) \o <<Minus>>

\* AddResult and recordVerification.
ResultHash(tokens) == FlattenSeq([i \in 1 .. Len(tokens) |-> Separated(tokens[i])])

\* DeterministicHasher.HashResult, which puts the position in front.
HashResult(seed, tokens) ==
    Decimal(seed) \o <<Colon>>
      \o FlattenSeq([i \in 1 .. Len(tokens) |->
                       Decimal(i - 1) \o <<Colon>> \o Separated(tokens[i])])

VerifyDeterministic(seed, tokens, hash) == HashResult(seed, tokens) = hash

-----------------------------------------------------------------------------
TokenLists == UNION {[1 .. n -> Tokens] : n \in 0 .. MaxTokens}

\* Two results, of which the second is accepted for the first by its hash,
\* without a seed or with one.
Collisions ==
    {st \in TokenLists \X TokenLists :
        /\ st[1] # st[2]
        /\ \/ ResultHash(st[1]) = ResultHash(st[2])
           \/ \E a, b \in Tokens : VerifyDeterministic(a, st[1], HashResult(b, st[2]))}

\* Results that differ are never in one group of VerifyResults, and a provider is
\* not credited or penalized for another's, whatever the token lists are that its
\* call compares: the separators keep tokens of different lengths, negative ones,
\* and lists of different lengths apart.
HashSeparates ==
    \A c \in Calls : \A p, q \in DOMAIN results[c] :
        results[c][p] # results[c][q] => Collisions = {}
=============================================================================
