----------------------------- MODULE Ciphertext -----------------------------
(***************************************************************************)
(* Homomorphic encryption (crypto/he): texts in the slots of a ciphertext, *)
(* the one operation of the engine on them, evaluation keys, and the       *)
(* length-prefixed encodings in which both travel.                         *)
(*                                                                         *)
(* A ciphertext is the sequence of its slots' values, the noise of the     *)
(* encryption included.  Values are fixed-point, Unit for 1.0; above what  *)
(* a byte can hold they are all the same (Saturated).  In an encoding a    *)
(* number stands for the four bytes of a length, and parameters and keys   *)
(* are blobs that the lattigo library reads and writes.                    *)
(***************************************************************************)
EXTENDS Integers, Sequences, SequencesExt

CONSTANTS Slots,            \* params.MaxSlots(), a power of two
          Refused           \* the error of a decoder

ASSUME SlotsAssumption == Slots \in Nat \ {0}

\* What a decoder answers: a field, a part of the galois keys, keys, or slots.  The
\* error is none of these.
DecoderAnswers ==
    [blob : Seq(Int), next : Nat]
      \cup [keys : Seq(Seq(Int)), next : Nat]
      \cup [params : Seq(Int), relin : Seq(Int), galois : Seq(Seq(Int))]
      \cup Seq(Int)

ASSUME RefusedAssumption == Refused \notin DecoderAnswers

Unit == 4
Noise == {-1, 1}            \* a quarter, less than rounding forgives

-----------------------------------------------------------------------------
\* A length prefix and the data, and how the decoders take them off again at
\* position "at": refused when the data end before.
Field(blob) == <<Len(blob)>> \o blob

FieldAt(data, at) ==
    IF at > Len(data) \/ at + data[at] > Len(data)
    THEN Refused
    ELSE [blob |-> SubSeq(data, at + 1, at + data[at]), next |-> at + data[at] + 1]

-----------------------------------------------------------------------------
(* Evaluation keys. *)

Params == <<2 * Slots>>     \* the ring degree stands for all parameters

\* rlwe: the automorphism that rotates the slots by "steps".
GaloisElement(steps) == (5 ^ (steps % Slots)) % (4 * Slots)

\* Mutant: the loop stops one rotation early.
RotationsShort == [i \in 1 .. Slots - 2 |-> i]

Rotations == [i \in 1 .. Slots - 1 |-> i]

GenerateEvaluationKeys ==
    [params |-> Params, relin |-> <<0>>,
     galois |-> [i \in 1 .. Len(Rotations) |-> <<GaloisElement(Rotations[i])>>]]

\* Evaluator.Rotate needs the key of its rotation; rotating by nothing needs none.
HasKeyFor(keys, steps) ==
    \/ GaloisElement(steps) = 1
    \/ \E i \in 1 .. Len(keys.galois) : keys.galois[i] = <<GaloisElement(steps)>>

MarshalKeys(keys) ==
    Field(keys.params) \o Field(keys.relin) \o <<Len(keys.galois)>>
      \o FlattenSeq([i \in 1 .. Len(keys.galois) |-> Field(keys.galois[i])])

\* One iteration of the loop over the galois keys.
ReadGaloisKey(data, read) ==
    IF read = Refused
    THEN Refused
    ELSE LET field == FieldAt(data, read.next)
         IN  IF field = Refused THEN Refused
             ELSE [keys |-> Append(read.keys, field.blob), next |-> field.next]

\* The loop, from the first key at position "at".
ReadGaloisKeys(data, at, count) ==
    LET read[i \in 0 .. count] == IF i = 0 THEN [keys |-> <<>>, next |-> at]
                                           ELSE ReadGaloisKey(data, read[i - 1])
    IN  read[count]

\* What follows the last key is not looked at.
UnmarshalKeys(data) ==
    LET params == FieldAt(data, 1)
        relin == IF params = Refused THEN Refused ELSE FieldAt(data, params.next)
        galois == ReadGaloisKeys(data, relin.next + 1, data[relin.next])
    IN  IF relin = Refused \/ relin.next > Len(data) \/ galois = Refused
        THEN Refused
        ELSE [params |-> params.blob, relin |-> relin.blob, galois |-> galois.keys]

\* Four characters of base64, read as a length: at least what "++++" is (43 in each byte).
FourCharacters == 724249387

\* The base64 text of an encoding, as a decoder meets it that takes it for the encoding:
\* each element is the length that begins at its character.
EncodeToString(data) == [i \in 1 .. 4 * ((Len(data) + 2) \div 3) |-> FourCharacters]

-----------------------------------------------------------------------------
(* Ciphertexts. *)

MarshalCiphertext(values) == Field(Params) \o values

\* lattigo refuses a ciphertext that is not whole.
UnmarshalCiphertext(data) ==
    LET params == FieldAt(data, 1)
        values == SubSeq(data, params.next, Len(data))
    IN  IF params = Refused \/ Len(values) < Slots THEN Refused ELSE values

\* The byte of a slot: a longer text is cut off, a shorter one padded.
ByteIn(text, i) == IF i <= Len(text) THEN text[i] ELSE 0

\* The ciphertexts a text may become.  Nothing here mixes slots, so one sign of
\* the noise for all of them shows each slot every noise.
EncryptInput(text) ==
    {MarshalCiphertext([i \in 1 .. Slots |-> ByteIn(text, i) * Unit + n]) : n \in Noise}

Bounded(value, low, high) ==
    CASE value < low -> low [] value > high -> high [] OTHER -> value

Saturated(value) == Bounded(value, -256 * Unit, 256 * Unit)

\* Mutant: the sum is its left operand.
AddLeft(left, right) ==
    IF UnmarshalCiphertext(left) = Refused \/ UnmarshalCiphertext(right) = Refused
    THEN Refused ELSE left

\* Evaluator.Add.
Add(left, right) ==
    LET l == UnmarshalCiphertext(left)
        r == UnmarshalCiphertext(right)
    IN  IF l = Refused \/ r = Refused
        THEN Refused
        ELSE MarshalCiphertext([i \in 1 .. Slots |-> Saturated(l[i] + r[i])])

\* math.Round: halves away from zero.
Round(value) ==
    IF value < 0 THEN -((Unit \div 2 - value) \div Unit)
                 ELSE (value + Unit \div 2) \div Unit

DecryptOutput(data) ==
    LET values == UnmarshalCiphertext(data)
    IN  IF values = Refused
        THEN Refused
        ELSE [i \in 1 .. Slots |-> Bounded(Round(values[i]), 0, 255)]
=============================================================================
