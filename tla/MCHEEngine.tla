----------------------------- MODULE MCHEEngine -----------------------------
(* Values of HEEngine's constants for TLC. *)
EXTENDS HEEngine

\* No text, one with a zero inside, and one that is longer than the slots.
MCTexts == {<<>>, <<1, 0, 200>>, <<84, 104, 105, 115, 33>>}
=============================================================================
