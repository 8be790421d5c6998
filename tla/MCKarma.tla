------------------------------ MODULE MCKarma ------------------------------
(* Values of Karma's constants for TLC. *)
EXTENDS Karma

\* 100 * (1.0 + math.Log1p(t)), rounded, for 0, 1, 2, 3 milliseconds.
MCEarned == [t \in 0 .. MaxTotal |-> CASE t = 0 -> 100 [] t = 1 -> 169
                                       [] t = 2 -> 210 [] OTHER -> 239]
=============================================================================
