----------------------------- MODULE StageCall -----------------------------
(***************************************************************************)
(* What executePipeline may rely on about one executeStage call: it may    *)
(* not return at all; if it does, it returns an error, or the provider's   *)
(* whole output - then the provider has executed the stage - or bytes that *)
(* are not a stage output (none, or a truncated output) without an error.  *)
(***************************************************************************)
VARIABLES executed,         \* the provider has executed the stage
          result            \* what executeStage returned

vars == <<executed, result>>

Init == executed = FALSE /\ result = "pending"

Execute == /\ ~executed
           /\ executed' = TRUE
           /\ UNCHANGED result

Return(r) == /\ result = "pending"
             /\ r = "computed" => executed
             /\ result' = r
             /\ UNCHANGED executed

Next == Execute \/ \E r \in {"error", "corrupt", "computed"} : Return(r)

Spec == Init /\ [][Next]_vars
=============================================================================
