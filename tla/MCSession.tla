----------------------------- MODULE MCSession ------------------------------
(* Values of Session's constants for TLC. *)
EXTENDS Session

CONSTANTS c, p, q

\* A consumer and two providers that are all connected, so that each relays the
\* manifests of the others.
MCLinks == {{c, p}, {c, q}, {p, q}}
MCManifests == {[peer |-> p, provider |-> TRUE], [peer |-> q, provider |-> TRUE]}
=============================================================================
