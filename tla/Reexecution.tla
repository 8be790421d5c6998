---------------------------- MODULE Reexecution ----------------------------
(***************************************************************************)
(* What a re-execution of a request is to those who wait for it, whatever  *)
(* providers, stages, connections and retries it takes                     *)
(* (Orchestrator.ReRequestInference): it goes through the layers of the    *)
(* model from the first one on, or from where a checkpoint under its ID    *)
(* is, and no layer is left out or run again; it may lose what it has to a *)
(* provider that fails, and does not notice; it succeeds with the output   *)
(* of all layers, or with what a lost one is taken for, and then no        *)
(* checkpoint is left under its ID.                                        *)
(***************************************************************************)
EXTENDS Integers

CONSTANTS Calls, IDs, TotalLayers, None

VARIABLES id,               \* of the execution
          depth,            \* layers that are behind the call, or Lost
          outcome,
          saved             \* layers that are behind the checkpoint of an ID, or Lost, or Nothing

vars == <<id, depth, outcome, saved>>

Lost == -1
Nothing == -2

Init ==
    /\ id = [c \in Calls |-> None]
    /\ depth = [c \in Calls |-> 0]
    /\ outcome = [c \in Calls |-> "none"]
    /\ saved = [i \in IDs |-> Nothing]

Begin(c, i) ==
    /\ outcome[c] = "none"
    /\ id' = [id EXCEPT ![c] = i]
    /\ \E next \in {"working", "failed"} : outcome' = [outcome EXCEPT ![c] = next]
    /\ UNCHANGED <<depth, saved>>

Fail(c) ==
    /\ \/ outcome[c] \in {"none", "working"}
       \/ outcome[c] = "complete" /\ depth[c] = Lost
    /\ outcome' = [outcome EXCEPT ![c] = "failed"]
    /\ UNCHANGED <<id, depth, saved>>

Resume(c) ==
    /\ outcome[c] = "working"
    /\ depth[c] = 0
    /\ saved[id[c]] # Nothing
    /\ depth' = [depth EXCEPT ![c] = saved[id[c]]]
    /\ UNCHANGED <<id, outcome, saved>>

\* Some more layers, or the failure of a provider.
Advance(c) ==
    /\ outcome[c] = "working"
    /\ depth[c] \in 0 .. TotalLayers - 1
    /\ \E d \in (depth[c] + 1 .. TotalLayers) \cup {Lost} : depth' = [depth EXCEPT ![c] = d]
    /\ UNCHANGED <<id, outcome, saved>>

Save(c) ==
    /\ outcome[c] = "working"
    /\ depth[c] # 0
    /\ saved' = [saved EXCEPT ![id[c]] = depth[c]]
    /\ UNCHANGED <<id, depth, outcome>>

Complete(c) ==
    /\ outcome[c] = "working"
    /\ depth[c] \in {TotalLayers, Lost}
    /\ saved' = [saved EXCEPT ![id[c]] = Nothing]
    /\ outcome' = [outcome EXCEPT ![c] = "complete"]
    /\ UNCHANGED <<id, depth>>

Return(c) ==
    /\ outcome[c] = "complete"
    /\ outcome' = [outcome EXCEPT ![c] = "output"]
    /\ UNCHANGED <<id, depth, saved>>

Next ==
    \E c \in Calls :
        \/ \E i \in IDs : Begin(c, i)
        \/ Fail(c) \/ Resume(c) \/ Advance(c) \/ Save(c) \/ Complete(c) \/ Return(c)

Spec == Init /\ [][Next]_vars
=============================================================================
