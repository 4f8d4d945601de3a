--------------------------- MODULE AdmissionControl ---------------------------
(***************************************************************************)
(* What warehouse_gate.py promises its callers: never more than              *)
(* MAX_CONCURRENT_STATEMENTS of them are between taking a slot and giving it  *)
(* back, each holds at most one slot, and each slot change concerns one       *)
(* caller.                                                                  *)
(***************************************************************************)
EXTENDS Naturals, FiniteSets

CONSTANTS Threads, MaxSlots

VARIABLE running   \* the callers that hold a slot

Init == running = {}

Enter(t) ==
    /\ t \notin running
    /\ Cardinality(running) < MaxSlots
    /\ running' = running \union {t}

Leave(t) ==
    /\ t \in running
    /\ running' = running \ {t}

Next == \E t \in Threads : Enter(t) \/ Leave(t)

Spec == Init /\ [][Next]_running
=============================================================================
