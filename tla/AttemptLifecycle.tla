-------------------------- MODULE AttemptLifecycle --------------------------
(***************************************************************************)
(* What the journal of an attempt promises to the holder of the invocation *)
(* slot (the table of permitted transitions behind                         *)
(* tools/worker/runtime_journal.py): an attempt is open until something    *)
(* goes wrong, a doomed one can no longer be admitted, an orphaned one     *)
(* keeps the slot until it is reconciled, and an ending is final.          *)
(***************************************************************************)
VARIABLE outcome

Outcomes == {"open", "doomed", "orphaned", "admitted", "failed", "reconciled"}

Init == outcome = "open"

Doom == outcome = "open" /\ outcome' = "doomed"

Orphan == outcome \in {"open", "doomed"} /\ outcome' = "orphaned"

Admit == outcome = "open" /\ outcome' = "admitted"

Fail == outcome \in {"open", "doomed"} /\ outcome' = "failed"

Reconcile == outcome = "orphaned" /\ outcome' = "reconciled"

Next == Doom \/ Orphan \/ Admit \/ Fail \/ Reconcile

Spec == Init /\ [][Next]_outcome
=============================================================================
