---------------------------- MODULE LeasedWork ----------------------------
(***************************************************************************)
(* What the execution store promises about one work item: it has at most   *)
(* one owner, every owner holds a new token, an owner that lost the item   *)
(* never gets it back, and a settled item has no owner again.              *)
(***************************************************************************)
EXTENDS Naturals

VARIABLES
    owner,     \* the token of the owner, 0 for none
    issued,    \* the last token handed out
    settled

vars == <<owner, issued, settled>>

Init == owner = 0 /\ issued = 0 /\ settled = FALSE

Acquire ==
    /\ owner = 0 /\ ~settled
    /\ issued' = issued + 1
    /\ owner' = issued'
    /\ UNCHANGED settled

\* The owner ends, or is put out, with or without a result.
Yield ==
    /\ owner # 0
    /\ owner' = 0
    /\ settled' \in BOOLEAN
    /\ UNCHANGED issued

Withdraw ==
    /\ owner = 0 /\ ~settled
    /\ settled' = TRUE
    /\ UNCHANGED <<owner, issued>>

Next == Acquire \/ Yield \/ Withdraw

Spec == Init /\ [][Next]_vars
=============================================================================
