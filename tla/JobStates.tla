----------------------------- MODULE JobStates -----------------------------
(***************************************************************************)
(* What a JobStateStore promises (services/scan/api.py): each verified     *)
(* callback is one atomic step of the state machine, or changes nothing.   *)
(***************************************************************************)
CONSTANTS Jobs, Calls, NoCall, Verified, jobOf, statusOf

VARIABLES
    status,   \* the recorded status of a job, "none" before the first
    by,       \* the callback whose bytes are recorded with it
    outcome   \* what transition returned to a callback, "none" before

vars == <<status, by, outcome>>

Terminal == {"done", "failed"}
Statuses == {"running"} \cup Terminal

\* The four cases of InMemoryJobStateStore.transition.
Verdict(prior, next) ==
    CASE prior = "none" -> "applied"
      [] prior = next   -> "duplicate"
      [] prior = "running" /\ next \in Terminal -> "applied"
      [] OTHER -> "conflict"

Init ==
    /\ status = [j \in Jobs |-> "none"]
    /\ by = [j \in Jobs |-> NoCall]
    /\ outcome = [c \in Calls |-> "none"]

Transition(c) ==
    LET j == jobOf[c]
        v == Verdict(status[j], statusOf[c])
    IN /\ outcome[c] = "none" /\ c \in Verified
       /\ outcome' = [outcome EXCEPT ![c] = v]
       /\ status' = IF v = "applied" THEN [status EXCEPT ![j] = statusOf[c]] ELSE status
       /\ by' = IF v = "applied" THEN [by EXCEPT ![j] = c] ELSE by

\* The call raises: 401 before the store is reached, or an error of the store.
Raise(c) ==
    /\ outcome[c] = "none"
    /\ outcome' = [outcome EXCEPT ![c] = "raised"]
    /\ UNCHANGED <<status, by>>

Next == \E c \in Calls : Transition(c) \/ Raise(c)

Spec == Init /\ [][Next]_vars
=============================================================================
