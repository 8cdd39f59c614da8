------------------------------- MODULE MCWork -------------------------------
(***************************************************************************)
(* Work that passes from one process to another, one run: the callbacks    *)
(* that settle jobs (SqlJobStates), the queue with its consumers           *)
(* (WorkQueue) and the leased items of a scan (ExecutionStore).  A         *)
(* behaviour is one of the three from start to end; the others keep their  *)
(* first state.                                                            *)
(***************************************************************************)
EXTENDS SqlJobStates, WorkQueue, ExecutionStore, TLC

CONSTANTS j1, j2, r1, d1, d2, f1, u1, x1, m1, m2, m3, k1, k2

VARIABLE subject

\* Callbacks of one job: running, done twice, failed and an unsigned one; and
\* one of a second job.
MCJobOf == [c \in Calls |-> IF c = x1 THEN j2 ELSE j1]
MCStatusOf ==
    [c \in Calls |-> CASE c = r1 -> "running" [] c \in {f1, u1} -> "failed" [] OTHER -> "done"]

\* Messages m1 and m2 carry the same dedup_key.
MCKeyOf == m1 :> k1 @@ m2 :> k1 @@ m3 :> k2

allVars == <<subject, vars, queueVars, executionVars>>

WorkInit ==
    /\ subject \in {"jobs", "queue", "execution"}
    /\ Init /\ queueInit /\ executionInit

RunJobs == subject = "jobs" /\ Next /\ UNCHANGED <<subject, queueVars, executionVars>>
RunQueue == subject = "queue" /\ queueNext /\ UNCHANGED <<subject, vars, executionVars>>
RunExecution == subject = "execution" /\ executionNext /\ UNCHANGED <<subject, vars, queueVars>>
WorkNext == RunJobs \/ RunQueue \/ RunExecution

\* A replica that runs its callbacks and consumers that go on polling.  Fairness
\* to each callback and each consumer, which the code also gives, is not needed.
Progress ==
    /\ CASE subject = "jobs" -> (\E c \in Calls : Step(c)) /\ UNCHANGED <<queueVars, executionVars>>
         [] subject = "queue" -> (\E c \in Consumers : Poll(c)) /\ UNCHANGED <<vars, executionVars>>
         [] OTHER -> FALSE
    /\ UNCHANGED subject

WorkSafety == WorkInit /\ [][WorkNext]_allVars
WorkSpec == WorkSafety /\ WF_allVars(Progress)

-----------------------------------------------------------------------------
\* A message that is sent ends acked, dead-lettered or stranded (WorkQueue), and
\* every callback gets its answer (SqlJobStates).
WorkEnds ==
    []<>(CASE subject = "queue" -> AllSettled
           [] subject = "jobs" -> \A c \in Calls : pc[c] = "end"
           [] OTHER -> TRUE)
=============================================================================
