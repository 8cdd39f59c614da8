-------------------------- MODULE SnapshotWorker --------------------------
(***************************************************************************)
(* The snapshot worker's execute loop (services/snapshot/worker.py) over   *)
(* the SQSQueue adapter (services/substrate/queue.py) and an object store. *)
(*                                                                         *)
(* A task handles one delivery and exits; the service starts another.      *)
(* Artifacts are stored under codebase, commit and digest, not under the   *)
(* snapshot id, so two snapshot jobs may write the same objects.           *)
(***************************************************************************)
EXTENDS Naturals, FiniteSets

CONSTANTS
    Jobs,           \* messages on the snapshot queue
    Tasks,          \* worker tasks that run at the same time
    keyOf,          \* the artifact prefix of a job
    NumArtifacts,   \* artifacts a bootstrap snapshot uploads
    MaxReceive      \* RedrivePolicy maxReceiveCount

ASSUME SnapshotWorkerAssumption ==
    /\ Jobs # {} /\ DOMAIN keyOf = Jobs
    /\ NumArtifacts \in Nat \ {0} /\ MaxReceive \in Nat \ {0}

VARIABLES
    kind,        \* what a job's body is: see Kinds
    at, count,   \* server side of the queue
    pc,          \* where a task is in run_execute_loop
    job,         \* the message it handles
    receipt,     \* the delivery it was handed
    handle,      \* the adapter's _in_flight entry: "held" or "popped"
    put,         \* artifacts uploaded in this delivery
    objects,     \* the object store: <<prefix, n>>
    reports     \* status reports that arrived: <<job, state>>

vars == <<kind, at, count, pc, job, receipt, handle, put, objects, reports>>
server == <<at, count>>

\* "malformed": without a required field; "refused": of another Env, or with a
\* parent snapshot.
Kinds == {"good", "malformed", "refused"}
task == <<job, receipt, handle, put>>

Goto(t, l) == pc' = [pc EXCEPT ![t] = l]

AnyJob == CHOOSE j \in Jobs : TRUE

\* The task ends and its locals with it.
Exit(t, l) ==
    /\ Goto(t, l)
    /\ job' = [job EXCEPT ![t] = AnyJob]
    /\ receipt' = [receipt EXCEPT ![t] = 0]
    /\ handle' = [handle EXCEPT ![t] = "popped"]
    /\ put' = [put EXCEPT ![t] = 0]

Init ==
    /\ kind \in [Jobs -> Kinds]
    /\ at = [j \in Jobs |-> "visible"] /\ count = [j \in Jobs |-> 0]
    /\ pc = [t \in Tasks |-> "idle"]
    /\ job = [t \in Tasks |-> AnyJob]
    /\ receipt = [t \in Tasks |-> 0]
    /\ handle = [t \in Tasks |-> "popped"]
    /\ put = [t \in Tasks |-> 0]
    /\ objects = {} /\ reports = {}

----------------------------------------------------------------------------
(* The queue service.                                                      *)

VisibilityTimeout(j) ==
    /\ at[j] = "inflight" /\ at' = [at EXCEPT ![j] = "visible"]
    /\ UNCHANGED <<kind, count, pc, task, objects, reports>>

Redrive(j) ==
    /\ at[j] = "visible" /\ count[j] = MaxReceive
    /\ at' = [at EXCEPT ![j] = "dlq"]
    /\ UNCHANGED <<kind, count, pc, task, objects, reports>>

Receive(t, j) ==
    /\ pc[t] = "idle" /\ at[j] = "visible" /\ count[j] < MaxReceive
    /\ at' = [at EXCEPT ![j] = "inflight"]
    /\ count' = [count EXCEPT ![j] = @ + 1]
    /\ job' = [job EXCEPT ![t] = j]
    /\ receipt' = [receipt EXCEPT ![t] = count[j] + 1]
    /\ handle' = [handle EXCEPT ![t] = "held"]
    /\ put' = [put EXCEPT ![t] = 0]
    /\ Goto(t, "parse")
    /\ UNCHANGED <<kind, objects, reports>>

\* The delivery the task holds is still the latest, and unsettled.
Current(t) == at[job[t]] = "inflight" /\ count[job[t]] = receipt[t]

----------------------------------------------------------------------------
(* run_execute_loop.                                                       *)

\* Steps 2 to 4.  A body that does not parse leaves no job to report on.
Parse(t) ==
    /\ pc[t] = "parse"
    /\ Goto(t, CASE kind[job[t]] = "malformed" -> "fail"
                 [] kind[job[t]] = "refused" -> "failed"
                 [] OTHER -> "build")
    /\ UNCHANGED <<kind, server, task, objects, reports>>

\* Steps 5 to 7 and the artifact bodies: any of them may raise.
Build(t) ==
    /\ pc[t] = "build"
    /\ Goto(t, "upload") \/ Goto(t, "failed")
    /\ UNCHANGED <<kind, server, task, objects, reports>>

\* Mutant of Uploaded: the loop leaves out the last artifact.
Uploaded_OneShort(t) == put[t] + 1 >= NumArtifacts

Uploaded(t) == put[t] = NumArtifacts

\* Step 8: one put; one that raises may have stored the object.
Upload(t) ==
    /\ pc[t] = "upload" /\ ~Uploaded(t)
    /\ LET o == <<keyOf[job[t]], put[t] + 1>>
       IN \/ /\ objects' = objects \cup {o}
             /\ put' = [put EXCEPT ![t] = @ + 1]
             /\ pc' = pc
          \/ /\ objects' \in {objects, objects \cup {o}}
             /\ put' = put
             /\ Goto(t, "failed")
    /\ UNCHANGED <<kind, server, job, receipt, handle, reports>>

Reported(t, state) == reports' = reports \cup {<<job[t], state>>}

\* Step 9: the report may raise, after it arrived or before.
ReportReady(t) ==
    /\ pc[t] = "upload" /\ Uploaded(t)
    /\ \/ Reported(t, "ready") /\ Goto(t, "ack")
       \/ Reported(t, "ready") /\ Goto(t, "failed")
       \/ reports' = reports /\ Goto(t, "failed")
    /\ UNCHANGED <<kind, server, task, objects>>

\* SQSQueue.ack forgets the handle before DeleteMessage, which may raise.  An
\* old handle may or may not delete.
Ack(t) ==
    /\ pc[t] = "ack"
    /\ \/ at[job[t]] # "dlq" /\ at' = [at EXCEPT ![job[t]] = "deleted"]
       \/ at' = at
    /\ \/ Exit(t, "idle")
       \/ /\ Goto(t, "failed")
          /\ handle' = [handle EXCEPT ![t] = "popped"]
          /\ UNCHANGED <<job, receipt, put>>
    /\ UNCHANGED <<kind, count, objects, reports>>

\* Mutant of ReportFailed: the handler deletes the message it reported on.
ReportFailed_Deletes(t) ==
    /\ pc[t] = "failed"
    /\ Reported(t, "failed") /\ Goto(t, "ack")
    /\ UNCHANGED <<kind, server, task, objects>>

\* The except block: what this report raises is swallowed.
ReportFailed(t) ==
    /\ pc[t] = "failed"
    /\ Reported(t, "failed") \/ reports' = reports
    /\ Goto(t, "fail")
    /\ UNCHANGED <<kind, server, task, objects>>

\* Mutant of Fail: a failed delivery is tried again by the same task.
Fail_RetriesLocally(t) ==
    /\ pc[t] = "fail" /\ Goto(t, "parse")
    /\ UNCHANGED <<kind, server, task, objects, reports>>

\* queue.fail, outside any try: what ChangeMessageVisibility raises, and the
\* UnknownReceiptError for a handle that ack has popped, leave the loop.
Fail(t) ==
    /\ pc[t] = "fail"
    /\ \/ /\ handle[t] = "held"
          /\ \/ Current(t) /\ at' = [at EXCEPT ![job[t]] = "visible"]
             \/ at' = at
          /\ Exit(t, "idle")
       \/ /\ handle[t] = "popped"
          /\ at' = at /\ Exit(t, "unknown_receipt")
    /\ UNCHANGED <<kind, count, objects, reports>>

\* A task that ended with an exception is replaced.
Replace(t) ==
    /\ pc[t] = "unknown_receipt" /\ Goto(t, "idle")
    /\ UNCHANGED <<kind, server, task, objects, reports>>

\* The task is killed.
Crash(t) ==
    /\ pc[t] # "idle"
    /\ Exit(t, "idle")
    /\ UNCHANGED <<kind, server, objects, reports>>

Step(t) ==
    \/ \E j \in Jobs : Receive(t, j)
    \/ Parse(t) \/ Build(t) \/ Upload(t) \/ ReportReady(t) \/ Ack(t)
    \/ ReportFailed(t) \/ Fail(t) \/ Replace(t)

Next ==
    \/ \E j \in Jobs : VisibilityTimeout(j) \/ Redrive(j)
    \/ \E t \in Tasks : Step(t) \/ Crash(t)

Spec == Init /\ [][Next]_vars

\* Tasks run on and are replaced; the service expires timeouts and redrives.
Fairness ==
    /\ \A t \in Tasks : WF_vars(Step(t))
    /\ \A j \in Jobs : WF_vars(VisibilityTimeout(j)) /\ WF_vars(Redrive(j))
FairSpec == Spec /\ Fairness

----------------------------------------------------------------------------
(* Properties.                                                             *)

\* Whoever sees a ready report can fetch every artifact of the snapshot, although
\* uploads are separate writes that fail one by one and tasks are killed between
\* them (step 8 comes before step 9).
ReadyIsComplete ==
    \A r \in reports : r[2] = "ready" =>
        \A n \in 1..NumArtifacts : <<keyOf[r[1]], n>> \in objects

\* A message leaves the queue through ack only if its snapshot was reported
\* ready: no crash, redelivery or lost answer deletes a job nobody finished.
DeletedIsReady ==
    \A j \in Jobs : at[j] = "deleted" => <<j, "ready">> \in reports

\* Every job is in the end deleted or dead-lettered for good.
EventuallySettled == \A j \in Jobs : <>[](at[j] \in {"deleted", "dlq"})

\* run_execute_loop: on any exception of steps 2-9, the ack of step 9 included,
\* "the loop RETURNS NORMALLY rather than propagating".
ReturnsNormally == \A t \in Tasks : pc[t] # "unknown_receipt"
============================================================================
