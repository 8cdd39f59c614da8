-------------------------- MODULE DetectorWorker --------------------------
(***************************************************************************)
(* The detector worker (services/scan/detector_worker.py) and the queue it *)
(* drains through the SQSQueue adapter (services/substrate/queue.py).      *)
(*                                                                         *)
(* A worker process owns ONE findings session for its whole life and runs  *)
(* job after job through it, the jobs of different tenants included.  The  *)
(* queue delivers at least once: a receive that is not settled becomes     *)
(* visible again, so two workers can work on the same job.                 *)
(*                                                                         *)
(* A finding row is <<job, n, c>>: the n-th finding of the c-th delivery   *)
(* of the job.  finding_id is a fresh uuid4 for each delivery, so rows of  *)
(* two deliveries are never the same row.                                  *)
(***************************************************************************)
EXTENDS Naturals, FiniteSets

CONSTANTS
    Jobs,         \* messages on the detector queue
    Workers,      \* worker processes
    Orgs,         \* tenants
    OrgOf,        \* [Jobs -> Orgs]: the org_id field of the job's envelope
    Rejected,     \* jobs refused before any row is added (malformed envelope,
                  \* stale env_digest, unknown detector, missing CPG)
    NumFindings,  \* findings run_detector returns for a job
    MaxReceive,   \* RedrivePolicy maxReceiveCount
    NoOrg         \* no tenant bound

ASSUME DetectorWorkerAssumption ==
    /\ Jobs # {}
    /\ OrgOf \in [Jobs -> Orgs]
    /\ Rejected \subseteq Jobs
    /\ NumFindings \in Nat
    /\ MaxReceive \in Nat
    /\ NoOrg \notin Orgs

VARIABLES
    msg,        \* server side of the queue: [Jobs -> [at, count]]
    pc,         \* where each worker is in handle_queue_message
    job,        \* the message each worker handles
    receipt,    \* the delivery its receipt handle stands for
    idx,        \* findings of the job already added and signed
    session,    \* the worker's findings session
    committed,  \* rows in the findings table
    signed     \* rows a provenance record has been signed for

vars == <<msg, pc, job, receipt, idx, session, committed, signed>>

Row == Jobs \X (1..NumFindings) \X (1..MaxReceive)

RowsOf(j, n, c) == { <<j, k, c>> : k \in 1..n }

(* pending: rows added and not flushed; bound: the wrapper's _bound_org_id; *)
(* guc: app.org_id of the open transaction; tx: broken once a flush or a    *)
(* commit failed, which rolls the transaction back under the session.       *)
FreshSession == [pending |-> {}, bound |-> NoOrg, guc |-> NoOrg, tx |-> "usable"]

\* The queue's records, the workers' locals, their sessions and the two tables have
\* their types; no delivery counter passes the redrive limit.
TypeOK ==
    /\ msg \in [Jobs -> [at : {"visible", "inflight", "deleted", "dlq"},
                         count : 0..MaxReceive]]
    /\ pc \in [Workers -> {"idle", "parse", "add", "sign", "commit", "ack", "fail"}]
    /\ job \in [Workers -> Jobs]
    /\ receipt \in [Workers -> 0..MaxReceive]
    /\ idx \in [Workers -> 0..NumFindings]
    /\ session \in [Workers -> [pending : SUBSET Row,
                                bound : Orgs \cup {NoOrg},
                                guc : Orgs \cup {NoOrg},
                                tx : {"usable", "broken"}]]
    /\ committed \in SUBSET Row
    /\ signed \in SUBSET Row

AnyJob == CHOOSE j \in Jobs : TRUE

Init ==
    /\ msg = [j \in Jobs |-> [at |-> "visible", count |-> 0]]
    /\ pc = [w \in Workers |-> "idle"]
    /\ job = [w \in Workers |-> AnyJob]
    /\ receipt = [w \in Workers |-> 0]
    /\ idx = [w \in Workers |-> 0]
    /\ session = [w \in Workers |-> FreshSession]
    /\ committed = {}
    /\ signed = {}

Goto(w, l) == pc' = [pc EXCEPT ![w] = l]

\* handle_queue_message returns, or the process dies: its locals are gone.
Exit(w) ==
    /\ Goto(w, "idle")
    /\ job' = [job EXCEPT ![w] = AnyJob]
    /\ receipt' = [receipt EXCEPT ![w] = 0]
    /\ idx' = [idx EXCEPT ![w] = 0]

----------------------------------------------------------------------------
(* The queue service, as the adapter uses it.                              *)

\* The visibility timeout of an unsettled delivery expires.
VisibilityTimeout(j) ==
    /\ msg[j].at = "inflight"
    /\ msg' = [msg EXCEPT ![j].at = "visible"]
    /\ UNCHANGED <<pc, job, receipt, idx, session, committed, signed>>

\* RedrivePolicy: a message received maxReceiveCount times is moved to the
\* dead letter queue instead of being delivered again.
Redrive(j) ==
    /\ msg[j].at = "visible"
    /\ msg[j].count = MaxReceive
    /\ msg' = [msg EXCEPT ![j].at = "dlq"]
    /\ UNCHANGED <<pc, job, receipt, idx, session, committed, signed>>

\* SQSQueue.receive: one visible message, under a new receipt handle.
Receive(w, j) ==
    /\ pc[w] = "idle"
    /\ msg[j].at = "visible"
    /\ msg[j].count < MaxReceive
    /\ msg' = [msg EXCEPT ![j] = [at |-> "inflight", count |-> @.count + 1]]
    /\ job' = [job EXCEPT ![w] = j]
    /\ receipt' = [receipt EXCEPT ![w] = msg[j].count + 1]
    /\ idx' = [idx EXCEPT ![w] = 0]
    /\ Goto(w, "parse")
    /\ UNCHANGED <<session, committed, signed>>

----------------------------------------------------------------------------
(* handle_queue_message and run_detector_job.                              *)

\* parse_job_message, the env_digest check, the registry, the object store and
\* run_detector: any of them may raise, and for a job of Rejected one does.
Prepare(w) ==
    /\ pc[w] = "parse"
    /\ \/ job[w] \notin Rejected /\ Goto(w, IF NumFindings = 0 THEN "commit" ELSE "add")
       \/ Goto(w, "fail")
    /\ UNCHANGED <<msg, job, receipt, idx, session, committed, signed>>

\* Mutant of Committed: the wrapper forgets to reset _bound_org_id.
Committed_KeepsBound(s) == [FreshSession EXCEPT !.bound = s.bound]

\* What the session is after a commit that worked, and after one that raised:
\* the wrapper resets _bound_org_id only in the first case, and nobody calls
\* rollback() in the second.
Committed(s) == FreshSession
RolledBack(s) == [pending |-> {}, bound |-> s.bound, guc |-> NoOrg, tx |-> "broken"]

\* _SqlAlchemyFindingsSession.add: bind the tenant unless the wrapper believes
\* it is bound already, then leave the row pending.
AddTo(s, org, row) ==
    [pending |-> s.pending \cup {row},
     bound |-> org,
     guc |-> IF s.bound = org THEN s.guc ELSE org,
     tx |-> s.tx]

\* The next finding of the loop.  The hash-length guards may raise.  set_config
\* raises in a session whose transaction was rolled back under it, and may
\* itself fail, which leaves the transaction unusable.
AddRow(w) ==
    LET s == session[w]
        org == OrgOf[job[w]]
        row == <<job[w], idx[w] + 1, receipt[w]>>
    IN /\ pc[w] = "add"
       /\ \/ /\ s.bound = org \/ s.tx = "usable"
             /\ session' = [session EXCEPT ![w] = AddTo(s, org, row)]
             /\ Goto(w, "sign")
          \/ Goto(w, "fail") /\ UNCHANGED session
          \/ /\ s.bound # org
             /\ session' = [session EXCEPT ![w] = RolledBack(s)]
             /\ Goto(w, "fail")
       /\ UNCHANGED <<msg, job, receipt, idx, committed, signed>>

\* sign_provenance of the row just added.
Sign(w) ==
    /\ pc[w] = "sign"
    /\ \/ /\ signed' = signed \cup {<<job[w], idx[w] + 1, receipt[w]>>}
          /\ idx' = [idx EXCEPT ![w] = @ + 1]
          /\ Goto(w, IF idx[w] + 1 = NumFindings THEN "commit" ELSE "add")
       \/ Goto(w, "fail") /\ UNCHANGED <<signed, idx>>
    /\ UNCHANGED <<msg, job, receipt, session, committed>>

\* Row-level security: a flush succeeds when every pending row belongs to the
\* tenant of the transaction.
RlsAccepts(s) == \A r \in s.pending : OrgOf[r[1]] = s.guc

\* Mutant of Commit: an error of the commit is taken for success.
Commit_IgnoresError(w) ==
    LET s == session[w]
    IN /\ pc[w] = "commit"
       /\ \/ /\ s.tx = "usable" /\ RlsAccepts(s)
             /\ committed' = committed \cup s.pending
             /\ session' = [session EXCEPT ![w] = Committed(s)]
          \/ /\ session' = [session EXCEPT ![w] = RolledBack(s)]
             /\ UNCHANGED committed
       /\ Goto(w, "ack")
       /\ UNCHANGED <<msg, job, receipt, idx, signed>>

\* findings_session.commit().  The database may fail too; when the connection
\* drops during COMMIT the rows may be there although the call raised.
Commit(w) ==
    LET s == session[w]
    IN /\ pc[w] = "commit"
       /\ \/ /\ s.tx = "usable" /\ RlsAccepts(s)
             /\ committed' = committed \cup s.pending
             /\ \/ session' = [session EXCEPT ![w] = Committed(s)] /\ Goto(w, "ack")
                \/ session' = [session EXCEPT ![w] = RolledBack(s)] /\ Goto(w, "fail")
          \/ /\ session' = [session EXCEPT ![w] = IF s.tx = "broken" THEN s ELSE RolledBack(s)]
             /\ Goto(w, "fail")
             /\ UNCHANGED committed
       /\ UNCHANGED <<msg, job, receipt, idx, signed>>

\* DeleteMessage under the worker's receipt handle.  A handle older than the
\* latest delivery may or may not delete; the call may also be lost, and
\* handle_queue_message swallows what ack raises.
Ack(w) ==
    /\ pc[w] = "ack"
    /\ \/ /\ msg[job[w]].at # "dlq"
          /\ msg' = [msg EXCEPT ![job[w]].at = "deleted"]
       \/ UNCHANGED msg
    /\ Exit(w)
    /\ UNCHANGED <<session, committed, signed>>

\* Mutant of Fail: a failed job is tried again in place.
Fail_RetriesLocally(w) ==
    /\ pc[w] = "fail"
    /\ Goto(w, "parse")
    /\ UNCHANGED <<msg, job, receipt, idx, session, committed, signed>>

\* ChangeMessageVisibility(0); what fail raises is swallowed as well.
Fail(w) ==
    /\ pc[w] = "fail"
    /\ \/ /\ msg[job[w]].at = "inflight"
          /\ msg[job[w]].count = receipt[w]
          /\ msg' = [msg EXCEPT ![job[w]].at = "visible"]
       \/ UNCHANGED msg
    /\ Exit(w)
    /\ UNCHANGED <<session, committed, signed>>

\* The process dies and is restarted: the session and the local receipt are
\* gone, what was pending with them.
Crash(w) ==
    /\ pc[w] # "idle"
    /\ session' = [session EXCEPT ![w] = FreshSession]
    /\ Exit(w)
    /\ UNCHANGED <<msg, committed, signed>>

Step(w) ==
    \/ \E j \in Jobs : Receive(w, j)
    \/ Prepare(w) \/ AddRow(w) \/ Sign(w) \/ Commit(w) \/ Ack(w) \/ Fail(w)

Next ==
    \/ \E j \in Jobs : VisibilityTimeout(j) \/ Redrive(j)
    \/ \E w \in Workers : Step(w) \/ Crash(w)

Spec == Init /\ [][Next]_vars

(* A running worker keeps taking steps, and the service expires timeouts    *)
(* and redrives.                                                            *)
Fairness ==
    /\ \A w \in Workers : WF_vars(Step(w))
    /\ \A j \in Jobs : WF_vars(VisibilityTimeout(j)) /\ WF_vars(Redrive(j))
FairSpec == Spec /\ Fairness

----------------------------------------------------------------------------
(* Properties.                                                             *)

\* A message leaves the queue through ack only when all the rows of one of its
\* deliveries are in the findings table, each with a signed provenance record:
\* no crash, lost ack, redelivery or shared session makes the worker delete a
\* job whose findings were not stored (handle_queue_message acks only after
\* run_detector_job returned).
AckedJobsStored ==
    \A j \in Jobs :
        msg[j].at = "deleted" =>
            \E c \in 1..MaxReceive :
                RowsOf(j, NumFindings, c) \subseteq (committed \cap signed)

\* While the session is usable, the tenant the wrapper believes to be bound is
\* the tenant of the open transaction, whatever jobs, failures and commits came
\* before: _bound_org_id never goes stale against the SET LOCAL it caches.
BoundIsTransactionTenant ==
    \A w \in Workers : session[w].tx = "usable" => session[w].bound = session[w].guc

\* Every message is eventually deleted or dead-lettered for good, although each
\* step of a worker may fail and any delivery may be duplicated: redelivery
\* cannot go on forever.
EventuallySettled ==
    \A j \in Jobs : <>[](msg[j].at \in {"deleted", "dlq"})

\* What DOC-PROVENANCE says of the table ("every finding's origin is recorded
\* and signed"): a row in the findings table has a signed provenance record.
CommittedRowsSigned == committed \subseteq signed
============================================================================
