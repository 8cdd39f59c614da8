---------------------------- MODULE SqlJobStates ----------------------------
(***************************************************************************)
(* SqlJobStateStore (services/scan/sql_adapters.py) under post_job_status  *)
(* (services/scan/api.py), with any number of callbacks in flight in any   *)
(* number of API replicas.  A callback is one transaction.                 *)
(*                                                                         *)
(* The database is READ COMMITTED: FOR UPDATE locks a committed row, and   *)
(* waits for its holder; where there is no row it locks nothing; an INSERT *)
(* waits for an uncommitted INSERT of the same primary key.                *)
(***************************************************************************)
CONSTANTS
    Jobs, Calls, NoCall,
    Verified,   \* callbacks with a valid HMAC, timestamp and INV-2 fields
    jobOf,      \* the job a callback reports on
    statusOf    \* the status it reports

Terminal == {"done", "failed"}
Statuses == {"running"} \cup Terminal

ASSUME SqlJobStatesAssumption ==
    /\ NoCall \notin Calls /\ Verified \subseteq Calls
    /\ jobOf \in [Calls -> Jobs]
    /\ statusOf \in [Calls -> Statuses]

VARIABLES
    status, by,   \* the committed columns of the jobs table
    lock,         \* the transaction that locks the row of a job, or inserts it
    pc,           \* the next statement of a callback
    prior,        \* the status its SELECT returned, "none" for no row
    outcome       \* what transition returned or raised

vars == <<status, by, lock, pc, prior, outcome>>

Init ==
    /\ status = [j \in Jobs |-> "none"]
    /\ by = [j \in Jobs |-> NoCall]
    /\ lock = [j \in Jobs |-> NoCall]
    /\ pc = [c \in Calls |-> "verify"]
    /\ prior = [c \in Calls |-> "none"]
    /\ outcome = [c \in Calls |-> "none"]

Finish(c, result) ==
    /\ pc' = [pc EXCEPT ![c] = "end"]
    /\ outcome' = [outcome EXCEPT ![c] = result]

\* post_job_status: no callback reaches the store before it is verified.
Verify(c) ==
    /\ pc[c] = "verify" /\ c \in Verified
    /\ pc' = [pc EXCEPT ![c] = "select"]
    /\ UNCHANGED <<status, by, lock, prior, outcome>>

Reject(c) ==
    /\ pc[c] = "verify" /\ c \notin Verified
    /\ Finish(c, "raised")
    /\ UNCHANGED <<status, by, lock, prior>>

\* Mutant of SelectRow: a SELECT without FOR UPDATE.
SelectRow_Unlocked(c) ==
    /\ pc[c] = "select" /\ status[jobOf[c]] # "none"
    /\ prior' = [prior EXCEPT ![c] = status[jobOf[c]]]
    /\ pc' = [pc EXCEPT ![c] = "decide"]
    /\ UNCHANGED <<status, by, lock, outcome>>

\* SELECT ... FOR UPDATE of a row that is there.
SelectRow(c) ==
    /\ pc[c] = "select" /\ status[jobOf[c]] # "none"
    /\ lock[jobOf[c]] = NoCall
    /\ lock' = [lock EXCEPT ![jobOf[c]] = c]
    /\ prior' = [prior EXCEPT ![c] = status[jobOf[c]]]
    /\ pc' = [pc EXCEPT ![c] = "decide"]
    /\ UNCHANGED <<status, by, outcome>>

\* ... and of one that is not, or is not committed: nothing to lock.
SelectNone(c) ==
    /\ pc[c] = "select" /\ status[jobOf[c]] = "none"
    /\ prior' = [prior EXCEPT ![c] = "none"]
    /\ pc' = [pc EXCEPT ![c] = "insert"]
    /\ UNCHANGED <<status, by, lock, outcome>>

\* Mutant of Insert: INSERT ... ON CONFLICT DO UPDATE.
Insert_Upsert(c) ==
    /\ pc[c] = "insert" /\ lock[jobOf[c]] = NoCall
    /\ lock' = [lock EXCEPT ![jobOf[c]] = c]
    /\ pc' = [pc EXCEPT ![c] = "commit"]
    /\ UNCHANGED <<status, by, prior, outcome>>

Insert(c) ==
    /\ pc[c] = "insert" /\ status[jobOf[c]] = "none" /\ lock[jobOf[c]] = NoCall
    /\ lock' = [lock EXCEPT ![jobOf[c]] = c]
    /\ pc' = [pc EXCEPT ![c] = "commit"]
    /\ UNCHANGED <<status, by, prior, outcome>>

\* The primary key is taken by now: rollback, and the error goes to the worker.
InsertRaises(c) ==
    /\ pc[c] = "insert" /\ status[jobOf[c]] # "none"
    /\ Finish(c, "raised")
    /\ UNCHANGED <<status, by, lock, prior>>

Released(c) == lock' = [lock EXCEPT ![jobOf[c]] = NoCall]

\* The lock holder reports the recorded status again.
Duplicate(c) ==
    /\ pc[c] = "decide" /\ prior[c] = statusOf[c]
    /\ Finish(c, "duplicate") /\ Released(c)
    /\ UNCHANGED <<status, by, prior>>

Update(c) ==
    /\ pc[c] = "decide" /\ prior[c] = "running" /\ statusOf[c] \in Terminal
    /\ pc' = [pc EXCEPT ![c] = "commit"]
    /\ UNCHANGED <<status, by, lock, prior, outcome>>

\* Mutant of Conflict: the return without its commit.
Conflict_KeepsLock(c) ==
    /\ pc[c] = "decide" /\ prior[c] # statusOf[c]
    /\ ~(prior[c] = "running" /\ statusOf[c] \in Terminal)
    /\ Finish(c, "conflict")
    /\ UNCHANGED <<status, by, lock, prior>>

Conflict(c) ==
    /\ pc[c] = "decide" /\ prior[c] # statusOf[c]
    /\ ~(prior[c] = "running" /\ statusOf[c] \in Terminal)
    /\ Finish(c, "conflict") /\ Released(c)
    /\ UNCHANGED <<status, by, prior>>

Commit(c) ==
    /\ pc[c] = "commit"
    /\ status' = [status EXCEPT ![jobOf[c]] = statusOf[c]]
    /\ by' = [by EXCEPT ![jobOf[c]] = c]
    /\ Finish(c, "applied") /\ Released(c)
    /\ UNCHANGED prior

\* The connection or the replica is lost in the transaction: it is rolled back.
Rollback(c) ==
    /\ pc[c] \in {"select", "insert", "decide", "commit"}
    /\ Finish(c, "raised")
    /\ lock' = IF lock[jobOf[c]] = c THEN [lock EXCEPT ![jobOf[c]] = NoCall] ELSE lock
    /\ UNCHANGED <<status, by, prior>>

Step(c) ==
    \/ Verify(c) \/ Reject(c) \/ SelectRow(c) \/ SelectNone(c) \/ Insert(c)
    \/ InsertRaises(c) \/ Duplicate(c) \/ Update(c) \/ Conflict(c) \/ Commit(c)

Next == \E c \in Calls : Step(c) \/ Rollback(c)

Spec == Init /\ [][Next]_vars

\* A replica runs each of its callbacks on, and the database lets a transaction
\* whose lock stays free take it.
FairSpec == Spec /\ \A c \in Calls : WF_vars(Step(c))

-----------------------------------------------------------------------------
(* Properties.                                                             *)

\* Columns and local state hold what the code puts there, and a transaction
\* between its decision and its commit holds the lock of its row.
TypeOK ==
    /\ status \in [Jobs -> {"none"} \cup Statuses]
    /\ by \in [Jobs -> Calls \cup {NoCall}]
    /\ lock \in [Jobs -> Calls \cup {NoCall}]
    /\ pc \in [Calls -> {"verify", "select", "insert", "decide", "commit", "end"}]
    /\ prior \in [Calls -> {"none"} \cup Statuses]
    /\ outcome \in [Calls -> {"none", "applied", "duplicate", "conflict", "raised"}]
    /\ \A c \in Calls : pc[c] \in {"decide", "commit"} => lock[jobOf[c]] = c

\* A worker that is told 204 for a terminal status can rely on it: once a done
\* or failed report was applied or found a duplicate, the job has that status
\* for good, whatever other replicas were deciding at the time.
TerminalReportsHold ==
    \A c \in Calls :
        statusOf[c] \in Terminal /\ outcome[c] \in {"applied", "duplicate"} =>
            status[jobOf[c]] = statusOf[c]

\* Concurrent callbacks with the row lock behave as the in-memory store's atomic
\* transition: SqlJobStateStore "implements the IDENTICAL state machine".
Store == INSTANCE JobStates

ImplementsJobStates == Store!Spec

\* Every callback gets an answer: no set of callbacks waits for a lock for ever.
CallsEnd == \A c \in Calls : <>(pc[c] = "end")
=============================================================================
