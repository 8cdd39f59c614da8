----------------------------- MODULE WorkerProofs -----------------------------
(***************************************************************************)
(* Proofs about two workers.  The snapshot worker, for any number of jobs, *)
(* tasks, artifacts and deliveries, and any sharing of prefixes between    *)
(* jobs.  And a bounded process with its evidence: whatever the child does *)
(* and whichever system call fails, the kill goes to a child that has not  *)
(* been waited for, a record of a completed cleanup is true, and the       *)
(* record of every call passes the rules it is stored under.               *)
(***************************************************************************)
EXTENDS SnapshotWorker, ProcessEvidence, FiniteSetTheorems, TLAPS

-----------------------------------------------------------------------------
(* The snapshot worker.                                                    *)


Labels == {"idle", "parse", "build", "upload", "ack", "failed", "fail", "unknown_receipt"}

TypeOK ==
    /\ at \in [Jobs -> {"visible", "inflight", "dlq", "deleted"}]
    /\ count \in [Jobs -> 0..MaxReceive]
    /\ pc \in [Tasks -> Labels] /\ job \in [Tasks -> Jobs]
    /\ receipt \in [Tasks -> Nat] /\ handle \in [Tasks -> {"held", "popped"}]
    /\ put \in [Tasks -> 0..NumArtifacts]
    /\ reports \subseteq Jobs \X {"ready", "failed"}

\* The first n artifacts of a job are stored, whoever stored them.
Stored(j, n) == \A i \in 1..n : <<keyOf[j], i>> \in objects

\* What a task knows where it is: it has uploaded nothing before the upload, the
\* artifacts it counted are stored, and it acks only what was reported ready.
Progress(t) ==
    /\ pc[t] \in {"parse", "build"} => put[t] = 0
    /\ pc[t] = "upload" => Stored(job[t], put[t])
    /\ pc[t] = "ack" => <<job[t], "ready">> \in reports

IInv == TypeOK /\ (\A t \in Tasks : Progress(t)) /\ ReadyIsComplete /\ DeletedIsReady

-----------------------------------------------------------------------------
\* Objects and reports are never taken away, so what one task knows holds on
\* while another moves.
LEMMA OthersKeepProgress ==
    ASSUME TypeOK, NEW u \in Tasks, Progress(u),
           objects \subseteq objects', reports \subseteq reports',
           pc'[u] = pc[u], job'[u] = job[u], put'[u] = put[u]
    PROVE  Progress(u)'
BY DEF Progress, Stored

\* Where the reports stay, ready snapshots stay complete.
LEMMA ReadyStays ==
    ASSUME ReadyIsComplete, objects \subseteq objects', reports' = reports
    PROVE  ReadyIsComplete'
BY DEF ReadyIsComplete

\* Where no message is newly deleted, deleted ones stay reported.
LEMMA DeletedStays ==
    ASSUME DeletedIsReady, reports \subseteq reports',
           \A j \in Jobs : at'[j] = "deleted" => at[j] = "deleted"
    PROVE  DeletedIsReady'
BY DEF DeletedIsReady

\* A report that a snapshot failed says nothing of artifacts.
LEMMA FailedReport ==
    ASSUME ReadyIsComplete, objects' = objects, NEW j,
           reports' = reports \/ reports' = reports \cup {<<j, "failed">>}
    PROVE  ReadyIsComplete'
BY DEF ReadyIsComplete

\* The state that every task starts in and ends in.
LEMMA ExitKeeps ==
    ASSUME TypeOK, NEW t \in Tasks, NEW l \in {"idle", "unknown_receipt"}, Exit(t, l),
           \A u \in Tasks : Progress(u),
           objects' = objects, reports' = reports
    PROVE  /\ pc' \in [Tasks -> Labels] /\ job' \in [Tasks -> Jobs]
           /\ receipt' \in [Tasks -> Nat] /\ handle' \in [Tasks -> {"held", "popped"}]
           /\ put' \in [Tasks -> 0..NumArtifacts]
           /\ \A u \in Tasks : Progress(u)'
<1>1. AnyJob \in Jobs
  BY SnapshotWorkerAssumption DEF AnyJob
<1>2. /\ pc' \in [Tasks -> Labels] /\ job' \in [Tasks -> Jobs]
      /\ receipt' \in [Tasks -> Nat] /\ handle' \in [Tasks -> {"held", "popped"}]
      /\ put' \in [Tasks -> 0..NumArtifacts]
  BY <1>1, SnapshotWorkerAssumption DEF Exit, Goto, TypeOK, Labels
<1>3. ASSUME NEW u \in Tasks PROVE Progress(u)'
  <2>1. CASE u = t
    BY <2>1 DEF Exit, Goto, Progress, TypeOK
  <2>2. CASE u # t
    BY <2>2, OthersKeepProgress DEF Exit, Goto, TypeOK
  <2> QED BY <2>1, <2>2
<1> QED BY <1>2, <1>3

LEMMA InitIInv == Init => IInv
<1> SUFFICES ASSUME Init PROVE IInv
  OBVIOUS
<1>1. AnyJob \in Jobs
  BY SnapshotWorkerAssumption DEF AnyJob
<1>2. TypeOK
  BY <1>1, SnapshotWorkerAssumption DEF Init, TypeOK, Labels
<1>3. (\A t \in Tasks : Progress(t)) /\ ReadyIsComplete /\ DeletedIsReady
  BY DEF Init, Progress, ReadyIsComplete, DeletedIsReady
<1> QED BY <1>2, <1>3 DEF IInv

-----------------------------------------------------------------------------
(* One step per action.                                                    *)

LEMMA NextIInv == IInv /\ [Next]_vars => IInv'
<1> SUFFICES ASSUME IInv, [Next]_vars PROVE IInv'
  OBVIOUS
<1> USE SnapshotWorkerAssumption
<1>a. TypeOK /\ (\A t \in Tasks : Progress(t)) /\ ReadyIsComplete /\ DeletedIsReady
  BY DEF IInv
<1>1. ASSUME NEW j \in Jobs, VisibilityTimeout(j) \/ Redrive(j) PROVE IInv'
  <2> USE <1>a, <1>1 DEF VisibilityTimeout, Redrive, task
  <2>1. TypeOK'
    BY DEF TypeOK
  <2>2. \A u \in Tasks : Progress(u)'
    BY OthersKeepProgress
  <2>3. DeletedIsReady'
    BY DeletedStays DEF TypeOK
  <2> QED BY <2>1, <2>2, <2>3, ReadyStays DEF IInv
<1>2. ASSUME NEW t \in Tasks, NEW j \in Jobs, Receive(t, j) PROVE IInv'
  <2> USE <1>a, <1>2 DEF Receive, Goto
  <2>1. TypeOK'
    BY DEF TypeOK, Labels
  <2>2. ASSUME NEW u \in Tasks PROVE Progress(u)'
    <3>1. CASE u = t
      BY <3>1 DEF TypeOK, Progress
    <3>2. CASE u # t
      BY <3>2, OthersKeepProgress DEF TypeOK
    <3> QED BY <3>1, <3>2
  <2>3. DeletedIsReady'
    BY DeletedStays DEF TypeOK
  <2> QED BY <2>1, <2>2, <2>3, ReadyStays DEF IInv
<1>3. ASSUME NEW t \in Tasks, Parse(t) \/ Build(t) \/ Replace(t) PROVE IInv'
  <2> USE <1>a, <1>3 DEF Parse, Build, Replace, Goto, server, task
  <2>1. TypeOK'
    BY DEF TypeOK, Labels
  <2>2. ASSUME NEW u \in Tasks PROVE Progress(u)'
    <3>1. CASE u = t
      BY <3>1 DEF TypeOK, Progress, Stored
    <3>2. CASE u # t
      BY <3>2, OthersKeepProgress DEF TypeOK
    <3> QED BY <3>1, <3>2
  <2>3. DeletedIsReady'
    BY DeletedStays
  <2> QED BY <2>1, <2>2, <2>3, ReadyStays DEF IInv
<1>4. ASSUME NEW t \in Tasks, Upload(t) PROVE IInv'
  <2> DEFINE o == <<keyOf[job[t]], put[t] + 1>>
  <2>0. /\ pc[t] = "upload" /\ put[t] \in 0..NumArtifacts /\ put[t] # NumArtifacts
        /\ UNCHANGED <<at, count, job, receipt, handle, reports>>
    BY <1>a, <1>4 DEF Upload, Uploaded, TypeOK, server
  <2>a. CASE objects' = objects \cup {o} /\ put' = [put EXCEPT ![t] = @ + 1] /\ pc' = pc
    <3>1. TypeOK'
      BY <1>a, <2>0, <2>a DEF TypeOK
    <3>2. Progress(t)'
      <4> SUFFICES ASSUME NEW i \in 1..put'[t] PROVE <<keyOf[job[t]], i>> \in objects'
        BY <1>a, <2>0, <2>a DEF Progress, Stored, TypeOK
      <4>1. put'[t] = put[t] + 1
        BY <1>a, <2>a DEF TypeOK
      <4>2. CASE i = put[t] + 1
        BY <4>2, <2>a
      <4>3. CASE i \in 1..put[t]
        BY <4>3, <1>a, <2>0, <2>a, Zenon DEF Progress, Stored
      <4> QED BY <4>1, <4>2, <4>3, <2>0
    <3>3. ASSUME NEW u \in Tasks, u # t PROVE Progress(u)'
      BY <1>a, <2>0, <2>a, <3>3, OthersKeepProgress DEF TypeOK
    <3>4. ReadyIsComplete' /\ DeletedIsReady'
      BY <1>a, <2>0, <2>a, ReadyStays, DeletedStays
    <3> QED BY <3>1, <3>2, <3>3, <3>4 DEF IInv
  <2>b. CASE objects' \in {objects, objects \cup {o}} /\ put' = put /\ Goto(t, "failed")
    <3>1. TypeOK'
      BY <1>a, <2>0, <2>b DEF TypeOK, Goto, Labels
    <3>2. Progress(t)'
      BY <1>a, <2>b DEF Goto, Progress, TypeOK
    <3>3. ASSUME NEW u \in Tasks, u # t PROVE Progress(u)'
      BY <1>a, <2>0, <2>b, <3>3, OthersKeepProgress DEF TypeOK, Goto
    <3>4. ReadyIsComplete' /\ DeletedIsReady'
      BY <1>a, <2>0, <2>b, ReadyStays, DeletedStays
    <3> QED BY <3>1, <3>2, <3>3, <3>4 DEF IInv
  <2> QED BY <1>4, <2>a, <2>b DEF Upload
<1>5. ASSUME NEW t \in Tasks, ReportReady(t) PROVE IInv'
  <2>0. /\ pc[t] = "upload" /\ put[t] = NumArtifacts /\ job[t] \in Jobs
        /\ UNCHANGED <<at, count, job, receipt, handle, put, objects>>
    BY <1>a, <1>5 DEF ReportReady, Uploaded, TypeOK, server, task
  <2>1. reports' = reports \/ reports' = reports \cup {<<job[t], "ready">>}
    BY <1>5 DEF ReportReady, Reported
  <2>2. (Goto(t, "ack") /\ <<job[t], "ready">> \in reports') \/ Goto(t, "failed")
    BY <1>5 DEF ReportReady, Reported
  <2>3. TypeOK'
    BY <1>a, <2>0, <2>1, <2>2 DEF TypeOK, Goto, Labels
  <2>4. Progress(t)'
    BY <1>a, <2>0, <2>2 DEF Goto, Progress, TypeOK
  <2>5. ASSUME NEW u \in Tasks, u # t PROVE Progress(u)'
    BY <1>a, <2>0, <2>1, <2>2, <2>5, OthersKeepProgress DEF TypeOK, Goto
  <2>6. \A n \in 1..NumArtifacts : <<keyOf[job[t]], n>> \in objects
    BY <1>a, <2>0, Zenon DEF Progress, Stored
  <2>7. ReadyIsComplete'
    BY <1>a, <2>0, <2>1, <2>6 DEF ReadyIsComplete
  <2>8. DeletedIsReady'
    BY <1>a, <2>0, <2>1, DeletedStays
  <2> QED BY <2>3, <2>4, <2>5, <2>7, <2>8 DEF IInv
<1>6. ASSUME NEW t \in Tasks, Ack(t) PROVE IInv'
  <2>0. /\ job[t] \in Jobs /\ <<job[t], "ready">> \in reports
        /\ UNCHANGED <<count, objects, reports>>
        /\ at' = at \/ at' = [at EXCEPT ![job[t]] = "deleted"]
    BY <1>a, <1>6 DEF Ack, TypeOK, Progress
  <2>1. DeletedIsReady'
    BY <1>a, <2>0 DEF DeletedIsReady, TypeOK
  <2>2. at' \in [Jobs -> {"visible", "inflight", "dlq", "deleted"}]
    BY <1>a, <2>0 DEF TypeOK
  <2>3. ReadyIsComplete'
    BY <1>a, <2>0, ReadyStays
  <2>4. CASE Exit(t, "idle")
    BY <1>a, <2>0, <2>1, <2>2, <2>3, <2>4, ExitKeeps DEF IInv, TypeOK
  <2>5. CASE Goto(t, "failed") /\ handle' = [handle EXCEPT ![t] = "popped"] /\ UNCHANGED <<job, receipt, put>>
    <3>1. TypeOK'
      BY <1>a, <2>0, <2>2, <2>5 DEF TypeOK, Goto, Labels
    <3>2. Progress(t)'
      BY <1>a, <2>5 DEF Goto, Progress, TypeOK
    <3>3. ASSUME NEW u \in Tasks, u # t PROVE Progress(u)'
      BY <1>a, <2>0, <2>5, <3>3, OthersKeepProgress DEF TypeOK, Goto
    <3> QED BY <2>1, <2>3, <3>1, <3>2, <3>3 DEF IInv
  <2> QED BY <1>6, <2>4, <2>5 DEF Ack
<1>7. ASSUME NEW t \in Tasks, ReportFailed(t) PROVE IInv'
  <2>0. /\ job[t] \in Jobs /\ Goto(t, "fail") /\ UNCHANGED <<at, count, job, receipt, handle, put, objects>>
        /\ reports' = reports \/ reports' = reports \cup {<<job[t], "failed">>}
    BY <1>a, <1>7 DEF ReportFailed, Reported, TypeOK, server, task
  <2>1. TypeOK'
    BY <1>a, <2>0 DEF TypeOK, Goto, Labels
  <2>2. Progress(t)'
    BY <1>a, <2>0 DEF Goto, Progress, TypeOK
  <2>3. ASSUME NEW u \in Tasks, u # t PROVE Progress(u)'
    BY <1>a, <2>0, <2>3, OthersKeepProgress DEF TypeOK, Goto
  <2>4. ReadyIsComplete' /\ DeletedIsReady'
    BY <1>a, <2>0, FailedReport, DeletedStays, Zenon
  <2> QED BY <2>1, <2>2, <2>3, <2>4 DEF IInv
<1>8. ASSUME NEW t \in Tasks, Fail(t) PROVE IInv'
  <2>0. /\ UNCHANGED <<count, objects, reports>> /\ job[t] \in Jobs
        /\ at' = at \/ at' = [at EXCEPT ![job[t]] = "visible"]
        /\ Exit(t, "idle") \/ Exit(t, "unknown_receipt")
    BY <1>a, <1>8 DEF Fail, TypeOK
  <2>1. ReadyIsComplete' /\ DeletedIsReady'
    BY <1>a, <2>0, ReadyStays, DeletedStays DEF TypeOK
  <2>2. at' \in [Jobs -> {"visible", "inflight", "dlq", "deleted"}]
    BY <1>a, <2>0 DEF TypeOK
  <2> QED BY <1>a, <2>0, <2>1, <2>2, ExitKeeps DEF IInv, TypeOK
<1>9. ASSUME NEW t \in Tasks, Crash(t) PROVE IInv'
  <2>0. UNCHANGED <<at, count, objects, reports>> /\ Exit(t, "idle")
    BY <1>9 DEF Crash, server
  <2>1. ReadyIsComplete' /\ DeletedIsReady'
    BY <1>a, <2>0, ReadyStays, DeletedStays
  <2> QED BY <1>a, <2>0, <2>1, ExitKeeps DEF IInv, TypeOK
<1>10. CASE UNCHANGED vars
  <2>1. TypeOK' /\ ReadyIsComplete' /\ DeletedIsReady'
    BY <1>a, <1>10 DEF vars, TypeOK, ReadyIsComplete, DeletedIsReady
  <2>2. \A u \in Tasks : Progress(u)'
    BY <1>a, <1>10 DEF vars, Progress, Stored
  <2> QED BY <2>1, <2>2 DEF IInv
<1> QED BY <1>1, <1>2, <1>3, <1>4, <1>5, <1>6, <1>7, <1>8, <1>9, <1>10 DEF Next, Step

-----------------------------------------------------------------------------
\* The inductive invariant holds throughout: the theorems below read it off.
THEOREM InvariantHolds == Spec => []IInv
BY InitIInv, NextIInv, PTL DEF Spec

\* The queue, the tasks and the reports keep their types; no message is
\* delivered more than MaxReceive times.
THEOREM TypesCorrect == Spec => []TypeOK
<1>1. IInv => TypeOK
  BY DEF IInv
<1> QED BY InvariantHolds, <1>1, PTL

\* A ready report means that every artifact of the snapshot can be fetched, for
\* any number of tasks that fail between two puts and share prefixes.
THEOREM ReadySnapshotsAreComplete == Spec => []ReadyIsComplete
<1>1. IInv => ReadyIsComplete
  BY DEF IInv
<1> QED BY InvariantHolds, <1>1, PTL

\* Only a job whose snapshot was reported ready leaves the queue by an ack.
THEOREM DeletedJobsAreReady == Spec => []DeletedIsReady
<1>1. IInv => DeletedIsReady
  BY DEF IInv
<1> QED BY InvariantHolds, <1>1, PTL

-----------------------------------------------------------------------------
(* A bounded process and its evidence.                                     *)

\* Zenon proves what has no arithmetic; a step that needs SMT cites it.
USE Zenon

Sinks == [open : {TRUE}, observed : Nat, written : Nat, eof : BOOLEAN, verified : BOOLEAN]
Phases == {"validate", "prepare", "launch", "pump", "kill", "reap", "stdout", "stderr", "seal", "record", "done"}
Early == {"validate", "prepare", "launch"}

ProcessTypes ==
    /\ spool \in BOOLEAN /\ clock \in Nat /\ phase \in Phases
    /\ proc \in {"none", "running", "exited", "reaped"}
    /\ group \in BOOLEAN /\ owned \in BOOLEAN /\ killed \in BOOLEAN
    /\ pipe \in [Streams -> Nat] /\ wrote \in [Streams -> Nat]
    /\ sink \in [Streams -> Sinks \cup {NoSink}]
    /\ written \in 0..Payload
    /\ errors \in BOOLEAN /\ final \in BOOLEAN /\ interrupted \in BOOLEAN

\* What the controller owns at each phase.
Staged ==
    /\ phase \in Early => ~owned /\ ~group /\ proc = "none" /\ \A s \in Streams : wrote[s] = 0 /\ pipe[s] = 0
    /\ phase = "launch" => sink = [s \in Streams |-> NewSink]
    /\ phase \in {"pump", "kill", "reap"} => owned /\ proc \in {"running", "exited"}
    /\ owned => \A s \in Streams : sink[s] \in Sinks
    /\ phase \notin {"pump", "kill"} /\ owned /\ ~final => killed

\* The bytes of one sink, and of both.
Bytes(k, s) ==
    k.open =>
        /\ k.written <= k.observed /\ k.written <= Cap[s] /\ wrote[s] = k.observed + pipe[s]
        /\ k.eof => pipe[s] = 0 /\ ~Alive
Counted ==
    /\ \A s \in Streams : Bytes(sink[s], s)
    /\ (\A s \in Streams : sink[s].open) => Total("written") <= CombinedCap

\* A call that is done was refused, or has a record that can be stored.
Recorded ==
    phase = "done" => \/ verdict.answer = "refused"
                      \/ /\ verdict.answer \in {"interrupted", "raised", "returned"}
                         /\ OutcomeFields(verdict.record)
                         /\ \A s \in Streams : verdict.record.out[s].kind \in {"none", "memory", "spool"}

\* The inductive invariant of a call.
CallInv == ProcessTypes /\ Staged /\ Counted /\ Recorded /\ CompletedIsClean /\ stored # "refused"

-----------------------------------------------------------------------------
\* The fields of a sink that is open.
LEMMA SinkFields ==
    ASSUME NEW k \in Sinks
    PROVE  /\ k.open = TRUE /\ k.observed \in Nat /\ k.written \in Nat
           /\ k.eof \in BOOLEAN /\ k.verified \in BOOLEAN
  BY Zenon DEF Sinks

\* A stream without storage is not open.
LEMMA Unopened == ~NoSink.open
  BY SMT DEF NoSink

\* A sink is open exactly when it is made.
LEMMA OpenSink ==
    ASSUME ProcessTypes, NEW s \in Streams
    PROVE  /\ sink[s] \in Sinks \/ sink[s] = NoSink
           /\ sink[s].open => sink[s] \in Sinks
  BY Unopened DEF ProcessTypes

\* What a new sink holds.
LEMMA EmptySink == NewSink \in Sinks /\ NewSink.open /\ NewSink.observed = 0 /\ NewSink.written = 0 /\ ~NewSink.eof
  BY SMT DEF NewSink, Sinks

\* Before a call is done there is nothing to say of its record.
LEMMA NotDone ==
    ASSUME phase' # "done"
    PROVE  Recorded' /\ CompletedIsClean'
  BY DEF Recorded, CompletedIsClean

\* The initial state satisfies the invariant.
LEMMA CallInit == EvidenceInit => CallInv
<1> SUFFICES ASSUME EvidenceInit PROVE CallInv
  OBVIOUS
<1>1. ProcessTypes
  <2>1. written \in 0..Payload /\ clock \in Nat
    BY LimitsAssumption, SMT DEF ProcessLimits, EvidenceInit, processInit
  <2>2. pipe \in [Streams -> Nat] /\ wrote \in [Streams -> Nat]
    BY SMT DEF EvidenceInit, processInit
  <2>3. sink \in [Streams -> Sinks \cup {NoSink}]
    BY DEF EvidenceInit, processInit
  <2> QED BY <2>1, <2>2, <2>3 DEF EvidenceInit, processInit, ProcessTypes, Phases
<1>2. Staged
  BY SMT DEF EvidenceInit, processInit, Staged, Early
<1>3. Counted
  BY Unopened, SMT DEF EvidenceInit, processInit, Counted, Bytes, Streams
<1>4. Recorded /\ CompletedIsClean /\ stored # "refused"
  BY SMT DEF EvidenceInit, processInit, Recorded, CompletedIsClean
<1> QED BY <1>1, <1>2, <1>3, <1>4 DEF CallInv

\* Sinks and bytes that stay, with no more writers than before, stay counted.
LEMMA CountsStay ==
    ASSUME Counted, UNCHANGED <<sink, pipe, wrote>>, Alive' => Alive
    PROVE  Counted'
<1>1. \A s \in Streams : Bytes(sink[s], s)'
  BY DEF Counted, Bytes
<1>2. (\A s \in Streams : sink'[s].open) => (Total("written"))' <= CombinedCap
  BY DEF Counted, Total
<1> QED BY <1>1, <1>2 DEF Counted

\* The child's own steps: a byte it writes is in the pipe, and nobody writes after the end.
LEMMA ChildKeeps ==
    ASSUME CallInv, Child \/ Tick, UNCHANGED stored
    PROVE  CallInv'
<1>1. /\ UNCHANGED <<spool, controller, killed>>
      /\ clock' \in Nat /\ phase # "done"
  BY SMT DEF CallInv, ProcessTypes, Child, Tick, ChildForks, ChildStopsReading, ChildExits, GroupExits,
             ChildWrite, child
<1>2. Recorded' /\ CompletedIsClean'
  BY <1>1, NotDone DEF controller
<1>3. CASE UNCHANGED <<pipe, wrote>>
  <2>1. /\ proc' = proc \/ (proc = "running" /\ proc' = "exited" /\ phase \in {"pump", "reap"})
        /\ group' \in BOOLEAN /\ (Alive' => Alive)
        /\ phase \notin {"pump", "reap"} => UNCHANGED <<proc, group>>
    <3>1. CASE ChildForks
      BY <3>1 DEF ChildForks, Alive
    <3>2. CASE ChildStopsReading
      BY <3>2 DEF ChildStopsReading, Alive, CallInv, ProcessTypes
    <3>3. CASE ChildExits
      BY <3>3 DEF ChildExits, Alive, CallInv, ProcessTypes
    <3>4. CASE GroupExits
      BY <3>4 DEF GroupExits, Alive
    <3>5. CASE \E s \in Streams : ChildWrite(s)
      BY <3>5 DEF ChildWrite, Alive, CallInv, ProcessTypes
    <3>6. CASE Tick
      BY <3>6 DEF Tick, child, Alive, CallInv, ProcessTypes
    <3> QED BY <3>1, <3>2, <3>3, <3>4, <3>5, <3>6 DEF Child
  <2>2. Counted'
    BY <1>1, <1>3, <2>1, CountsStay DEF CallInv, controller
  <2>3. ProcessTypes'
    BY <1>1, <1>3, <2>1 DEF CallInv, ProcessTypes, controller
  <2>4. Staged'
    BY <1>1, <1>3, <2>1 DEF CallInv, Staged, controller, Early
  <2> QED BY <1>2, <2>2, <2>3, <2>4 DEF CallInv
<1>4. ASSUME NEW s \in Streams, ChildWrite(s)
      PROVE  CallInv'
  <2>1. /\ phase = "pump" /\ Alive /\ UNCHANGED <<proc, group>>
        /\ pipe' = [pipe EXCEPT ![s] = @ + 1] /\ wrote' = [wrote EXCEPT ![s] = @ + 1]
    BY <1>4 DEF ChildWrite
  <2>2. pipe \in [Streams -> Nat] /\ wrote \in [Streams -> Nat]
    BY DEF CallInv, ProcessTypes
  <2>3. /\ pipe' \in [Streams -> Nat] /\ wrote' \in [Streams -> Nat]
        /\ \A r \in Streams : \/ pipe'[r] = pipe[r] /\ wrote'[r] = wrote[r]
                              \/ pipe'[r] = pipe[r] + 1 /\ wrote'[r] = wrote[r] + 1
    BY ONLY <2>1, <2>2, SMT
  <2>4. ASSUME NEW r \in Streams PROVE Bytes(sink[r], r)'
    <3>1. sink' = sink /\ Bytes(sink[r], r)
      BY <1>1 DEF CallInv, Counted, controller
    <3>2. CASE sink[r].open
      <4>1. sink[r].observed \in Nat /\ pipe[r] \in Nat
        BY <2>2, <3>2, OpenSink, SinkFields DEF CallInv
      <4>2. /\ sink[r].written <= sink[r].observed /\ sink[r].written <= Cap[r]
            /\ wrote[r] = sink[r].observed + pipe[r]
            /\ ~sink[r].eof
        BY <2>1, <3>1, <3>2 DEF Bytes
      <4>3. wrote'[r] = sink[r].observed + pipe'[r]
        BY ONLY <2>3, <4>1, <4>2, SMT
      <4> QED BY <3>1, <4>2, <4>3 DEF Bytes
    <3>3. CASE ~sink[r].open
      BY <3>1, <3>3 DEF Bytes
    <3> QED BY <3>2, <3>3
  <2>5. Counted'
    BY <1>1, <2>4 DEF CallInv, Counted, controller, Total
  <2>6. ProcessTypes'
    BY <1>1, <2>1, <2>3 DEF CallInv, ProcessTypes, controller
  <2>7. Staged'
    BY <1>1, <2>1 DEF CallInv, Staged, controller, Early
  <2> QED BY <1>2, <2>5, <2>6, <2>7 DEF CallInv
<1> QED BY <1>3, <1>4 DEF Child, Tick, child, ChildForks, ChildStopsReading, ChildExits, GroupExits

\* The limits of the streams are numbers.
LEMMA CapIsNat == \A s \in Streams : Cap[s] \in Nat
  BY LimitsAssumption, SMT DEF ProcessLimits, Cap, Streams

\* Before anything is written, new sinks are counted.
LEMMA FreshCounts ==
    ASSUME \A s \in Streams : sink'[s] \in {NewSink, NoSink} /\ pipe'[s] = 0 /\ wrote'[s] = 0
    PROVE  Counted'
<1>1. ASSUME NEW s \in Streams PROVE Bytes(sink[s], s)'
  <2>1. CASE sink'[s] = NoSink
    BY <2>1, Unopened DEF Bytes
  <2>2. CASE sink'[s] = NewSink
    <3>1. 0 <= 0 /\ 0 <= Cap[s] /\ 0 = 0 + 0
      BY CapIsNat, SMT
    <3> QED BY <2>2, <3>1, EmptySink DEF Bytes
  <2> QED BY <2>1, <2>2
<1>2. ASSUME \A s \in Streams : sink'[s].open PROVE (Total("written"))' <= CombinedCap
  <2>1. sink'["stdout"].written = 0 /\ sink'["stderr"].written = 0
    BY <1>2, Unopened, EmptySink DEF Streams
  <2> QED BY <2>1, LimitsAssumption, SMT DEF ProcessLimits, Total
<1> QED BY <1>1, <1>2 DEF Counted

\* Where a stop leads.
LEMMA Stopping ==
    ASSUME CallInv, StopOnError \/ StopOnTimeout
    PROVE  /\ phase' = IF owned THEN "kill" ELSE "stdout"
           /\ errors' \in BOOLEAN /\ interrupted' \in BOOLEAN /\ UNCHANGED <<written, final, verdict>>
  BY DEF StopOnError, StopOnTimeout, Stop, CallInv, ProcessTypes

\* The checks of the arguments.
LEMMA ValidateKeeps ==
    ASSUME CallInv, Accept \/ Refuse, UNCHANGED stored
    PROVE  CallInv'
<1>1. /\ phase = "validate" /\ UNCHANGED <<spool, clock, child, owned, sink, written, errors, final, interrupted>>
      /\ phase' = "prepare" \/ (phase' = "done" /\ verdict' = [answer |-> "refused"])
  BY DEF Accept, Refuse
<1>2. Counted'
  BY <1>1, CountsStay DEF CallInv, child, Alive
<1>3. ProcessTypes'
  BY <1>1, ZenonT(40) DEF CallInv, ProcessTypes, child, Phases
<1>4. Staged'
  BY <1>1 DEF CallInv, Staged, child, Early
<1>5. Recorded' /\ CompletedIsClean'
  <2>1. CASE phase' = "prepare"
    BY <2>1, NotDone
  <2>2. CASE phase' = "done" /\ verdict' = [answer |-> "refused"]
    <3>1. verdict'.answer = "refused"
      BY ONLY <2>2, SMT
    <3> QED BY <3>1 DEF Recorded, CompletedIsClean
  <2> QED BY <1>1, <2>1, <2>2
<1> QED BY <1>2, <1>3, <1>4, <1>5 DEF CallInv

\* prepare_storage: the sinks are new, all of them when the call goes on.
LEMMA PrepareKeeps ==
    ASSUME CallInv, PrepareStorage, UNCHANGED stored
    PROVE  CallInv'
<1>1. phase = "prepare" /\ UNCHANGED <<spool, clock, child, owned>>
  BY DEF PrepareStorage
<1>2. ~owned /\ ~group /\ proc = "none" /\ \A s \in Streams : wrote[s] = 0 /\ pipe[s] = 0
  BY <1>1 DEF CallInv, Staged, Early
<1>3. \/ /\ sink' = [s \in Streams |-> NewSink] /\ phase' = "launch"
         /\ UNCHANGED <<written, errors, final, interrupted, verdict>>
      \/ /\ \E made \in {{}, {"stdout"}, Streams} :
                sink' = [s \in Streams |-> IF spool /\ s \in made THEN NewSink ELSE NoSink]
         /\ phase' = "stdout"
         /\ errors' \in BOOLEAN /\ interrupted' \in BOOLEAN /\ UNCHANGED <<written, final, verdict>>
  BY <1>2, Stopping DEF PrepareStorage
<1>4. sink' \in [Streams -> {NewSink, NoSink}] /\ phase' \in {"launch", "stdout"}
  BY <1>3
<1>5. Counted'
  BY <1>1, <1>2, <1>4, FreshCounts DEF child
<1>6. ProcessTypes'
  <2>1. sink' \in [Streams -> Sinks \cup {NoSink}]
    BY <1>4, EmptySink
  <2>2. errors' \in BOOLEAN /\ interrupted' \in BOOLEAN /\ written' = written /\ final' = final
    BY <1>3 DEF CallInv, ProcessTypes
  <2> QED BY <1>1, <1>4, <2>1, <2>2 DEF CallInv, ProcessTypes, child, Phases
<1>7. Staged'
  BY <1>1, <1>2, <1>3, <1>4 DEF Staged, child, Early
<1>8. Recorded' /\ CompletedIsClean'
  BY <1>4, NotDone
<1> QED BY <1>5, <1>6, <1>7, <1>8 DEF CallInv

\* launch: the child is owned, or nobody owns what Popen may have left.
LEMMA LaunchKeeps ==
    ASSUME CallInv, Launch, UNCHANGED stored
    PROVE  CallInv'
<1>1. phase = "launch" /\ UNCHANGED <<spool, clock, group, killed, pipe, wrote, sink>>
  BY DEF Launch
<1>2. /\ ~owned /\ ~group /\ proc = "none" /\ \A s \in Streams : wrote[s] = 0 /\ pipe[s] = 0
      /\ sink = [s \in Streams |-> NewSink]
  BY <1>1 DEF CallInv, Staged, Early
<1>3. \/ /\ proc' = "running" /\ owned' = TRUE /\ phase' = "pump"
         /\ UNCHANGED <<written, errors, final, interrupted, verdict>>
      \/ /\ proc' \in {"none", "running"} /\ owned' = FALSE /\ phase' = "stdout"
         /\ errors' \in BOOLEAN /\ interrupted' \in BOOLEAN /\ UNCHANGED <<written, final, verdict>>
  BY <1>2, Stopping DEF Launch, Stop, CallInv, ProcessTypes
<1>4. Counted'
  BY <1>1, <1>2, FreshCounts
<1>5. ProcessTypes'
  BY <1>1, <1>3 DEF CallInv, ProcessTypes, Phases
<1>6. Staged'
  BY <1>1, <1>2, <1>3, EmptySink DEF Staged, Early
<1>7. Recorded' /\ CompletedIsClean'
  BY <1>3, NotDone
<1> QED BY <1>4, <1>5, <1>6, <1>7 DEF CallInv

\* A step of the pump that goes on or stops, with its sinks counted.
LEMMA PumpKeeps ==
    ASSUME CallInv, phase = "pump", phase' \in {"pump", "kill"},
           UNCHANGED <<spool, clock, proc, group, killed, wrote, owned, final, stored>>,
           written' \in 0..Payload, errors' \in BOOLEAN, interrupted' \in BOOLEAN,
           pipe' \in [Streams -> Nat], sink' \in [Streams -> Sinks], Counted'
    PROVE  CallInv'
<1>1. owned /\ proc \in {"running", "exited"}
  BY DEF CallInv, Staged
<1>2. ProcessTypes'
  BY DEF CallInv, ProcessTypes, Phases
<1>3. Staged'
  BY <1>1 DEF CallInv, Staged, Early
<1>4. Recorded' /\ CompletedIsClean'
  BY NotDone
<1> QED BY <1>2, <1>3, <1>4 DEF CallInv

\* What the pump works on.
LEMMA Pumped ==
    ASSUME CallInv, phase = "pump"
    PROVE  /\ owned /\ sink \in [Streams -> Sinks] /\ Counted
           /\ pipe \in [Streams -> Nat] /\ written \in 0..Payload
           /\ errors \in BOOLEAN /\ interrupted \in BOOLEAN
<1>1. \A s \in Streams : sink[s] \in Sinks
  BY DEF CallInv, Staged
<1>2. sink \in [Streams -> Sinks \cup {NoSink}]
  BY DEF CallInv, ProcessTypes
<1>3. sink \in [Streams -> Sinks]
  BY ONLY <1>1, <1>2
<1> QED BY <1>3 DEF CallInv, Staged, ProcessTypes

\* The steps of the pump that take no output.
LEMMA QuietPumpKeeps ==
    ASSUME CallInv, Round \/ WriteStdin \/ PumpFails \/ PumpTimesOut, UNCHANGED stored
    PROVE  CallInv'
<1>1. phase = "pump" /\ UNCHANGED <<spool, clock, child, owned, sink>>
  BY DEF Round, WriteStdin, PumpFails, PumpTimesOut
<1>2. owned /\ written \in 0..Payload /\ errors \in BOOLEAN /\ interrupted \in BOOLEAN
  BY <1>1, Pumped
<1>3. /\ phase' \in {"pump", "kill"} /\ final' = final /\ errors' \in BOOLEAN /\ interrupted' \in BOOLEAN
      /\ written' = written \/ \E n \in 1..(Payload - written) : written' = written + n
  <2>1. CASE Round
    BY <1>1, <1>2, <2>1 DEF Round, Stop
  <2>2. CASE WriteStdin
    BY <1>1, <1>2, <2>2 DEF WriteStdin, Stop, KeepPumping
  <2>3. CASE PumpFails \/ PumpTimesOut
    BY <1>1, <1>2, <2>3, Stopping DEF PumpFails, PumpTimesOut
  <2> QED BY <2>1, <2>2, <2>3
<1>4. written' \in 0..Payload
  BY ONLY <1>2, <1>3, LimitsAssumption, SMT DEF ProcessLimits
<1>5. Counted'
  BY <1>1, CountsStay DEF CallInv, child, Alive
<1> QED BY <1>1, <1>3, <1>4, <1>5, Pumped, PumpKeeps DEF child

\* One field of a record at a time.
LEMMA FieldChanges ==
    ASSUME NEW A, NEW B, NEW x \in Nat, NEW y \in B,
           NEW v \in [open : A, observed : Nat, written : Nat, eof : B, verified : B]
    PROVE  /\ LET u == [v EXCEPT !.observed = x] IN
              /\ u \in [open : A, observed : Nat, written : Nat, eof : B, verified : B]
              /\ u.observed = x /\ u.written = v.written /\ u.eof = v.eof /\ u.open = v.open
           /\ LET u == [v EXCEPT !.written = x] IN
              /\ u \in [open : A, observed : Nat, written : Nat, eof : B, verified : B]
              /\ u.observed = v.observed /\ u.written = x /\ u.eof = v.eof /\ u.open = v.open
           /\ LET u == [v EXCEPT !.eof = y] IN
              /\ u \in [open : A, observed : Nat, written : Nat, eof : B, verified : B]
              /\ u.observed = v.observed /\ u.written = v.written /\ u.eof = y /\ u.open = v.open
           /\ LET u == [v EXCEPT !.verified = y] IN
              /\ u \in [open : A, observed : Nat, written : Nat, eof : B, verified : B]
              /\ u.observed = v.observed /\ u.written = v.written /\ u.eof = v.eof /\ u.open = v.open
  BY SMT

\* What the end of a stream makes of its sink.
LEMMA SinkEnds ==
    ASSUME sink \in [Streams -> Sinks \cup {NoSink}], NEW s \in Streams, sink[s] \in Sinks, NEW y \in BOOLEAN,
           sink' = [sink EXCEPT ![s].eof = y]
    PROVE  /\ sink'[s] \in Sinks /\ sink'[s].observed = sink[s].observed /\ sink'[s].written = sink[s].written
           /\ sink'[s].eof = y
           /\ sink' \in [Streams -> Sinks \cup {NoSink}] /\ \A r \in Streams : r # s => sink'[r] = sink[r]
<1> DEFINE k == [sink[s] EXCEPT !.eof = y]
<1>1. /\ k \in Sinks /\ k.observed = sink[s].observed /\ k.written = sink[s].written /\ k.eof = y
  BY FieldChanges, 0 \in Nat DEF Sinks
<1>2. sink' = [sink EXCEPT ![s] = k]
  OBVIOUS
<1> HIDE DEF k
<1>3. sink'[s] = k /\ sink' \in [Streams -> Sinks \cup {NoSink}] /\ \A r \in Streams : r # s => sink'[r] = sink[r]
  BY <1>1, <1>2
<1> QED BY <1>1, <1>3

\* What its verification makes of it.
LEMMA SinkVerified ==
    ASSUME sink \in [Streams -> Sinks \cup {NoSink}], NEW s \in Streams, sink[s] \in Sinks, NEW y \in BOOLEAN,
           sink' = [sink EXCEPT ![s].verified = y]
    PROVE  /\ sink'[s] \in Sinks /\ sink'[s].observed = sink[s].observed /\ sink'[s].written = sink[s].written
           /\ sink'[s].eof = sink[s].eof
           /\ sink' \in [Streams -> Sinks \cup {NoSink}] /\ \A r \in Streams : r # s => sink'[r] = sink[r]
<1> DEFINE k == [sink[s] EXCEPT !.verified = y]
<1>1. /\ k \in Sinks /\ k.observed = sink[s].observed /\ k.written = sink[s].written /\ k.eof = sink[s].eof
  BY FieldChanges, 0 \in Nat DEF Sinks
<1>2. sink' = [sink EXCEPT ![s] = k]
  OBVIOUS
<1> HIDE DEF k
<1>3. sink'[s] = k /\ sink' \in [Streams -> Sinks \cup {NoSink}] /\ \A r \in Streams : r # s => sink'[r] = sink[r]
  BY <1>1, <1>2
<1> QED BY <1>1, <1>3

\* The bytes of a chunk that fit are within the limit of the stream and of both.
LEMMA Fitting ==
    ASSUME CallInv, phase = "pump", NEW s \in Streams, NEW m \in 0..Available(s, pipe[s])
    PROVE  /\ m \in Nat /\ m <= pipe[s] /\ sink[s].written + m <= Cap[s]
           /\ sink["stdout"].written + sink["stderr"].written + m <= CombinedCap
<1>1. /\ sink["stdout"].written \in Nat /\ sink["stderr"].written \in Nat /\ pipe[s] \in Nat
      /\ sink[s].written \in Nat /\ Cap[s] \in Nat
  BY Pumped, SinkFields, CapIsNat DEF Streams
<1>2. sink[s].written <= Cap[s] /\ sink["stdout"].written + sink["stderr"].written <= CombinedCap
  BY Pumped, SinkFields DEF Counted, Bytes, Total
<1>3. m \in 0..Smallest(pipe[s], Smallest(Cap[s] - sink[s].written,
                                          CombinedCap - (sink["stdout"].written + sink["stderr"].written)))
  BY DEF Available, Total
<1> QED BY ONLY <1>1, <1>2, <1>3, LimitsAssumption, SMT DEF ProcessLimits, Smallest

\* A chunk that is taken from the pipe stays counted, whatever part of it is retained.
LEMMA ChunkCounts ==
    ASSUME CallInv, phase = "pump", NEW s \in Streams, NEW m \in 0..Available(s, pipe[s]),
           sink' = [sink EXCEPT ![s].observed = @ + pipe[s], ![s].written = @ + m],
           pipe' = [pipe EXCEPT ![s] = 0], UNCHANGED <<wrote, proc, group>>
    PROVE  sink' \in [Streams -> Sinks] /\ pipe' \in [Streams -> Nat] /\ Counted'
<1>1. sink \in [Streams -> Sinks] /\ pipe \in [Streams -> Nat] /\ Counted
  BY Pumped
<1>2. /\ m \in Nat /\ m <= pipe[s] /\ sink[s].written + m <= Cap[s]
      /\ sink["stdout"].written + sink["stderr"].written + m <= CombinedCap
  BY Fitting
<1>3. pipe' \in [Streams -> Nat] /\ pipe'[s] = 0 /\ \A r \in Streams : r # s => pipe'[r] = pipe[r]
  BY ONLY <1>1, pipe' = [pipe EXCEPT ![s] = 0], s \in Streams, SMT
<1>4. /\ sink' \in [Streams -> Sinks] /\ sink'[s].observed = sink[s].observed + pipe[s]
      /\ sink'[s].written = sink[s].written + m /\ sink'[s].eof = sink[s].eof
      /\ \A r \in Streams : r # s => sink'[r] = sink[r]
  <2>1. pipe[s] \in Nat /\ m \in Nat
    BY <1>1, <1>2
  <2> DEFINE k == [sink[s] EXCEPT !.observed = sink[s].observed + pipe[s]]
             h == [sink EXCEPT ![s] = k]
             v == [h[s] EXCEPT !.written = sink[s].written + m]
             g == [h EXCEPT ![s] = v]
  <2>2. sink[s] \in Sinks /\ sink[s].observed + pipe[s] \in Nat /\ sink[s].written + m \in Nat
    <3>1. sink[s] \in Sinks
      BY <1>1
    <3>2. sink[s].observed \in Nat /\ sink[s].written \in Nat
      BY <3>1, SinkFields
    <3> QED BY <2>1, <3>1, <3>2, SMT
  <2>3. /\ k \in Sinks /\ k.observed = sink[s].observed + pipe[s] /\ k.written = sink[s].written
        /\ k.eof = sink[s].eof
    BY <2>2, FieldChanges DEF Sinks
  <2> HIDE DEF k
  <2>4. h \in [Streams -> Sinks] /\ h[s] = k /\ \A r \in Streams : r # s => h[r] = sink[r]
    BY <1>1, <2>3
  <2> HIDE DEF h
  <2>5. v \in Sinks /\ v.observed = k.observed /\ v.written = sink[s].written + m /\ v.eof = k.eof
    BY <2>2, <2>3, <2>4, FieldChanges DEF Sinks
  <2> HIDE DEF v
  <2>6. g \in [Streams -> Sinks] /\ g[s] = v /\ \A r \in Streams : r # s => g[r] = h[r]
    BY <2>4, <2>5
  <2>7. /\ g \in [Streams -> Sinks] /\ g[s].observed = sink[s].observed + pipe[s]
        /\ g[s].written = sink[s].written + m
        /\ g[s].eof = sink[s].eof /\ \A r \in Streams : r # s => g[r] = sink[r]
    BY <2>3, <2>4, <2>5, <2>6
  <2>8. sink' = g
    BY DEF g, v, h, k
  <2> QED BY <2>7, <2>8
<1>5. ASSUME NEW r \in Streams PROVE Bytes(sink[r], r)'
  <2>1. Bytes(sink[r], r) /\ sink[r].open /\ sink'[r].open
    BY <1>1, <1>4, SinkFields DEF Counted
  <2>2. CASE r # s
    <3>1. sink'[r] = sink[r] /\ pipe'[r] = pipe[r]
      BY <1>3, <1>4, <2>2
    <3> QED BY <2>1, <3>1 DEF Bytes, Alive
  <2>3. CASE r = s
    <3>1. /\ sink[s].written <= sink[s].observed /\ wrote[s] = sink[s].observed + pipe[s]
          /\ sink[s].eof => ~Alive
      BY <2>1, <2>3 DEF Bytes
    <3>2. sink[s].written \in Nat /\ sink[s].observed \in Nat /\ pipe[s] \in Nat
      BY <1>1, SinkFields
    <3>3. sink[s].written + m <= sink[s].observed + pipe[s] /\ wrote[s] = (sink[s].observed + pipe[s]) + 0
      BY ONLY <1>2, <3>1, <3>2, SMT
    <3> QED BY <1>2, <1>3, <1>4, <2>3, <3>1, <3>3 DEF Bytes, Alive
  <2> QED BY <2>2, <2>3
<1>6. (Total("written"))' <= CombinedCap
  <2>1. sink["stdout"].written \in Nat /\ sink["stderr"].written \in Nat
    BY <1>1, SinkFields DEF Streams
  <2>2. CASE s = "stdout"
    <3>1. sink'["stdout"].written = sink["stdout"].written + m /\ sink'["stderr"].written = sink["stderr"].written
      BY <1>4, <2>2 DEF Streams
    <3> QED BY ONLY <1>2, <2>1, <3>1, LimitsAssumption, SMT DEF ProcessLimits, Total
  <2>3. CASE s = "stderr"
    <3>1. sink'["stderr"].written = sink["stderr"].written + m /\ sink'["stdout"].written = sink["stdout"].written
      BY <1>4, <2>3 DEF Streams
    <3> QED BY ONLY <1>2, <2>1, <3>1, LimitsAssumption, SMT DEF ProcessLimits, Total
  <2> QED BY <2>2, <2>3 DEF Streams
<1> QED BY <1>3, <1>4, <1>5, <1>6 DEF Counted

\* One event of an output: the end of the stream, or a chunk.
LEMMA ReadKeeps ==
    ASSUME CallInv, NEW s \in Streams, ReadOutput(s), UNCHANGED stored
    PROVE  CallInv'
<1>1. phase = "pump" /\ UNCHANGED <<spool, clock, proc, group, killed, wrote, owned>>
  BY DEF ReadOutput
<1>2. /\ owned /\ sink \in [Streams -> Sinks] /\ Counted /\ pipe \in [Streams -> Nat] /\ written \in 0..Payload
      /\ errors \in BOOLEAN /\ interrupted \in BOOLEAN
  BY <1>1, Pumped
<1>3. CASE pipe[s] = 0
  <2>1. /\ sink' = [sink EXCEPT ![s].eof = AtEnd(s)]
        /\ UNCHANGED <<pipe, written, phase, errors, final, interrupted>>
    BY <1>3 DEF ReadOutput, KeepPumping
  <2>2. AtEnd(s) \in BOOLEAN /\ (AtEnd(s) => ~Alive)
    BY DEF AtEnd
  <2>3. /\ sink'[s] \in Sinks /\ sink'[s].observed = sink[s].observed /\ sink'[s].written = sink[s].written
        /\ sink'[s].eof = AtEnd(s) /\ sink' \in [Streams -> Sinks \cup {NoSink}]
        /\ \A r \in Streams : r # s => sink'[r] = sink[r]
    <3>1. sink \in [Streams -> Sinks \cup {NoSink}] /\ sink[s] \in Sinks
      BY <1>2
    <3> QED BY <2>1, <2>2, <3>1, SinkEnds
  <2>4. sink' \in [Streams -> Sinks]
    BY <1>2, <2>3
  <2>5. ASSUME NEW r \in Streams PROVE Bytes(sink[r], r)'
    <3>1. Bytes(sink[r], r) /\ sink[r].open
      BY <1>2, SinkFields DEF Counted
    <3>2. CASE r # s
      <4>1. sink'[r] = sink[r]
        BY <2>3, <3>2
      <4> QED BY <1>1, <2>1, <3>1, <4>1 DEF Bytes, Alive
    <3>3. CASE r = s
      BY <1>1, <1>3, <2>1, <2>2, <2>3, <3>1, <3>3 DEF Bytes, Alive
    <3> QED BY <3>2, <3>3
  <2>6. Total("written") <= CombinedCap
    BY <1>2, SinkFields DEF Counted
  <2>7. \A r \in Streams : sink'[r].written = sink[r].written
    BY <2>3
  <2>8. (Total("written"))' <= CombinedCap
    BY <2>6, <2>7 DEF Total, Streams
  <2>9. Counted'
    BY <2>5, <2>8 DEF Counted
  <2> QED BY <1>1, <1>2, <2>1, <2>4, <2>9, PumpKeeps
<1>4. CASE pipe[s] # 0
  <2>1. pipe' = [pipe EXCEPT ![s] = 0]
    BY <1>4 DEF ReadOutput
  <2>2. /\ phase' \in {"pump", "kill"} /\ errors' \in BOOLEAN /\ interrupted' \in BOOLEAN
        /\ UNCHANGED <<written, final>>
    BY <1>1, <1>2, <1>4, Stopping DEF ReadOutput, Stop, KeepPumping
  <2>3. PICK m \in 0..Available(s, pipe[s]) :
          sink' = [sink EXCEPT ![s].observed = @ + pipe[s], ![s].written = @ + m]
    <3>1. Available(s, pipe[s]) \in 0..Available(s, pipe[s])
      <4>1. /\ sink["stdout"].written \in Nat /\ sink["stderr"].written \in Nat /\ pipe[s] \in Nat
            /\ sink[s].written \in Nat /\ Cap[s] \in Nat
        BY <1>2, SinkFields, CapIsNat DEF Streams
      <4>2. sink[s].written <= Cap[s] /\ sink["stdout"].written + sink["stderr"].written <= CombinedCap
        BY <1>2, SinkFields DEF Counted, Bytes, Total
      <4>3. Smallest(pipe[s], Smallest(Cap[s] - sink[s].written,
                                       CombinedCap - (sink["stdout"].written + sink["stderr"].written))) \in Nat
        BY ONLY <4>1, <4>2, LimitsAssumption, SMT DEF ProcessLimits, Smallest
      <4>4. Available(s, pipe[s]) \in Nat
        BY <4>3 DEF Available, Total
      <4> QED BY ONLY <4>4, SMT
    <3> QED BY <1>4, <3>1 DEF ReadOutput
  <2>4. sink' \in [Streams -> Sinks] /\ pipe' \in [Streams -> Nat] /\ Counted'
    BY <1>1, <2>1, <2>3, ChunkCounts
  <2> QED BY <1>1, <1>2, <2>2, <2>4, PumpKeeps
<1> QED BY <1>3, <1>4

\* What a step of finish notes keeps its types, and an error is never forgotten.
LEMMA Noted ==
    ASSUME CallInv, NEW flaw \in Flaws, Note(flaw)
    PROVE  /\ errors' \in BOOLEAN /\ interrupted' \in BOOLEAN /\ final' \in BOOLEAN /\ written' = written
           /\ ~final' => ~final /\ flaw = "ok"
  BY DEF Note, CallInv, ProcessTypes

\* The steps of finish that leave the sinks alone.
LEMMA FinishKeeps ==
    ASSUME CallInv, phase \in {"kill", "reap", "stdout", "stderr", "seal"},
           phase' \in {"reap", "stdout", "stderr", "seal", "record"}, phase' = "reap" => phase = "kill",
           UNCHANGED <<spool, clock, group, pipe, wrote, owned, stored>>,
           killed' \in BOOLEAN, errors' \in BOOLEAN, interrupted' \in BOOLEAN, final' \in BOOLEAN,
           written' = written,
           owned /\ ~final' => killed',
           proc' = proc \/ (proc = "exited" /\ proc' = "reaped" /\ phase' # "reap"),
           sink' \in [Streams -> Sinks \cup {NoSink}], Counted',
           \A s \in Streams : sink[s] \in Sinks => sink'[s] \in Sinks
    PROVE  CallInv'
<1>1. ProcessTypes'
  BY DEF CallInv, ProcessTypes, Phases
<1>2. Staged'
  BY DEF CallInv, Staged, Early
<1>3. Recorded' /\ CompletedIsClean'
  BY NotDone
<1> QED BY <1>1, <1>2, <1>3 DEF CallInv

\* Kill, Reap and Seal.
LEMMA CleanupKeeps ==
    ASSUME CallInv, Kill \/ Reap \/ Seal, UNCHANGED stored
    PROVE  CallInv'
<1>1. UNCHANGED <<spool, clock, group, pipe, wrote, owned, sink>>
  BY DEF Kill, Reap, Seal, child
<1>2. /\ proc' = proc \/ (proc = "exited" /\ proc' = "reaped" /\ phase' # "reap")
      /\ phase \in {"kill", "reap", "stdout", "stderr", "seal"}
      /\ phase' \in {"reap", "stdout", "stderr", "seal", "record"} /\ (phase' = "reap" => phase = "kill")
  BY DEF Kill, Reap, Seal, child
<1>3. Counted'
  BY <1>1, <1>2, CountsStay DEF CallInv, Alive
<1>4. /\ errors' \in BOOLEAN /\ interrupted' \in BOOLEAN /\ final' \in BOOLEAN /\ written' = written
      /\ killed' \in BOOLEAN /\ (owned /\ ~final' => killed')
  <2>1. CASE Kill
    <3>1. PICK flaw \in Flaws, done \in BOOLEAN : (flaw = "ok" => done) /\ killed' = done /\ Note(flaw)
      BY <2>1 DEF Kill
    <3> QED BY <3>1, Noted
  <2>2. CASE Reap \/ Seal
    <3>1. PICK flaw \in Flaws : Note(flaw)
      BY <2>2 DEF Reap, Seal, Flaws
    <3>2. killed' = killed /\ phase \notin {"pump", "kill"}
      BY <2>2 DEF Reap, Seal, child
    <3> QED BY <3>1, <3>2, Noted DEF CallInv, Staged, ProcessTypes
  <2> QED BY <2>1, <2>2
<1> QED BY <1>1, <1>2, <1>3, <1>4, FinishKeeps DEF CallInv, ProcessTypes

\* The verification of a stream says nothing of its bytes.
LEMMA VerifyKeeps ==
    ASSUME CallInv, NEW s \in Streams, Verify(s), UNCHANGED stored
    PROVE  CallInv'
<1>1. phase = s /\ UNCHANGED <<spool, clock, child, owned>> /\ phase' = After[s]
  BY DEF Verify
<1>2. phase \in {"stdout", "stderr"} /\ phase' \in {"stderr", "seal"}
  BY <1>1, SMT DEF After, Streams
<1>3. PICK flaw \in Flaws :
        /\ Note(flaw)
        /\ \/ sink' = sink
           \/ sink[s].open /\ sink' = [sink EXCEPT ![s].verified = (flaw = "ok")]
  BY DEF Verify
<1>4. sink \in [Streams -> Sinks \cup {NoSink}] /\ Counted
  BY DEF CallInv, ProcessTypes
<1>5. /\ sink' \in [Streams -> Sinks \cup {NoSink}] /\ Counted'
      /\ \A r \in Streams : sink[r] \in Sinks => sink'[r] \in Sinks
  <2>1. CASE sink' = sink
    BY <1>1, <1>4, <2>1, CountsStay DEF child, Alive
  <2>2. CASE sink[s].open /\ sink' = [sink EXCEPT ![s].verified = (flaw = "ok")]
    <3>1. sink[s] \in Sinks /\ (flaw = "ok") \in BOOLEAN
      BY <2>2, OpenSink DEF CallInv
    <3>2. /\ sink'[s] \in Sinks /\ sink'[s].observed = sink[s].observed /\ sink'[s].written = sink[s].written
          /\ sink'[s].eof = sink[s].eof
          /\ sink' \in [Streams -> Sinks \cup {NoSink}] /\ \A r \in Streams : r # s => sink'[r] = sink[r]
      BY <1>4, <2>2, <3>1, SinkVerified
    <3>3. sink'[s].open
      BY <3>2, SinkFields
    <3>4. ASSUME NEW r \in Streams PROVE Bytes(sink[r], r)'
      <4>1. CASE r = s
        BY <1>1, <1>4, <2>2, <3>2, <4>1 DEF Counted, Bytes, Alive, child
      <4>2. CASE r # s
        <5>1. sink'[r] = sink[r]
          BY <3>2, <4>2
        <5> QED BY <1>1, <1>4, <5>1 DEF Counted, Bytes, Alive, child
      <4> QED BY <4>1, <4>2
    <3>5. \A r \in Streams : sink'[r].written = sink[r].written /\ (sink'[r].open => sink[r].open)
      BY <2>2, <3>2
    <3>6. (\A r \in Streams : sink'[r].open) => (Total("written"))' <= CombinedCap
      BY <1>4, <3>5 DEF Counted, Total, Streams
    <3> QED BY <3>2, <3>4, <3>6 DEF Counted
  <2> QED BY <1>3, <2>1, <2>2
<1>6. /\ errors' \in BOOLEAN /\ interrupted' \in BOOLEAN /\ final' \in BOOLEAN /\ written' = written
      /\ (owned /\ ~final' => killed)
  BY <1>2, <1>3, Noted DEF CallInv, Staged
<1> QED BY <1>1, <1>2, <1>5, <1>6, FinishKeeps DEF CallInv, ProcessTypes, child

\* What a record says of a stream: nothing, or what its sink holds.
LEMMA Shown ==
    ASSUME NEW s \in Streams
    PROVE  \/ Snapshot(s).kind = "none"
           \/ /\ Snapshot(s).kind \in {"memory", "spool"} /\ sink[s].open
              /\ Snapshot(s).observed = sink[s].observed /\ Snapshot(s).retained = sink[s].written
              /\ Snapshot(s).eof = sink[s].eof /\ Snapshot(s).truncated = (sink[s].written < sink[s].observed)
              /\ Snapshot(s).kind = "memory" => Snapshot(s).known
<1>1. CASE ~sink[s].open \/ (~spool /\ ~sink[s].verified)
  <2>1. Snapshot(s) = Nothing
    BY <1>1 DEF Snapshot
  <2>2. Nothing.kind = "none"
    BY SMT DEF Nothing
  <2> QED BY <2>1, <2>2
<1>2. CASE ~(~sink[s].open \/ (~spool /\ ~sink[s].verified))
  <2> DEFINE a == IF spool THEN "spool" ELSE "memory"
             b == ~spool \/ sink[s].verified
             c == sink[s].written < sink[s].observed
             e == [kind |-> a, observed |-> sink[s].observed, known |-> b, retained |-> sink[s].written,
                   eof |-> sink[s].eof, truncated |-> c]
  <2>1. Snapshot(s) = e /\ sink[s].open
    BY <1>2 DEF Snapshot
  <2>2. a \in {"memory", "spool"} /\ (a = "memory" => b)
    OBVIOUS
  <2> HIDE DEF a, b
  <2>3. /\ e.kind = a /\ e.observed = sink[s].observed /\ e.known = b /\ e.retained = sink[s].written
        /\ e.eof = sink[s].eof /\ e.truncated = c
    OBVIOUS
  <2> HIDE DEF e
  <2> QED BY <2>1, <2>2, <2>3 DEF c
<1> QED BY <1>1, <1>2

\* The record of a stream passes both sets of rules, its own class's and the evidence's.
LEMMA StreamIsValid ==
    ASSUME CallInv, NEW s \in Streams
    PROVE  /\ ValidStream(Snapshot(s)) /\ OutputFields(Snapshot(s))
           /\ Snapshot(s).kind \in {"none", "memory", "spool"}
<1>1. CASE Snapshot(s).kind = "none"
  BY <1>1 DEF ValidStream, OutputFields
<1>2. CASE Snapshot(s).kind # "none"
  <2>1. /\ Snapshot(s).kind \in {"memory", "spool"} /\ sink[s].open
        /\ Snapshot(s).observed = sink[s].observed /\ Snapshot(s).retained = sink[s].written
        /\ Snapshot(s).truncated = (sink[s].written < sink[s].observed)
        /\ Snapshot(s).kind = "memory" => Snapshot(s).known
    BY <1>2, Shown
  <2>2. sink[s].written \in Nat /\ sink[s].observed \in Nat /\ sink[s].written <= sink[s].observed
    BY <2>1, OpenSink, SinkFields DEF CallInv, Counted, Bytes
  <2>3. sink[s].written = sink[s].observed \/ sink[s].written < sink[s].observed
    BY ONLY <2>2, SMT
  <2> QED BY <2>1, <2>2, <2>3 DEF ValidStream, OutputFields
<1> QED BY <1>1, <1>2

\* The fields of a record.
LEMMA Made ==
    ASSUME NEW failed \in BOOLEAN
    PROVE  /\ Make(failed).reason = reason /\ Make(failed).started = owned /\ Make(failed).sent = written
           /\ Make(failed).returncode = (IF owned /\ proc = "reaped" THEN "known" ELSE Unknown)
           /\ \A s \in Streams : Make(failed).out[s] = Snapshot(s)
           /\ Make(failed).cleanup
                = (IF ~owned THEN "not_started" ELSE IF failed THEN "incomplete" ELSE "completed")
<1> DEFINE code == IF owned /\ proc = "reaped" THEN "known" ELSE Unknown
           out == [s \in Streams |-> Snapshot(s)]
           clean == IF ~owned THEN "not_started" ELSE IF failed THEN "incomplete" ELSE "completed"
           o == [reason |-> reason, started |-> owned, returncode |-> code, sent |-> written,
                 out |-> out, cleanup |-> clean]
<1>1. Make(failed) = o
  BY DEF Make
<1>2. \A s \in Streams : out[s] = Snapshot(s)
  OBVIOUS
<1> HIDE DEF code, out, clean
<1>3. /\ o.reason = reason /\ o.started = owned /\ o.returncode = code /\ o.sent = written
      /\ o.out = out /\ o.cleanup = clean
  OBVIOUS
<1> HIDE DEF o
<1> QED BY <1>1, <1>2, <1>3 DEF code, clean

\* The record of a failed cleanup is never refused.
LEMMA IncompleteIsValid ==
    ASSUME CallInv
    PROVE  Valid(Make(TRUE))
<1>1. written <= Payload /\ owned \in BOOLEAN
  <2>1. written \in 0..Payload /\ owned \in BOOLEAN
    BY DEF CallInv, ProcessTypes
  <2> QED BY ONLY <2>1, LimitsAssumption, SMT DEF ProcessLimits
<1>2. /\ Make(TRUE).started = owned /\ Make(TRUE).sent = written
      /\ Make(TRUE).returncode = (IF owned /\ proc = "reaped" THEN "known" ELSE Unknown)
      /\ Make(TRUE).cleanup = (IF ~owned THEN "not_started" ELSE "incomplete")
  BY Made
<1> QED BY <1>1, <1>2 DEF Valid

\* A record that says the cleanup was completed says what happened.
LEMMA CompletedIsTrue ==
    ASSUME CallInv, phase = "record", Valid(Make(final)), Make(final).cleanup = "completed"
    PROVE  /\ proc = "reaped" /\ killed
           /\ \A s \in Streams : Make(final).out[s].retained <= Cap[s]
           /\ Make(final).out["stdout"].retained + Make(final).out["stderr"].retained <= CombinedCap
           /\ Make(final).reason = "exited" =>
                 \A s \in Streams : Make(final).out[s].retained = wrote[s] /\ pipe[s] = 0
<1>1. /\ final \in BOOLEAN /\ pipe \in [Streams -> Nat] /\ owned \in BOOLEAN
      /\ \A s \in Streams : Bytes(sink[s], s)
  BY DEF CallInv, ProcessTypes, Counted
<1>2. /\ Make(final).returncode = (IF owned /\ proc = "reaped" THEN "known" ELSE Unknown)
      /\ \A s \in Streams : Make(final).out[s] = Snapshot(s)
      /\ Make(final).cleanup = (IF ~owned THEN "not_started" ELSE IF final THEN "incomplete" ELSE "completed")
  BY <1>1, Made
<1>3. owned /\ ~final
  BY <1>2
<1>4. Make(final).returncode # Unknown /\ \A s \in Streams : Make(final).out[s].kind # "none"
  BY DEF Valid
<1>5. proc = "reaped" /\ killed
  BY <1>2, <1>3, <1>4 DEF CallInv, Staged
<1>6. \A s \in Streams :
        /\ sink[s].open /\ Make(final).out[s].retained = sink[s].written /\ Make(final).out[s].eof = sink[s].eof
        /\ Make(final).out[s].truncated = (sink[s].written < sink[s].observed)
  BY <1>2, <1>4, Shown
<1>7. \A s \in Streams : Make(final).out[s].retained <= Cap[s]
  BY <1>1, <1>6 DEF Bytes
<1>8. Make(final).out["stdout"].retained + Make(final).out["stderr"].retained <= CombinedCap
  <2>1. Total("written") <= CombinedCap
    BY <1>6 DEF CallInv, Counted
  <2> QED BY <1>6, <2>1 DEF Total, Streams
<1>9. ASSUME Make(final).reason = "exited", NEW s \in Streams
      PROVE  Make(final).out[s].retained = wrote[s] /\ pipe[s] = 0
  <2>1. sink[s].eof /\ ~(sink[s].written < sink[s].observed)
    BY <1>6, <1>9 DEF Valid
  <2>2. sink[s].written <= sink[s].observed /\ wrote[s] = sink[s].observed + pipe[s] /\ pipe[s] = 0
    BY <1>1, <1>6, <2>1 DEF Bytes
  <2>3. sink[s].written \in Nat /\ sink[s].observed \in Nat
    BY <1>6, OpenSink, SinkFields DEF CallInv
  <2>4. sink[s].written = wrote[s]
    BY ONLY <2>1, <2>2, <2>3, SMT
  <2> QED BY <1>6, <2>2, <2>4
<1> QED BY <1>5, <1>7, <1>8, <1>9

\* The end of the call: there is a record, it is true, and it can be stored.
LEMMA RecordKeeps ==
    ASSUME CallInv, Record, UNCHANGED stored
    PROVE  CallInv'
<1> DEFINE late == clock > Deadline
           o == IF Valid(Make(final)) /\ ~late THEN Make(final) ELSE Make(TRUE)
           bad == errors \/ ~Valid(Make(final)) \/ late
<1>1. /\ phase = "record" /\ phase' = "done"
      /\ UNCHANGED <<spool, clock, child, owned, selected, sink, written, reason, errors, final, interrupted>>
  BY DEF Record
<1>2. verdict' = IF Valid(o) /\ \A s \in Streams : ValidStream(o.out[s])
                 THEN Answer(o, bad) ELSE [answer |-> "lost"]
  BY DEF Record
<1>3. o = Make(TRUE) \/ (o = Make(final) /\ Valid(Make(final)))
  OBVIOUS
<1> HIDE DEF o, bad
<1>4. final \in BOOLEAN /\ TRUE \in BOOLEAN
  BY DEF CallInv, ProcessTypes
<1>5. \A s \in Streams : o.out[s] = Snapshot(s)
  BY <1>3, <1>4, Made
<1>6. Valid(o) /\ \A s \in Streams : ValidStream(o.out[s])
  BY <1>3, <1>5, IncompleteIsValid, StreamIsValid
<1>7. verdict' = Answer(o, bad)
  BY <1>2, <1>6
<1>8. /\ Answer(o, bad).record = o
      /\ Answer(o, bad).answer = (IF interrupted THEN "interrupted" ELSE IF bad THEN "raised" ELSE "returned")
  BY DEF Answer
<1>9. verdict'.record = o /\ verdict'.answer \in {"interrupted", "raised", "returned"}
  BY <1>7, <1>8
<1>10. Recorded'
  <2>1. \A s \in Streams : OutputFields(o.out[s]) /\ o.out[s].kind \in {"none", "memory", "spool"}
    BY <1>5, StreamIsValid
  <2>2. OutcomeFields(o)
    <3>1. o.started \in BOOLEAN
      BY <1>3, <1>4, Made DEF CallInv, ProcessTypes
    <3> QED BY <1>6, <2>1, <3>1 DEF Valid, OutcomeFields
  <2> QED BY <1>9, <2>1, <2>2 DEF Recorded
<1>11. CompletedIsClean'
  <2>1. UNCHANGED <<proc, killed, wrote, pipe>>
    BY <1>1 DEF child
  <2>2. CASE o.cleanup = "completed"
    <3>1. o = Make(final) /\ Valid(Make(final))
      <4>1. Make(TRUE).cleanup # "completed"
        BY <1>4, Made
      <4> QED BY <1>3, <2>2, <4>1
    <3>2. /\ proc = "reaped" /\ killed
          /\ \A s \in Streams : o.out[s].retained <= Cap[s]
          /\ o.out["stdout"].retained + o.out["stderr"].retained <= CombinedCap
          /\ o.reason = "exited" => \A s \in Streams : o.out[s].retained = wrote[s] /\ pipe[s] = 0
      BY <1>1, <2>2, <3>1, CompletedIsTrue
    <3> QED BY <1>9, <2>1, <3>2 DEF CompletedIsClean
  <2>3. CASE o.cleanup # "completed"
    BY <1>9, <2>3 DEF CompletedIsClean
  <2> QED BY <2>2, <2>3
<1>12. ProcessTypes' /\ Staged' /\ Counted'
  <2>1. Counted'
    BY <1>1, CountsStay DEF CallInv, child, Alive
  <2>2. ProcessTypes'
    BY <1>1 DEF CallInv, ProcessTypes, child, Phases
  <2>3. Staged'
    BY <1>1 DEF CallInv, Staged, child, Early
  <2> QED BY <2>1, <2>2, <2>3
<1> QED BY <1>10, <1>11, <1>12 DEF CallInv

-----------------------------------------------------------------------------
\* A set grows by at most one.
LEMMA OneMore ==
    ASSUME NEW A, NEW n \in Nat, IsFiniteSet(A) /\ Cardinality(A) <= n, NEW x
    PROVE  IsFiniteSet(A \cup {x}) /\ Cardinality(A \cup {x}) <= n + 1
<1>1. /\ IsFiniteSet(A \cup {x})
      /\ Cardinality(A \cup {x}) = Cardinality(A) \/ Cardinality(A \cup {x}) = Cardinality(A) + 1
  BY FS_AddElement
<1>2. Cardinality(A) \in Nat
  BY FS_CardinalityType
<1> QED BY ONLY <1>1, <1>2, n \in Nat, Cardinality(A) <= n, SMT

\* The blobs of one call fit its pack.
LEMMA BlobsFit ==
    ASSUME NEW o, NEW backs, NEW failed \in BOOLEAN, NEW same \in BOOLEAN
    PROVE  Fits(Blobs(o, backs, failed, same))
<1> DEFINE one == {} \cup {<<"call", "requested">>}
           two == one \cup {<<"call", "result">>}
           three == two \cup {<<"call", "invocation">>}
           four == three \cup {<<"call", "error graph">>}
           five == four \cup {<<"stdout", "path">>}
           six == five \cup {<<"stderr", "path">>}
           seven == six \cup {<<"stdout", "data">>}
           all == seven \cup {<<"stderr", "data">>}
           blobs == Blobs(o, backs, failed, same)
<1>1. blobs \subseteq all
  <2>1. {<<s, "path">> : s \in {x \in Streams : o.out[x].kind = "spool"}} \subseteq all
    BY DEF Streams
  <2>2. {<<s, "data">> : s \in {x \in Streams : o.out[x].kind = "memory" \/ backs[x] # "none"}} \subseteq all
    BY DEF Streams
  <2> QED BY <2>1, <2>2 DEF Blobs
<1>2. /\ 0 \in Nat /\ 1 \in Nat /\ 2 \in Nat /\ 3 \in Nat /\ 4 \in Nat /\ 5 \in Nat /\ 6 \in Nat /\ 7 \in Nat
      /\ 0 + 1 = 1 /\ 1 + 1 = 2 /\ 2 + 1 = 3 /\ 3 + 1 = 4 /\ 4 + 1 = 5 /\ 5 + 1 = 6 /\ 6 + 1 = 7 /\ 7 + 1 = 8
  BY SMT
<1>3. IsFiniteSet({}) /\ Cardinality({}) <= 0
  <2>1. IsFiniteSet({}) /\ Cardinality({}) = 0
    BY FS_EmptySet
  <2> QED BY ONLY <2>1, SMT
<1> HIDE DEF one, two, three, four, five, six, seven, all, blobs
<1>4. IsFiniteSet(one) /\ Cardinality(one) <= 1
  BY <1>2, <1>3, OneMore DEF one
<1>5. IsFiniteSet(two) /\ Cardinality(two) <= 2
  BY <1>2, <1>4, OneMore DEF two
<1>6. IsFiniteSet(three) /\ Cardinality(three) <= 3
  BY <1>2, <1>5, OneMore DEF three
<1>7. IsFiniteSet(four) /\ Cardinality(four) <= 4
  BY <1>2, <1>6, OneMore DEF four
<1>8. IsFiniteSet(five) /\ Cardinality(five) <= 5
  BY <1>2, <1>7, OneMore DEF five
<1>9. IsFiniteSet(six) /\ Cardinality(six) <= 6
  BY <1>2, <1>8, OneMore DEF six
<1>10. IsFiniteSet(seven) /\ Cardinality(seven) <= 7
  BY <1>2, <1>9, OneMore DEF seven
<1>11. IsFiniteSet(all) /\ Cardinality(all) <= 8
  BY <1>2, <1>10, OneMore DEF all
<1>12. IsFiniteSet(blobs) /\ Cardinality(blobs) <= Cardinality(all)
  BY <1>1, <1>11, FS_Subset
<1>13. Cardinality(blobs) \in Nat /\ Cardinality(all) \in Nat
  BY <1>11, <1>12, FS_CardinalityType
<1>14. Cardinality(blobs) <= MaxBlobs
  BY ONLY <1>11, <1>12, <1>13, BlobsAssumption, SMT
<1> QED BY <1>14 DEF Fits, blobs

\* The custody that is written of a stream passes the rule of its readers.
LEMMA CustodyIsRead ==
    ASSUME NEW e, NEW back \in Readbacks, e.kind \in {"none", "memory", "spool"},
           OutputFields(e), e.kind # "spool" => back = "none"
    PROVE  StoredOutput(e, back, Custody(e, back))
<1>1. CASE e.kind = "none"
  BY <1>1 DEF StoredOutput
<1>2. CASE e.kind = "memory"
  <2>1. Custody(e, back) = "verified"
    BY <1>2, SMT DEF Custody
  <2> QED BY <1>2, <2>1 DEF StoredOutput, OutputFields
<1>3. CASE e.kind = "spool"
  <2>1. CASE back = "none"
    <3>1. Custody(e, back) = "unavailable"
      BY <1>3, <2>1, SMT DEF Custody
    <3> QED BY <1>3, <2>1, <3>1 DEF StoredOutput
  <2>2. CASE back # "none" /\ ~e.known
    <3>1. Custody(e, back) = "diagnostic-copy"
      BY <1>3, <2>2, SMT DEF Custody
    <3> QED BY <1>3, <2>2, <3>1 DEF StoredOutput
  <2>3. CASE back = "same" /\ e.known
    <3>1. Custody(e, back) = "verified"
      BY <1>3, <2>3, SMT DEF Custody
    <3> QED BY <1>3, <2>3, <3>1 DEF StoredOutput
  <2>4. CASE back = "other" /\ e.known
    <3>1. Custody(e, back) = "mismatch"
      BY <1>3, <2>4, SMT DEF Custody
    <3> QED BY <1>3, <2>4, <3>1 DEF StoredOutput
  <2> QED BY <2>1, <2>2, <2>3, <2>4 DEF Readbacks
<1> QED BY <1>1, <1>2, <1>3

\* A step that leaves the process alone keeps what is said of it.
LEMMA ProcessRests ==
    ASSUME CallInv, UNCHANGED processVars, stored' # "refused"
    PROVE  CallInv'
<1>1. /\ UNCHANGED <<spool, clock, phase, proc, group, owned, killed, pipe, wrote, sink, written, errors, final>>
      /\ UNCHANGED <<interrupted, verdict>>
  BY DEF processVars, controller, child
<1>2. ProcessTypes'
  BY <1>1 DEF CallInv, ProcessTypes
<1>3. Staged'
  BY <1>1 DEF CallInv, Staged
<1>4. Recorded'
  BY <1>1 DEF CallInv, Recorded
<1>5. CompletedIsClean'
  BY <1>1 DEF CallInv, CompletedIsClean
<1>6. Counted'
  BY <1>1, CountsStay DEF CallInv, Alive
<1> QED BY <1>2, <1>3, <1>4, <1>5, <1>6 DEF CallInv

\* No record of a call is refused by prepare_call_result.
LEMMA PrepareResultKeeps ==
    ASSUME CallInv, PrepareCallResult
    PROVE  CallInv'
<1>1. phase = "done" /\ UNCHANGED processVars
  BY DEF PrepareCallResult
<1>2. stored' # "refused"
  <2>1. CASE verdict.answer = "refused"
    <3>1. stored' = "stored"
      BY <2>1 DEF PrepareCallResult
    <3> QED BY <3>1
  <2>2. CASE verdict.answer # "refused"
    <3>1. /\ verdict.answer # "lost" /\ OutcomeFields(verdict.record)
          /\ \A s \in Streams : verdict.record.out[s].kind \in {"none", "memory", "spool"}
      BY <1>1, <2>2 DEF CallInv, Recorded
    <3>2. PICK backs \in [Streams -> Readbacks], same \in BOOLEAN :
            /\ \A s \in Streams : verdict.record.out[s].kind # "spool" => backs[s] = "none"
            /\ stored' = IF /\ OutcomeFields(verdict.record)
                            /\ Fits(Blobs(verdict.record, backs, verdict.answer # "returned", same))
                            /\ ResultFields(verdict.record, backs)
                         THEN "stored" ELSE "refused"
      BY <2>2, <3>1 DEF PrepareCallResult
    <3>3. ResultFields(verdict.record, backs)
      <4>1. \A s \in Streams : OutputFields(verdict.record.out[s]) /\ backs[s] \in Readbacks
        BY <3>1 DEF OutcomeFields
      <4> QED BY <3>1, <3>2, <4>1, CustodyIsRead DEF ResultFields
    <3>4. Fits(Blobs(verdict.record, backs, verdict.answer # "returned", same))
      BY BlobsFit
    <3>5. stored' = "stored"
      BY <3>1, <3>2, <3>3, <3>4
    <3> QED BY <3>5
  <2> QED BY <2>1, <2>2
<1> QED BY <1>1, <1>2, ProcessRests

\* Every step keeps the invariant.
LEMMA CallStep == CallInv /\ [EvidenceNext]_evidenceVars => CallInv'
<1> SUFFICES ASSUME CallInv, [EvidenceNext]_evidenceVars PROVE CallInv'
  OBVIOUS
<1>1. CASE Run
  <2>1. UNCHANGED stored /\ (Controller \/ PumpFails \/ Child \/ Tick)
    BY <1>1 DEF Run, processNext
  <2>2. CASE Child \/ Tick
    BY <2>1, <2>2, ChildKeeps
  <2>3. CASE Accept \/ Refuse
    BY <2>1, <2>3, ValidateKeeps
  <2>4. CASE PrepareStorage
    BY <2>1, <2>4, PrepareKeeps
  <2>5. CASE Launch
    BY <2>1, <2>5, LaunchKeeps
  <2>6. CASE Round \/ WriteStdin \/ PumpTimesOut \/ PumpFails
    BY <2>1, <2>6, QuietPumpKeeps
  <2>7. CASE \E s \in Streams : ReadOutput(s) \/ Verify(s)
    BY <2>1, <2>7, ReadKeeps, VerifyKeeps
  <2>8. CASE Kill \/ Reap \/ Seal
    BY <2>1, <2>8, CleanupKeeps
  <2>9. CASE Record
    BY <2>1, <2>9, RecordKeeps
  <2> QED BY <2>1, <2>2, <2>3, <2>4, <2>5, <2>6, <2>7, <2>8, <2>9, ZenonT(40) DEF Controller
<1>2. CASE PrepareCallResult
  BY <1>2, PrepareResultKeeps
<1>3. CASE UNCHANGED evidenceVars
  BY <1>3, ProcessRests DEF CallInv, evidenceVars
<1> QED BY <1>1, <1>2, <1>3 DEF EvidenceNext

\* Whatever the child does, whichever system call fails and whenever an interruption or a
\* deadline comes: the signal of _kill_owned_group goes to a child that has not been waited
\* for, a record of a completed cleanup is true, and prepare_call_result stores every record.
THEOREM CallsAreAccounted == EvidenceSpec => []CallIsAccounted
<1>1. CallInv => CallIsAccounted
  BY DEF CallInv, Staged, CallIsAccounted, KillIsOwned, OutcomeIsStorable
<1> QED BY <1>1, CallInit, CallStep, PTL DEF EvidenceSpec
=============================================================================
