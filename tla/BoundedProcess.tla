-------------------------- MODULE BoundedProcess --------------------------
(***************************************************************************)
(* run_bounded_process (tools/worker/bounded_process.py): one child        *)
(* process with bounded input, output and time.  The controller prepares   *)
(* its storage, launches the child, pumps the three pipes until the child  *)
(* has exited and both outputs are at their end, and then, whatever went   *)
(* wrong, kills the group, reaps the child, verifies the retained output   *)
(* and makes a record of the call.                                         *)
(*                                                                         *)
(* Bytes are counted, not kept.  Every system call may raise; an           *)
(* interruption (an exception that is not an Exception, such as            *)
(* KeyboardInterrupt) may arrive in any of them.  The values of the        *)
(* arguments are abstracted to whether the checks accept them.             *)
(***************************************************************************)
EXTENDS Naturals, FiniteSets

CONSTANTS
    Payload,          \* bytes of stdin
    MaxStdout,        \* bounds on what the child writes to its streams
    MaxStderr,
    StdoutBytes,      \* stdout_bytes of the limits
    StderrBytes,      \* stderr_bytes
    CombinedCap,      \* combined_output_bytes
    Productive,       \* ticks until the productive deadline
    Deadline          \* ticks until the deadline of the cleanup

Streams == {"stdout", "stderr"}
MaxOutput == [stdout |-> MaxStdout, stderr |-> MaxStderr]
Cap == [stdout |-> StdoutBytes, stderr |-> StderrBytes]

\* ProcessLimits.__post_init__: what a call's limits are.
ProcessLimits ==
    /\ Payload \in Nat /\ MaxStdout \in Nat /\ MaxStderr \in Nat
    /\ StdoutBytes \in Nat /\ StderrBytes \in Nat
    /\ CombinedCap \in Nat /\ CombinedCap <= StdoutBytes + StderrBytes
    /\ Productive \in Nat \ {0} /\ Deadline \in Nat /\ Productive < Deadline
ASSUME LimitsAssumption == ProcessLimits

VARIABLES
    spool,      \* whether spool_dir is given
    clock,
    phase,      \* where the controller is
    proc,       \* the child: "none", "running", "exited" (unreaped), "reaped"
    group,      \* another process of its group is alive and holds the pipes
    owned,      \* self.child is assigned
    killed,     \* the group has been sent SIGKILL
    pipe,       \* bytes in the output pipes
    wrote,      \* bytes written by the child
    taking,     \* somebody may still read stdin
    selected,   \* the events of this round of the selector
    sink,       \* _Sink of a stream
    written,
    reason,
    errors, final, interrupted,  \* errors, finalization_errors, interruption
    verdict     \* the record that is returned or raised

controller == <<phase, owned, selected, sink, written, reason, errors, final, interrupted, verdict>>
child == <<proc, group, killed, pipe, wrote, taking>>
processVars == <<spool, clock, controller, child>>

NoOutcome == [answer |-> "none"]
NoSink == [open |-> FALSE]
NewSink == [open |-> TRUE, observed |-> 0, written |-> 0, eof |-> FALSE,
            verified |-> FALSE]

processInit ==
    /\ spool \in BOOLEAN
    /\ clock = 0
    /\ phase = "validate" /\ proc = "none" /\ group = FALSE /\ owned = FALSE /\ killed = FALSE
    /\ pipe = [s \in Streams |-> 0] /\ wrote = [s \in Streams |-> 0]
    /\ taking = FALSE /\ selected = {}
    /\ sink = [s \in Streams |-> NoSink]
    /\ written = 0 /\ reason = "exited"
    /\ errors = FALSE /\ final = FALSE /\ interrupted = FALSE
    /\ verdict = NoOutcome

----------------------------------------------------------------------------
(* The child, its group and the clock.  What they do besides exiting matters *)
(* only while somebody is pumping.                                         *)

Alive == proc = "running" \/ group

ChildWrite(s) ==
    /\ phase = "pump" /\ Alive /\ wrote[s] < MaxOutput[s]
    /\ pipe' = [pipe EXCEPT ![s] = @ + 1]
    /\ wrote' = [wrote EXCEPT ![s] = @ + 1]
    /\ UNCHANGED <<spool, clock, controller, proc, group, killed, taking>>

ChildForks ==
    /\ phase = "pump" /\ proc = "running" /\ ~group
    /\ group' = TRUE
    /\ UNCHANGED <<spool, clock, controller, proc, killed, pipe, wrote, taking>>

ChildStopsReading ==
    /\ phase = "pump" /\ Alive /\ taking
    /\ taking' = FALSE
    /\ UNCHANGED <<spool, clock, controller, proc, group, killed, pipe, wrote>>

ChildExits ==
    /\ phase \in {"pump", "reap"} /\ proc = "running"
    /\ proc' = "exited"
    /\ taking' = (taking /\ group)
    /\ UNCHANGED <<spool, clock, controller, group, killed, pipe, wrote>>

GroupExits ==
    /\ phase = "pump" /\ group
    /\ group' = FALSE
    /\ taking' = (taking /\ proc = "running")
    /\ UNCHANGED <<spool, clock, controller, proc, killed, pipe, wrote>>

Tick ==
    /\ phase \notin {"validate", "done"} /\ clock <= Deadline
    /\ clock' = clock + 1
    /\ UNCHANGED <<spool, controller, child>>

----------------------------------------------------------------------------
(* The checks: argv, environment, paths, limits and stdin are copied into  *)
(* values of their own and refused if any is out of bounds.  The clock     *)
(* starts afterwards.                                                      *)

Accept ==
    /\ phase = "validate"
    /\ phase' = "prepare"
    /\ UNCHANGED <<spool, clock, child, owned, selected, sink, written, reason, errors, final,
                   interrupted, verdict>>

Refuse ==
    /\ phase = "validate"
    /\ phase' = "done"
    /\ verdict' = [answer |-> "refused"]
    /\ UNCHANGED <<spool, clock, child, owned, selected, sink, written, reason, errors, final, interrupted>>

----------------------------------------------------------------------------
(* The productive part: prepare_storage, launch and pump.                  *)

\* _remaining
Expired(deadline) == clock >= deadline

Stop(why) ==
    /\ phase' = IF owned THEN "kill" ELSE "stdout"
    /\ reason' = why
    /\ selected' = {}
    /\ UNCHANGED <<written, final, verdict>>

\* except _DeadlineExpiredError, except Exception, except BaseException
StopOnError ==
    \/ Stop("io_error") /\ errors' = TRUE /\ UNCHANGED interrupted
    \/ Stop("cancelled") /\ interrupted' = TRUE /\ UNCHANGED errors

StopOnTimeout ==
    /\ Expired(Productive)
    /\ Stop("timeout") /\ UNCHANGED <<errors, interrupted>>

\* The files of a spool are made one by one.
PrepareStorage ==
    /\ phase = "prepare"
    /\ \/ /\ ~Expired(Productive)
          /\ sink' = [s \in Streams |-> NewSink]
          /\ phase' = "launch"
          /\ UNCHANGED <<selected, written, reason, errors, final, interrupted, verdict>>
       \/ /\ \E made \in {{}, {"stdout"}, Streams} :
                sink' = [s \in Streams |-> IF spool /\ s \in made THEN NewSink ELSE NoSink]
          /\ StopOnError \/ StopOnTimeout
    /\ UNCHANGED <<spool, clock, child, owned>>

\* An interruption inside Popen may leave a process that nobody owns.
Launch ==
    /\ phase = "launch"
    /\ \/ /\ ~Expired(Productive)
          /\ proc' = "running" /\ owned' = TRUE /\ taking' = TRUE
          /\ phase' = "pump"
          /\ UNCHANGED <<selected, written, reason, errors, final, interrupted, verdict>>
       \/ /\ ~Expired(Productive)
          /\ UNCHANGED owned
          /\ \/ /\ Stop("spawn_error")
                /\ errors' = TRUE /\ UNCHANGED <<proc, taking, interrupted>>
             \/ /\ Stop("cancelled")
                /\ proc' \in {"none", "running"}
                /\ interrupted' = TRUE /\ UNCHANGED <<taking, errors>>
       \/ StopOnTimeout /\ UNCHANGED <<proc, owned, taking>>
    /\ UNCHANGED <<spool, clock, group, killed, pipe, wrote, sink>>

AtEnd(s) == pipe[s] = 0 /\ ~Alive

\* What the selector may report: 0 and 1 are the outputs, 2 is stdin.
Index == [stdout |-> 0, stderr |-> 1]
Selectable ==
    {Index[s] : s \in {x \in Streams : ~sink[x].eof /\ (pipe[x] > 0 \/ AtEnd(x))}}
        \cup (IF written < Payload THEN {2} ELSE {})

Exited == proc = "exited"

Round_Reaps ==
    /\ phase = "pump" /\ selected = {} /\ ~Expired(Productive)
    /\ IF Exited /\ \A s \in Streams : sink[s].eof
       THEN /\ Stop(IF written = Payload THEN "exited" ELSE "stdin_closed")
            /\ proc' = "reaped"
            /\ UNCHANGED <<errors, interrupted, group, killed, pipe, wrote, taking>>
       ELSE /\ Selectable # {}
            /\ \E events \in SUBSET Selectable : events # {} /\ selected' = events
            /\ UNCHANGED <<phase, written, reason, errors, final, interrupted, verdict, child>>
    /\ UNCHANGED <<spool, clock, owned, sink>>

\* The head of the loop of pump.  The selector waits at most 50 ms.
Round ==
    /\ phase = "pump" /\ selected = {} /\ ~Expired(Productive)
    /\ IF Exited /\ \A s \in Streams : sink[s].eof
       THEN /\ Stop(IF written = Payload THEN "exited" ELSE "stdin_closed")
            /\ UNCHANGED <<errors, interrupted>>
       ELSE /\ Selectable # {}
            /\ \E events \in SUBSET Selectable : events # {} /\ selected' = events
            /\ UNCHANGED <<phase, written, reason, errors, final, interrupted, verdict>>
    /\ UNCHANGED <<spool, clock, child, owned, sink>>

First(i) == i \in selected /\ \A j \in selected : i <= j
KeepPumping == selected' = selected \ {CHOOSE i \in selected : First(i)}
               /\ UNCHANGED <<phase, reason, errors, final, interrupted, verdict>>

WriteStdin ==
    /\ phase = "pump" /\ First(2) /\ ~Expired(Productive)
    /\ \/ /\ taking
          /\ \E n \in 1..(Payload - written) : written' = written + n
          /\ KeepPumping
       \/ taking /\ KeepPumping /\ UNCHANGED written                   \* BlockingIOError
       \/ ~taking /\ Stop("stdin_closed") /\ UNCHANGED <<errors, interrupted>>
    /\ UNCHANGED <<spool, clock, child, owned, sink>>

Total(field) == sink["stdout"][field] + sink["stderr"][field]
Smallest(x, y) == IF x < y THEN x ELSE y

\* The bytes of a chunk that are retained.
Available(s, n) ==
    Smallest(n, Smallest(Cap[s] - sink[s].written, CombinedCap - Total("written")))

OverLimit(s, n) ==
    IF sink[s].observed + n > Cap[s] THEN IF s = "stdout" THEN "stdout_limit" ELSE "stderr_limit"
    ELSE IF Total("observed") + n > CombinedCap THEN "combined_output_limit"
    ELSE "none"

ReadOutput(s) ==
    /\ phase = "pump" /\ First(Index[s]) /\ ~Expired(Productive)
    /\ IF pipe[s] = 0
       THEN /\ KeepPumping
            /\ sink' = [sink EXCEPT ![s].eof = AtEnd(s)]
            /\ UNCHANGED <<pipe, written>>
       ELSE LET n == pipe[s]
                fits == Available(s, n)
            IN /\ pipe' = [pipe EXCEPT ![s] = 0]
               /\ \/ /\ sink' = [sink EXCEPT ![s].observed = @ + n, ![s].written = @ + fits]
                     /\ IF OverLimit(s, n) # "none"
                        THEN Stop(OverLimit(s, n)) /\ UNCHANGED <<errors, interrupted>>
                        ELSE KeepPumping /\ UNCHANGED written
                  \/ /\ spool                                  \* os.write of a part raises
                     /\ \E m \in 0..fits :
                           sink' = [sink EXCEPT ![s].observed = @ + n, ![s].written = @ + m]
                     /\ StopOnError
    /\ UNCHANGED <<spool, clock, proc, group, killed, wrote, taking, owned>>

PumpFails ==
    /\ phase = "pump"
    /\ StopOnError
    /\ UNCHANGED <<spool, clock, child, owned, sink>>

PumpTimesOut_IfIdle ==
    /\ phase = "pump" /\ Exited
    /\ StopOnTimeout
    /\ UNCHANGED <<spool, clock, child, owned, sink>>

PumpTimesOut ==
    /\ phase = "pump"
    /\ StopOnTimeout
    /\ UNCHANGED <<spool, clock, child, owned, sink>>

----------------------------------------------------------------------------
(* finish: every step is tried, whatever became of the ones before.        *)

Flaws == {"ok", "error", "interrupt"}

\* How the errors of the finalization are sorted out before the record is made.
Note(flaw) ==
    /\ final' = (final \/ flaw # "ok")
    /\ interrupted' = (interrupted \/ flaw = "interrupt")
    /\ errors' = (errors \/ flaw = "error" \/ (flaw = "interrupt" /\ interrupted))
    /\ reason' = IF flaw = "interrupt" /\ ~interrupted THEN "cancelled" ELSE reason
    /\ UNCHANGED <<selected, written, verdict>>

\* _kill_owned_group and the closing of the pipes.
Kill ==
    /\ phase = "kill"
    /\ \E flaw \in Flaws, done \in BOOLEAN :
          /\ flaw = "ok" => done
          /\ killed' = done
          /\ Note(flaw)
    /\ taking' = FALSE
    /\ phase' = "reap"
    /\ UNCHANGED <<spool, clock, proc, group, pipe, wrote, owned, sink>>

\* _reap: waits for the child until the deadline.
Reap ==
    /\ phase = "reap"
    /\ \/ proc = "exited" /\ proc' = "reaped" /\ Note("ok")
       \/ /\ \E flaw \in {"error", "interrupt"} :
                /\ flaw = "error" => Expired(Deadline) \/ ~killed
                /\ Note(flaw)
          /\ UNCHANGED proc
    /\ phase' = "stdout"
    /\ UNCHANGED <<spool, clock, group, killed, pipe, wrote, taking, owned, sink>>

\* verify of a spooled stream, which reads it back before the deadline, or the copy that
\* snapshot makes of one in memory.
After == [stdout |-> "stderr", stderr |-> "seal"]

Verify(s) ==
    /\ phase = s
    /\ \E flaw \in Flaws :
          /\ IF ~sink[s].open THEN flaw = "ok" /\ UNCHANGED sink
             ELSE /\ spool /\ flaw = "ok" => ~Expired(Deadline)
                  /\ sink' = [sink EXCEPT ![s].verified = (flaw = "ok")]
          /\ Note(flaw)
    /\ phase' = After[s]
    /\ UNCHANGED <<spool, clock, child, owned>>

\* The spool directory is synced, the descriptors are closed, the deadline is checked.
Seal ==
    /\ phase = "seal"
    /\ \E flaw \in Flaws :
          /\ clock > Deadline \/ (spool /\ sink["stderr"].open /\ Expired(Deadline)) => flaw # "ok"
          /\ Note(flaw)
    /\ phase' = "record"
    /\ UNCHANGED <<spool, clock, child, owned, sink>>

----------------------------------------------------------------------------
(* The record of the call.                                                 *)

Unknown == "unknown"
Nothing == [kind |-> "none"]

\* _Sink.snapshot
Snapshot(s) ==
    IF ~sink[s].open \/ (~spool /\ ~sink[s].verified) THEN Nothing
    ELSE [kind |-> IF spool THEN "spool" ELSE "memory",
          observed |-> sink[s].observed,
          known |-> ~spool \/ sink[s].verified,        \* retained_bytes is not None
          retained |-> sink[s].written,
          eof |-> sink[s].eof,
          truncated |-> sink[s].written < sink[s].observed]

\* _make_outcome
Make(failed) ==
    [reason |-> reason, started |-> owned,
     returncode |-> IF owned /\ proc = "reaped" THEN "known" ELSE Unknown,
     sent |-> written, out |-> [s \in Streams |-> Snapshot(s)],
     cleanup |-> IF ~owned THEN "not_started" ELSE IF failed THEN "incomplete" ELSE "completed"]

\* ProcessOutcome.__post_init__, for the conditions that are not about types.
Valid(o) ==
    /\ ~o.started => o.returncode = Unknown /\ o.cleanup = "not_started"
    /\ o.started => o.cleanup # "not_started"
    /\ o.sent <= Payload
    /\ o.cleanup = "completed" =>
          /\ o.returncode # Unknown
          /\ \A s \in Streams : o.out[s].kind # "none" /\ o.out[s].known
          /\ o.reason = "exited" =>
                /\ o.sent = Payload
                /\ \A s \in Streams : o.out[s].eof /\ ~o.out[s].truncated

\* StreamEvidence.__post_init__
ValidStream(e) ==
    e.kind # "none" /\ e.known =>
        e.retained <= e.observed /\ (e.retained = e.observed \/ e.truncated)

Answer(o, failed) ==
    [answer |-> IF interrupted THEN "interrupted" ELSE IF failed THEN "raised" ELSE "returned",
     record |-> o]

\* The end of run_bounded_process.  A record that its class refuses is made again as that
\* of a failed cleanup; one that comes too late is too.  A second refusal would leave the
\* call without a record.
Record ==
    LET first == Make(final)
        again == Make(TRUE)
        late == clock > Deadline
        o == IF Valid(first) /\ ~late THEN first ELSE again
    IN /\ phase = "record"
       /\ phase' = "done"
       /\ verdict' = IF Valid(o) /\ \A s \in Streams : ValidStream(o.out[s])
                     THEN Answer(o, errors \/ ~Valid(first) \/ late)
                     ELSE [answer |-> "lost"]
       /\ UNCHANGED <<spool, clock, child, owned, selected, sink, written, reason, errors, final, interrupted>>

Controller ==
    \/ Accept \/ Refuse \/ PrepareStorage \/ Launch \/ Round \/ WriteStdin \/ PumpTimesOut
    \/ \E s \in Streams : ReadOutput(s) \/ Verify(s)
    \/ Kill \/ Reap \/ Seal \/ Record

Child == ChildForks \/ ChildStopsReading \/ ChildExits \/ GroupExits
         \/ \E s \in Streams : ChildWrite(s)

processNext == Controller \/ PumpFails \/ Child \/ Tick

\* The controller is one thread that waits for nothing longer than the selector's 50 ms,
\* and time passes; the child need not do anything and nothing need fail.
processSpec == processInit /\ [][processNext]_processVars /\ WF_processVars(Controller) /\ WF_processVars(Tick)

----------------------------------------------------------------------------
(* Properties.                                                             *)

\* killpg is given the number of a child that has not been waited for, so that the number
\* cannot belong to somebody else's group by then.
KillIsOwned == phase = "kill" => proc \in {"running", "exited"}

\* A record that says the cleanup was completed: the child was waited for, its group was
\* killed, and the record accounts for every byte taken from the pipes, within the limits;
\* if it also says that the child exited by itself, nothing it wrote is missing.
CompletedIsClean ==
    phase = "done" /\ verdict.answer \notin {"lost", "refused"} /\ verdict.record.cleanup = "completed" =>
        LET o == verdict.record
        IN /\ proc = "reaped" /\ killed
           /\ \A s \in Streams : o.out[s].retained <= Cap[s]
           /\ o.out["stdout"].retained + o.out["stderr"].retained <= CombinedCap
           /\ o.reason = "exited" =>
                 \A s \in Streams : o.out[s].retained = wrote[s] /\ pipe[s] = 0

\* Whatever happens to the child, the call ends: a child that never exits, or a grandchild
\* that keeps the pipes open, costs no more than the deadline.
CallEnds == <>(phase = "done")
=============================================================================
