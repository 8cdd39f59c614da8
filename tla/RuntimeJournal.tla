--------------------------- MODULE RuntimeJournal ---------------------------
(***************************************************************************)
(* The automaton that replays the journal of one container attempt         *)
(* (_Replay in tools/worker/runtime_journal.py).  A behaviour is a journal *)
(* that replay accepts: one step is one accepted event, and the guard of a *)
(* step is the conjunction of the _need calls on its path.                 *)
(*                                                                         *)
(* Client calls to the container engine are recorded in two events, an     *)
(* intent and later a result; the results of several calls interleave with *)
(* the phases of the attempt.  The class of a result is all that replay    *)
(* looks at: "healthy" (exited 0, both streams whole), "failed" (the       *)
(* client is gone, or was never started) or "leaked" (it may still run).   *)
(*                                                                         *)
(* Digests, identifiers, sizes and timestamps are left out: chained events *)
(* are the order of the steps, a reference to an earlier event is the fact *)
(* that it happened, and a change of host boot stands for every break in   *)
(* the recorded time.                                                      *)
(***************************************************************************)
EXTENDS Naturals, FiniteSets

CONSTANTS
    PreloadOps,   \* daemon-version, daemon-info, image-inspect
    DisposalOps,  \* container-kill, container-wait
    Streams,      \* stdout, stderr
    Spooled,      \* calls whose output goes through a registered spool
    MaxOrdinary,  \* calls outside cleanup and recovery (12)
    MaxCalls,     \* cli_calls of the quota plan (16)
    MaxSamples,   \* kernel samples (16)
    Boots,        \* host boots
    OriginBoot    \* the boot the manifest names

ASSUME RuntimeJournalAssumption ==
    /\ MaxOrdinary \in Nat /\ MaxCalls \in Nat /\ MaxOrdinary <= MaxCalls
    /\ MaxSamples \in Nat
    /\ Spooled \subseteq 1..MaxCalls
    /\ OriginBoot \in Boots
    /\ PreloadOps \cap
         {"container-create", "container-start-attached", "container-inspect-id",
          "container-inspect-name", "container-remove", "unissued"} = {}
    /\ DisposalOps \cap
         {"container-create", "container-start-attached", "container-inspect-id",
          "container-inspect-name", "container-remove", "unissued"} = {}

VARIABLES
    phase,        \* self.state
    flags,        \* which of self.recovery, self.orphaned, self.overrun are set
    marks,        \* which of started_identity, last_observed, release_intent,
                  \* cleanup are not None
    domain,       \* domain_validation of the domain-exited event
    op,           \* operation of each call
    res,          \* class of its result
    issued,       \* len(self.calls)
    ordinary,     \* self.ordinary_calls
    startId,      \* self.start_id, 0 for None
    registered,   \* calls with a registered spool
    collected,    \* <<call, stream>> with a collected spool
    container,    \* self.container_id: "none" or "known"
    pin,          \* observed image and manifest against the expected ones
    boot,         \* self.current_boot
    samples       \* self.kernel_samples

vars == <<phase, flags, marks, domain, op, res, issued, ordinary, startId,
          registered, collected, container, pin, boot, samples>>

callVars == <<op, res, issued, ordinary, startId>>
spoolVars == <<registered, collected>>

Slots == 1..MaxCalls
RecoveryOps == DisposalOps \cup
    {"container-inspect-id", "container-inspect-name", "container-remove"}
Ops == PreloadOps \cup RecoveryOps \cup
    {"container-create", "container-start-attached"}
ByIdOps == DisposalOps \cup
    {"container-inspect-id", "container-remove", "container-start-attached"}
Final == {"admitted", "failed", "reconciled"}
Phases == Final \cup
    {"reserved", "loaded", "created", "start-intended", "started", "observed",
     "release-intended", "released", "domain-exited", "cleanup", "orphaned"}

\* The replay state has its types: counters stay within their limits, and only a
\* registered spool is collected.
TypeOK ==
    /\ phase \in Phases
    /\ flags \subseteq {"recovery", "orphaned", "overrun"}
    /\ marks \subseteq {"started", "observed", "release-intent", "cleanup"}
    /\ domain \in {"none", "valid", "rejected", "invalid"}
    /\ op \in [Slots -> Ops \cup {"unissued"}]
    /\ res \in [Slots -> {"pending", "healthy", "failed", "leaked"}]
    /\ issued \in 0..MaxCalls
    /\ ordinary \in 0..MaxOrdinary
    /\ startId \in 0..MaxCalls
    /\ registered \subseteq Slots
    /\ collected \subseteq registered \X Streams
    /\ container \in {"none", "known"}
    /\ pin \in {"none", "expected", "other"}
    /\ boot \in Boots
    /\ samples \in 0..MaxSamples

----------------------------------------------------------------------------
(* The state after the reserved event, which every journal begins with.    *)
Init ==
    /\ phase = "reserved"
    /\ flags = {}
    /\ marks = {}
    /\ domain = "none"
    /\ op = [i \in Slots |-> "unissued"]
    /\ res = [i \in Slots |-> "pending"]
    /\ issued = 0
    /\ ordinary = 0
    /\ startId = 0
    /\ registered = {}
    /\ collected = {}
    /\ container = "none"
    /\ pin \in {"none", "expected", "other"}
    /\ boot = OriginBoot
    /\ samples = 0

Issued(i) == op[i] # "unissued"
Healthy(i) == res[i] = "healthy"
HealthyCall(o) == \E i \in Slots : op[i] = o /\ Healthy(i)
Answered(o) == \E i \in Slots : op[i] = o /\ res[i] # "pending"
CreateIssued == \E i \in Slots : op[i] = "container-create"

\* disposed: no client of any call may still run.
Disposed == \A i \in Slots : Issued(i) => res[i] \in {"healthy", "failed"}

\* Calls made in recovery, cleanup or an orphaned attempt.
Assisting == "recovery" \in flags \/ phase \in {"cleanup", "orphaned"}

\* The checks every event passes, and the envelope facts it leaves behind:
\* a new boot only enters with recovery-entered and orphaned, a container id
\* only after the create intent and for good, and a pin is never forgotten.
Envelope(kind) ==
    /\ phase \notin Final
    /\ boot' \in Boots
    /\ boot' # boot => kind \in {"recovery-entered", "orphaned"}
    /\ container' \in {"none", "known"}
    /\ container = "known" => container' = "known"
    /\ container' # container => CreateIssued
    /\ pin' \in {"none", "expected", "other"}
    /\ pin # "none" => pin' # "none"

\* _productive, which sees the pins of the event itself.
Productive ==
    /\ flags = {}
    /\ pin' \in {"none", "expected"}
    /\ \A i \in Slots : Issued(i) => res[i] \in {"pending", "healthy"}

----------------------------------------------------------------------------
(* Calls and their spools.                                                 *)

\* The operations of an ordinary call, by phase.
OrdinaryOp(o) ==
    \/ phase = "reserved" /\ o \in PreloadOps
    \/ phase = "loaded" /\ o = "container-create" /\ ~CreateIssued
    \/ phase = "created" /\ o = "container-start-attached" /\ startId = 0
    \/ phase # "reserved" /\ o = "container-inspect-id"

OrdinaryCall(o) ==
    /\ ~Assisting
    /\ Productive
    /\ ordinary < MaxOrdinary
    /\ OrdinaryOp(o)
    /\ ordinary' = ordinary + 1

CallIntent(o) ==
    /\ Envelope("call-intent")
    /\ issued < MaxCalls
    /\ \/ OrdinaryCall(o)
       \/ /\ Assisting
          /\ o \in RecoveryOps
          /\ UNCHANGED ordinary
    /\ o = "container-inspect-name" => "recovery" \in flags /\ CreateIssued
    /\ o \in ByIdOps => container' = "known"
    /\ o = "container-remove" => "cleanup" \in marks
    /\ issued' = issued + 1
    /\ op' = [op EXCEPT ![issued + 1] = o]
    /\ IF o = "container-start-attached"
       THEN startId' = issued + 1 /\ phase' = "start-intended"
       ELSE UNCHANGED <<startId, phase>>
    /\ UNCHANGED <<flags, marks, domain, res, registered, collected, samples>>

\* Sizes beyond the caps are recorded, and set the sticky overrun.
MayOverrun == flags' \in {flags, flags \cup {"overrun"}}

\* Mutant of CallResult: a second result replaces the first.
CallResult_Again(i) ==
    /\ Envelope("call-result")
    /\ Issued(i)
    /\ \E r \in {"healthy", "failed", "leaked"} : res' = [res EXCEPT ![i] = r]
    /\ MayOverrun
    /\ UNCHANGED <<phase, marks, domain, op, issued, ordinary, startId,
                   registered, collected, samples>>

CallResult(i) ==
    /\ Envelope("call-result")
    /\ Issued(i)
    /\ res[i] = "pending"
    /\ \E r \in {"healthy", "failed", "leaked"} : res' = [res EXCEPT ![i] = r]
    /\ MayOverrun
    /\ UNCHANGED <<phase, marks, domain, op, issued, ordinary, startId,
                   registered, collected, samples>>

SpoolRegistered(i) ==
    /\ Envelope("spool-registered")
    /\ i \in Spooled
    /\ Issued(i)
    /\ i \notin registered
    /\ res[i] = "pending"
    /\ op[i] = "container-start-attached" => "started" \notin marks
    /\ registered' = registered \cup {i}
    /\ UNCHANGED <<phase, flags, marks, domain, callVars, collected, samples>>

SpoolCollected(i, s) ==
    /\ Envelope("spool-collected")
    /\ i \in registered
    /\ <<i, s>> \notin collected
    /\ res[i] = "pending" \/ "recovery" \in flags
    /\ collected' = collected \cup {<<i, s>>}
    /\ MayOverrun
    /\ UNCHANGED <<phase, marks, domain, callVars, registered, samples>>

----------------------------------------------------------------------------
(* Phases.                                                                 *)

Loaded ==
    /\ Envelope("loaded")
    /\ Productive
    /\ phase = "reserved"
    /\ \A o \in PreloadOps : HealthyCall(o)
    /\ pin' = "expected"
    /\ phase' = "loaded"
    /\ UNCHANGED <<flags, marks, domain, callVars, spoolVars, samples>>

Created ==
    /\ Envelope("created")
    /\ Productive
    /\ phase = "loaded"
    /\ container' = "known"
    /\ HealthyCall("container-create")
    /\ HealthyCall("container-inspect-id")
    /\ phase' = "created"
    /\ UNCHANGED <<flags, marks, domain, callVars, spoolVars, samples>>

Started ==
    /\ Envelope("started")
    /\ Productive
    /\ phase = "start-intended"
    /\ phase' = "started"
    /\ marks' = marks \cup {"started"}
    /\ UNCHANGED <<flags, domain, callVars, spoolVars, samples>>

Observed ==
    /\ Envelope("observed")
    /\ Productive
    /\ phase \in {"started", "observed"}
    /\ HealthyCall("container-inspect-id")
    /\ samples < MaxSamples
    /\ samples' = samples + 1
    /\ phase' = "observed"
    /\ marks' = marks \cup {"observed"}
    /\ UNCHANGED <<flags, domain, callVars, spoolVars>>

ReleaseIntent ==
    /\ Envelope("release-intent")
    /\ Productive
    /\ phase = "observed"
    /\ "release-intent" \notin marks
    /\ phase' = "release-intended"
    /\ marks' = marks \cup {"release-intent"}
    /\ UNCHANGED <<flags, domain, callVars, spoolVars, samples>>

\* The acknowledgment of an earlier intent: it is accepted although a call
\* failed or overran in between.
Released ==
    /\ Envelope("released")
    /\ flags \subseteq {"overrun"}
    /\ pin' \in {"none", "expected"}
    /\ phase = "release-intended"
    /\ phase' = "released"
    /\ UNCHANGED <<flags, marks, domain, callVars, spoolVars, samples>>

DomainExited(v) ==
    /\ Envelope("domain-exited")
    /\ "recovery" \notin flags
    /\ phase = "released"
    /\ Answered("container-start-attached")
    /\ Answered("container-inspect-id")
    /\ domain' = v
    /\ phase' = "domain-exited"
    /\ UNCHANGED <<flags, marks, callVars, spoolVars, samples>>

\* Mutant of CleanupComplete: an attempt whose container id was never learned
\* is taken to have no container.
CleanupComplete_UnknownIsGone ==
    /\ Envelope("cleanup")
    /\ "cleanup" \notin marks
    /\ Disposed
    /\ container' = "known" => HealthyCall("container-inspect-id")
    /\ marks' = marks \cup {"cleanup"}
    /\ phase' = "cleanup"
    /\ UNCHANGED <<flags, domain, callVars, spoolVars, samples>>

CleanupIncomplete ==
    /\ Envelope("cleanup")
    /\ phase' = "cleanup"
    /\ UNCHANGED <<flags, marks, domain, callVars, spoolVars, samples>>

CleanupComplete ==
    /\ Envelope("cleanup")
    /\ "cleanup" \notin marks
    /\ Disposed
    /\ IF container' = "known" THEN HealthyCall("container-inspect-id") ELSE ~CreateIssued
    /\ marks' = marks \cup {"cleanup"}
    /\ phase' = "cleanup"
    /\ UNCHANGED <<flags, domain, callVars, spoolVars, samples>>

Admitted ==
    /\ Envelope("admitted")
    /\ Productive
    /\ phase = "cleanup"
    /\ "cleanup" \in marks
    /\ domain = "valid"
    /\ \A i \in Slots : Issued(i) => Healthy(i)
    /\ phase' = "admitted"
    /\ UNCHANGED <<flags, marks, domain, callVars, spoolVars, samples>>

\* Mutant of Failed: an attempt that was orphaned earlier may fail normally.
Failed_AfterOrphan ==
    /\ Envelope("failed")
    /\ Disposed
    /\ "cleanup" \in marks \/ ~CreateIssued
    /\ phase' = "failed"
    /\ UNCHANGED <<flags, marks, domain, callVars, spoolVars, samples>>

Failed ==
    /\ Envelope("failed")
    /\ "orphaned" \notin flags
    /\ Disposed
    /\ "cleanup" \in marks \/ ~CreateIssued
    /\ phase' = "failed"
    /\ UNCHANGED <<flags, marks, domain, callVars, spoolVars, samples>>

Orphaned ==
    /\ Envelope("orphaned")
    /\ flags' = flags \cup {"orphaned", "recovery"}
    /\ phase' = "orphaned"
    /\ UNCHANGED <<marks, domain, callVars, spoolVars, samples>>

Reconciled ==
    /\ Envelope("reconciled")
    /\ {"orphaned", "recovery"} \subseteq flags
    /\ "cleanup" \in marks
    /\ Disposed
    /\ phase' = "reconciled"
    /\ UNCHANGED <<flags, marks, domain, callVars, spoolVars, samples>>

\* Mutant of RecoveryEntered: a restarted writer resumes the attempt when the
\* host has rebooted in between.
RecoveryEntered_Resumes ==
    /\ Envelope("recovery-entered")
    /\ flags' = IF boot' = boot THEN flags \cup {"recovery"} ELSE flags
    /\ UNCHANGED <<phase, marks, domain, callVars, spoolVars, samples>>

\* A writer restarted or lost track of time: recovery only, from any phase.
RecoveryEntered ==
    /\ Envelope("recovery-entered")
    /\ flags' = flags \cup {"recovery"}
    /\ UNCHANGED <<phase, marks, domain, callVars, spoolVars, samples>>

Next ==
    \/ \E o \in Ops : CallIntent(o)
    \/ \E i \in Slots : CallResult(i)
    \/ \E i \in Slots : SpoolRegistered(i)
    \/ \E i \in Slots, s \in Streams : SpoolCollected(i, s)
    \/ Loaded \/ Created \/ Started \/ Observed \/ ReleaseIntent \/ Released
    \/ \E v \in {"valid", "rejected", "invalid"} : DomainExited(v)
    \/ CleanupIncomplete \/ CleanupComplete
    \/ Admitted \/ Failed \/ Orphaned \/ Reconciled \/ RecoveryEntered

Spec == Init /\ [][Next]_vars

----------------------------------------------------------------------------
(* Properties.                                                             *)

\* What stands behind an admitted result: no recovery, orphaning or overrun was
\* ever recorded, all of it happened under the boot the manifest names, every
\* call of the attempt came back healthy (the one that started the container
\* included), and the container was observed before it was released.
AdmittedHistory ==
    phase = "admitted" =>
        /\ flags = {}
        /\ boot = OriginBoot
        /\ container = "known"
        /\ \A i \in Slots : Issued(i) => Healthy(i)
        /\ startId \in Slots /\ op[startId] = "container-start-attached"
        /\ {"started", "observed", "release-intent", "cleanup"} \subseteq marks

\* A final event gives the invocation slot back.  When a create was ever
\* intended, that takes a complete cleanup of a container whose id is known,
\* with a healthy inspection of it, and no client left running, through
\* whatever mixture of cleanup, recovery and orphaning the journal ended.
NoAbandonedContainer ==
    phase \in Final /\ CreateIssued =>
        /\ "cleanup" \in marks
        /\ container = "known"
        /\ HealthyCall("container-inspect-id")
        /\ Disposed

\* Ordinary calls cannot eat the slots kept for cleanup: as long as an attempt
\* is in neither cleanup nor recovery, MaxCalls - MaxOrdinary slots are free.
CleanupSlotsKept ==
    ~Assisting /\ phase \notin Final => MaxCalls - issued >= MaxCalls - MaxOrdinary

\* An intent to create or to start is never repeated, and a start comes after a
\* healthy create of this attempt, even when results arrive late and out of
\* order.
AtMostOneContainer ==
    /\ \A i, j \in Slots :
          op[i] = op[j] /\ op[i] \in {"container-create", "container-start-attached"} => i = j
    /\ \A i \in Slots :
          op[i] = "container-start-attached" =>
              i = startId /\ HealthyCall("container-create")

\* No step takes back a recorded fact: recovery, orphaning and overrun are
\* sticky, a result or a learned container id is never replaced, and a complete
\* cleanup stays the one cleanup of the attempt.
FactsAreSticky ==
    [][ /\ flags \subseteq flags'
        /\ marks \subseteq marks'
        /\ container = "known" => container' = "known"
        /\ \A i \in Slots : res[i] # "pending" => res'[i] = res[i]
        /\ \A i \in Slots : Issued(i) => op'[i] = op[i] ]_vars

\* How an attempt ends, as one who holds its invocation slot sees it: any
\* recovery, overrun or call that did not come back healthy dooms it.
Outcome ==
    IF phase \in Final THEN phase
    ELSE IF "orphaned" \in flags THEN "orphaned"
    ELSE IF flags # {} \/ \E i \in Slots : Issued(i) /\ res[i] \in {"failed", "leaked"}
         THEN "doomed" ELSE "open"

Lifecycle == INSTANCE AttemptLifecycle WITH outcome <- Outcome

\* The journal implements AttemptLifecycle: a doomed attempt is never admitted
\* and an orphaned one only ends reconciled.
ImplementsLifecycle == Lifecycle!Spec
=============================================================================
