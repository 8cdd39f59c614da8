-------------------------- MODULE ExecutionStore --------------------------
(***************************************************************************)
(* The rows of one scan request in the execution store: the request, its   *)
(* source capture, work items, attempts, detector runs and capture leases  *)
(* (db/migrations/versions/execution_v1_operations.sql, called through     *)
(* services/scan/occurrence_store/repository.py).                          *)
(*                                                                         *)
(* Every operation is one transaction that first locks the request's row,  *)
(* so the operations on a request take turns; an action is one operation   *)
(* that commits.  A call that raises, or that replays a recorded one,      *)
(* changes nothing.  A caller may present the token of any attempt ever    *)
(* started, from a worker that lost its lease long ago.  The revision in   *)
(* a fence is a second check of the same kind and is left out.             *)
(*                                                                         *)
(* Times are kept as the ticks that are left: an expiry that has passed    *)
(* is 0.  One occurrence stands for the results a run retains.             *)
(***************************************************************************)
EXTENDS Naturals

CONSTANTS
    Bindings,        \* detector bindings of the planned policy
    Detection,       \* the work item of kind capture_detection
    MaxAttempts,     \* max_attempts of the retry policy
    MaxRuns,         \* bound on the detector runs of a binding
    MaxCleanups,     \* bound on the cleanup claims of the capture
    LeaseTicks,      \* lease_seconds
    InitialBackoff, MaxBackoff,
    RetainTicks,     \* retain_seconds
    CleanupTicks     \* the 300 seconds of a cleanup claim

ASSUME ExecutionStoreAssumption ==
    /\ Detection \notin Bindings
    /\ MaxAttempts \in Nat \ {0} /\ MaxRuns \in Nat /\ MaxCleanups \in Nat
    /\ LeaseTicks \in Nat \ {0} /\ RetainTicks \in Nat /\ CleanupTicks \in Nat \ {0}
    /\ InitialBackoff \in Nat /\ MaxBackoff \in Nat

\* The identity item of the occurrence that a run of a binding retained goes by
\* the name of the binding.
Items == {Detection} \cup Bindings
Attempts == 1..MaxAttempts
Ordinals == 1..MaxRuns

VARIABLES
    request,     \* detection_state, identity_state, capture_state
    cancelled,   \* cancellation_bytes is not null
    capture,     \* source_captures: state, ticks to keep, cleanup token and its ticks
    item,        \* work_items: state, fencing token, active attempt, ticks of backoff
    attempt,     \* work_attempts of an item: state and ticks of the lease
    lease,       \* the capture lease of an attempt: state and ticks
    run          \* detector_runs of a binding, by ordinal

executionVars == <<request, cancelled, capture, item, attempt, lease, run>>

Open == {"pending", "running"}
Ended == {"completed", "failed", "cancelled"}

Item(state, token, active, wait) ==
    [state |-> state, token |-> token, active |-> active, wait |-> wait]
Timed(state, left) == [state |-> state, left |-> left]
Run(state, by, count, supersedes) ==
    [state |-> state, by |-> by, count |-> count, supersedes |-> supersedes]

\* A run that a cancellation interrupted is told apart by its result_schema.
RunStates == {"absent", "running", "completed", "failed", "interrupted", "cancelled"}

\* create_request_v1.
executionInit ==
    /\ request = [detection |-> "pending", identity |-> "pending", capture |-> "pending"]
    /\ cancelled = FALSE
    /\ capture = [state |-> "none", keep |-> 0, token |-> 0, left |-> 0]
    /\ item = [i \in Items |-> Item(IF i = Detection THEN "pending" ELSE "absent", 0, 0, 0)]
    /\ attempt = [i \in Items |-> [t \in Attempts |-> Timed("absent", 0)]]
    /\ lease = [i \in Items |-> [t \in Attempts |-> Timed("none", 0)]]
    /\ run = [b \in Bindings |-> [n \in Ordinals |-> Run("absent", 0, 0, 0)]]

----------------------------------------------------------------------------
(* v1_stages: the states of the request that follow from its rows.         *)

Sealed(c) == c.state # "none"

\* Runs whose failure a chain of replacements without results makes good: the
\* smallest set that the recursive query builds, from the completed runs down.
Covered(r) ==
    {n \in Ordinals : \A S \in SUBSET Ordinals :
        (/\ \A m \in Ordinals : r[m].state = "completed" => m \in S
         /\ \A m \in S, d \in Ordinals : r[m].supersedes = d /\ r[d].count = 0 => d \in S)
        => n \in S}

Unsuperseded(r) ==
    \E b \in Bindings, n \in Ordinals :
        r[b][n].state \in {"failed", "interrupted"} /\ n \notin Covered(r[b])

Stages(items, runs, c, gone) ==
    LET detect == IF Unsuperseded(runs) THEN "failed" ELSE items[Detection].state
        Some(state) == \E b \in Bindings : items[b].state = state
    IN [detection |-> detect,
        capture |-> IF Sealed(c) THEN "completed" ELSE items[Detection].state,
        identity |-> CASE Some("failed") -> "failed"
                       [] ~Some("failed") /\ Some("cancelled") -> "cancelled"
                       [] ~Some("failed") /\ ~Some("cancelled") /\ Some("running") -> "running"
                       [] ~Some("failed") /\ ~Some("cancelled") /\ ~Some("running")
                            /\ Some("pending") -> "pending"
                       [] OTHER -> IF Some("completed") \/ detect = "completed" THEN "completed"
                                   ELSE IF gone THEN "cancelled" ELSE "pending"]

Restage == request' = Stages(item', run', capture', cancelled')

----------------------------------------------------------------------------
(* The operations of a worker.                                             *)

\* v1_lock with p_live: the token is the current one, neither lease has expired.
Live(i, t) ==
    /\ item[i].state = "running" /\ item[i].active = t /\ item[i].token = t
    /\ attempt[i][t].state = "running" /\ attempt[i][t].left > 0
    /\ ~cancelled
    /\ IF Sealed(capture)
       THEN capture.state = "active" /\ lease[i][t].state = "held" /\ lease[i][t].left > 0
       ELSE i = Detection

\* v1_claim of an eligible item.  The last three conjuncts are the cases in which
\* it would raise.
Claimable(i) ==
    /\ ~cancelled
    /\ item[i].token < MaxAttempts
    /\ capture.state \in {"none", "active"}

Claim_SameToken(i) ==
    LET t == IF item[i].token = 0 THEN 1 ELSE item[i].token
    IN /\ item[i].state = "pending" /\ item[i].wait = 0
       /\ Claimable(i)
       /\ item' = [item EXCEPT ![i] = Item("running", t, t, 0)]
       /\ attempt' = [attempt EXCEPT ![i][t] = Timed("running", LeaseTicks)]
       /\ UNCHANGED <<cancelled, capture, lease, run>>
       /\ Restage

Claim(i) ==
    LET t == item[i].token + 1
    IN /\ item[i].state = "pending" /\ item[i].wait = 0
       /\ Claimable(i)
       /\ item' = [item EXCEPT ![i] = Item("running", t, t, 0)]
       /\ attempt' = [attempt EXCEPT ![i][t] = Timed("running", LeaseTicks)]
       /\ lease' = IF Sealed(capture)
                   THEN [lease EXCEPT ![i][t] = Timed("held", LeaseTicks)] ELSE lease
       /\ UNCHANGED <<cancelled, capture, run>>
       /\ Restage

\* v1_renew.
Renew(i, t) ==
    /\ Live(i, t)
    /\ attempt' = [attempt EXCEPT ![i][t].left = LeaseTicks]
    /\ lease' = IF lease[i][t].state = "held"
                THEN [lease EXCEPT ![i][t].left = LeaseTicks] ELSE lease
    /\ UNCHANGED <<request, cancelled, capture, item, run>>

\* register_capture_and_seal_v1: a second seal is a replay or a conflict.
RegisterCaptureAndSeal(t) ==
    /\ Live(Detection, t) /\ ~Sealed(capture)
    /\ capture' = [state |-> "active", keep |-> RetainTicks, token |-> 0, left |-> 0]
    /\ lease' = [lease EXCEPT ![Detection][t] = Timed("held", attempt[Detection][t].left)]
    /\ request' = [request EXCEPT !.capture = "completed"]
    /\ UNCHANGED <<cancelled, item, attempt, run>>

\* Observations retained by a run that did not complete.
Partial(r) == \E b \in Bindings, n \in Ordinals :
    r[b][n].state \notin {"absent", "completed"} /\ r[b][n].count > 0

Leaves(b) ==
    {n \in Ordinals : /\ run[b][n].state \in {"failed", "interrupted", "cancelled"}
                      /\ run[b][n].count = 0
                      /\ \A m \in Ordinals : run[b][m].state = "absent" \/ run[b][m].supersedes # n}

\* begin_detector_run_v1 of a new invocation.
BeginDetectorRun(t, b) ==
    /\ Live(Detection, t) /\ Sealed(capture)
    /\ \A n \in Ordinals : run[b][n].state \notin {"completed", "running"}
    /\ ~Partial(run)
    /\ \E n \in Ordinals, leaf \in 0..MaxRuns :
          /\ run[b][n].state = "absent" /\ \A m \in 1..(n - 1) : run[b][m].state # "absent"
          /\ Leaves(b) = IF leaf = 0 THEN {} ELSE {leaf}
          /\ run' = [run EXCEPT ![b][n] = Run("running", t, 0, leaf)]
    /\ UNCHANGED <<request, cancelled, capture, item, attempt, lease>>

\* retain_detection_batch_v1: the run, its occurrences and their identity items.
RetainDetectionBatch(t, b, n, status, count) ==
    /\ Live(Detection, t)
    /\ run[b][n].state = "running" /\ run[b][n].by = t
    /\ run' = [run EXCEPT ![b][n].state = status, ![b][n].count = count]
    /\ item' = IF count > 0 THEN [item EXCEPT ![b] = Item("pending", 0, 0, 0)] ELSE item
    /\ UNCHANGED <<cancelled, capture, attempt, lease>>
    /\ Restage

\* fail_detector_run_v1.
FailDetectorRun(t, b, n) ==
    /\ Live(Detection, t)
    /\ run[b][n].state = "running" /\ run[b][n].by = t
    /\ run' = [run EXCEPT ![b][n].state = "failed"]
    /\ UNCHANGED <<cancelled, capture, item, attempt, lease>>
    /\ Restage

\* v1_release_all.
Release(l) == IF l.state = "held" THEN [l EXCEPT !.state = "released"] ELSE l

Smaller(x, y) == IF x < y THEN x ELSE y
Backoff(t) == Smaller(MaxBackoff, InitialBackoff * 2 ^ (t - 1))

\* A failed attempt leaves its unfinished runs interrupted.
Interrupt(r, t) ==
    [b \in Bindings |-> [n \in Ordinals |->
        IF r[b][n].state = "running" /\ r[b][n].by = t
        THEN [r[b][n] EXCEPT !.state = "interrupted"] ELSE r[b][n]]]

RetryAllowed(i, t, r, retryable) ==
    retryable /\ t < MaxAttempts /\ ~(i = Detection /\ Partial(r))

\* The rows of an attempt that ends, whatever ended it.
Settle(i, t, ending, state, wait) ==
    /\ item' = [item EXCEPT ![i] = Item(state, @.token, 0, wait)]
    /\ attempt' = [attempt EXCEPT ![i][t].state = ending]
    /\ lease' = [lease EXCEPT ![i][t] = Release(@)]
    /\ UNCHANGED <<cancelled, capture>>

WholeInventory ==
    /\ Sealed(capture) /\ ~Partial(run)
    /\ \A b \in Bindings :
          /\ \E n \in Ordinals : run[b][n].state = "completed"
          /\ \A n \in Ordinals : run[b][n].state # "running"

\* v1_finish of a completed attempt: detection needs the whole planned inventory.
Complete(i, t) ==
    /\ Live(i, t)
    /\ i = Detection => WholeInventory
    /\ Settle(i, t, "completed", "completed", item[i].wait)
    /\ UNCHANGED run
    /\ Restage
    /\ i = Detection => request'.detection = "completed"

\* ... of a failed one, which may be tried again.
FinishFailed(i, t, ending, retryable) ==
    LET r == IF i = Detection THEN Interrupt(run, t) ELSE run
        again == RetryAllowed(i, t, r, retryable)
    IN /\ Settle(i, t, ending, IF again THEN "pending" ELSE "failed",
                 IF again THEN Backoff(t) ELSE item[i].wait)
       /\ run' = r
       /\ Restage

FinishWork(i, t, retryable) == Live(i, t) /\ FinishFailed(i, t, "failed", retryable)

\* v1_finish with p_expire, for a worker that is gone.
Expire(i, t, retryable) ==
    /\ item[i].state = "running" /\ item[i].active = t /\ item[i].token = t
    /\ attempt[i][t].state = "running" /\ attempt[i][t].left = 0
    /\ FinishFailed(i, t, "interrupted", retryable)

\* v1_capture_lease.
RenewCaptureLease(i, t) ==
    /\ Live(i, t) /\ lease[i][t].state = "held"
    /\ lease' = [lease EXCEPT ![i][t].left = attempt[i][t].left]
    /\ UNCHANGED <<request, cancelled, capture, item, attempt, run>>

ReleaseCaptureLease(i, t) ==
    /\ Live(i, t) /\ lease[i][t].state = "held"
    /\ lease' = [lease EXCEPT ![i][t].state = "released"]
    /\ UNCHANGED <<request, cancelled, capture, item, attempt, run>>

----------------------------------------------------------------------------
(* The request and the capture.                                            *)

\* cancel_request_v1.
CancelRequest ==
    /\ ~cancelled
    /\ cancelled' = TRUE
    /\ lease' = [i \in Items |-> [t \in Attempts |->
                    IF attempt[i][t].state = "running" THEN Release(lease[i][t]) ELSE lease[i][t]]]
    /\ run' = [b \in Bindings |-> [n \in Ordinals |->
                  IF run[b][n].state = "running" THEN [run[b][n] EXCEPT !.state = "cancelled"]
                  ELSE run[b][n]]]
    /\ attempt' = [i \in Items |-> [t \in Attempts |->
                      IF attempt[i][t].state = "running"
                      THEN [attempt[i][t] EXCEPT !.state = "cancelled"] ELSE attempt[i][t]]]
    /\ item' = [i \in Items |->
                   IF item[i].state \in Open THEN Item("cancelled", item[i].token, 0, item[i].wait)
                   ELSE item[i]]
    /\ UNCHANGED capture
    /\ Restage

Unneeded_LeasesOnly ==
    /\ capture.keep = 0
    /\ \A i \in Items, t \in Attempts : lease[i][t].state # "held" \/ lease[i][t].left = 0

\* claim_retirement_v1: of a capture nobody needs, or from a cleaner that is gone.
Unneeded ==
    /\ capture.keep = 0
    /\ \A i \in Items, t \in Attempts : lease[i][t].state # "held" \/ lease[i][t].left = 0
    /\ \A i \in Items : item[i].state \notin Open

ClaimRetirement ==
    /\ \/ capture.state = "active" /\ Unneeded
       \/ capture.state = "retiring" /\ capture.left = 0
    /\ capture.token < MaxCleanups
    /\ capture' = [capture EXCEPT !.state = "retiring", !.token = @ + 1, !.left = CleanupTicks]
    /\ UNCHANGED <<request, cancelled, item, attempt, lease, run>>

\* finish_retirement_v1 by the holder of a cleanup token.
FinishRetirement(token) ==
    /\ capture.state = "retiring" /\ capture.token = token /\ capture.left > 0
    /\ capture' = [capture EXCEPT !.state = "retired", !.left = 0]
    /\ UNCHANGED <<request, cancelled, item, attempt, lease, run>>

----------------------------------------------------------------------------
Less(n) == IF n > 0 THEN n - 1 ELSE 0

\* Time passes for every clock_timestamp() comparison at once.
Tick ==
    /\ capture' = [capture EXCEPT !.keep = Less(@), !.left = Less(@)]
    /\ item' = [i \in Items |-> [item[i] EXCEPT !.wait = Less(@)]]
    /\ attempt' = [i \in Items |-> [t \in Attempts |-> [attempt[i][t] EXCEPT !.left = Less(@)]]]
    /\ lease' = [i \in Items |-> [t \in Attempts |-> [lease[i][t] EXCEPT !.left = Less(@)]]]
    /\ UNCHANGED <<request, cancelled, run>>

Worker(i, t) ==
    \/ Renew(i, t) \/ RenewCaptureLease(i, t) \/ ReleaseCaptureLease(i, t) \/ Complete(i, t)
    \/ \E retryable \in BOOLEAN : FinishWork(i, t, retryable) \/ Expire(i, t, retryable)

Detect(t) ==
    \/ RegisterCaptureAndSeal(t)
    \/ \E b \in Bindings :
          \/ BeginDetectorRun(t, b)
          \/ \E n \in Ordinals :
                \/ FailDetectorRun(t, b, n)
                \/ \E status \in {"completed", "failed"}, count \in 0..1 :
                      RetainDetectionBatch(t, b, n, status, count)

executionNext ==
    \/ \E i \in Items : Claim(i) \/ \E t \in Attempts : Worker(i, t)
    \/ \E t \in Attempts : Detect(t)
    \/ CancelRequest \/ ClaimRetirement \/ \E token \in 1..MaxCleanups : FinishRetirement(token)
    \/ Tick

executionSpec == executionInit /\ [][executionNext]_executionVars

----------------------------------------------------------------------------
(* Properties.                                                             *)

\* A detector run is unfinished only under the attempt that owns the detection item:
\* whichever way an attempt ends (finished, expired, cancelled), none of its runs is
\* left for begin_detector_run_v1 to find "already executing".
RunsHaveOwners ==
    \A b \in Bindings, n \in Ordinals : run[b][n].state = "running" =>
        /\ item[Detection].state = "running" /\ item[Detection].active = run[b][n].by
        /\ attempt[Detection][run[b][n].by].state = "running"

\* Once a cleaner may delete the captured source, no work of the request is open
\* and none will be: not after a retry, a lapsed lease or a second cleanup claim.
RetiredIsUnused ==
    capture.state \in {"retiring", "retired"} => \A i \in Items : item[i].state \notin Open

\* v1_claim never raises on a row it selected, which would keep every worker from
\* the rows behind it: a pending item has attempts left, its request is not
\* cancelled and its capture is not being retired.
PendingIsClaimable == \A i \in Items : item[i].state = "pending" => Claimable(i)

\* The states kept on the request are those its rows imply, although several
\* operations change rows without a call of v1_stages.
StagesAreCurrent == request = Stages(item, run, capture, cancelled)

\* A completed detection stays completed, and has for every planned binding exactly one
\* completed run and no retained partial one.
DetectionIsWhole ==
    request.detection = "completed" =>
        /\ ~Partial(run)
        /\ \A b \in Bindings : \E n \in Ordinals :
              /\ run[b][n].state = "completed"
              /\ \A m \in Ordinals : run[b][m].state = "completed" => m = n

\* No work of a request outlives its owner, its capture or its cancellation,
\* none that is pending cannot be claimed, and the request's states are those
\* of its rows.
ExecutionIsOwned ==
    RunsHaveOwners /\ RetiredIsUnused /\ PendingIsClaimable /\ StagesAreCurrent /\ DetectionIsWhole

Lease(i) == INSTANCE LeasedWork WITH
    owner <- item[i].active,
    issued <- item[i].token,
    settled <- item[i].state \in Ended

\* Each item has one owner at a time, under a token never used before.
ImplementsLeases ==
    /\ \A i \in Items : Lease(i)!Init
    /\ [][\A i \in Items : [Lease(i)!Next]_(Lease(i)!vars)]_executionVars
=============================================================================
