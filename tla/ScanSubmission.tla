--------------------------- MODULE ScanSubmission ---------------------------
(***************************************************************************)
(* Submission of scans: post_scans (services/scan/api.py) over the         *)
(* snapshot port (services/scan/sql_adapters.py) and the snapshot service  *)
(* (services/snapshot/service.py).                                         *)
(*                                                                         *)
(* The handler is synchronous code on one event loop: no other request is  *)
(* served between its steps, but each call it makes to a store or a queue  *)
(* may raise, and the process may be replaced, by one with a new           *)
(* environment, at any of them.  Workers and the spec registry run on.     *)
(*                                                                         *)
(* A scan id and a snapshot id are numbers in the order they are minted; a *)
(* job id is the scan and the position in its detector list.               *)
(***************************************************************************)
EXTENDS Naturals, Sequences, FiniteSets

CONSTANTS
    Keys,          \* idempotency keys
    Bodies,        \* request bodies
    Detectors,     \* detector ids
    Registered,    \* the ones the DetectorRegistry knows
    detectorsOf,   \* detector_ids of a body, a sequence
    commitOf,      \* codebase and commit of a body
    pinOf,         \* S_version of a body, 0 when omitted
    Envs,          \* digests of worker images
    MaxSpec,       \* bound on accepted S_versions
    MaxPosts,      \* bound on requests that are not replays
    MaxFaults,     \* bound on calls that raise
    MaxRestarts    \* bound on replacements of the API process

ASSUME ScanSubmissionAssumption ==
    /\ detectorsOf \in [Bodies -> Seq(Detectors)]
    /\ \A b \in Bodies : detectorsOf[b] # <<>>
    /\ Registered \subseteq Detectors /\ IsFiniteSet(Detectors)
    /\ pinOf \in [Bodies -> Nat]
    /\ MaxSpec \in Nat /\ MaxPosts \in Nat /\ MaxFaults \in Nat /\ MaxRestarts \in Nat
    /\ IsFiniteSet(Keys) /\ IsFiniteSet(Bodies) /\ IsFiniteSet(Envs)

VARIABLES
    env,        \* the digest of env_digest_provider
    spec,       \* the latest accepted S_version
    rows,       \* scan_store: the scans this process knows, by id
    index,      \* scan_store._idempotency
    handler,    \* the request being served
    keys,       \* callback secrets issued, by job
    jobs,       \* detector jobs sent
    snapJobs,   \* snapshot jobs sent
    snapshots,  \* rows of the snapshots table
    scanIds,    \* ids minted so far
    snapIds,
    replies,    \* accepting responses of this process
    posts, faults, restarts

submissionVars == <<env, spec, rows, index, handler, keys, jobs, snapJobs, snapshots,
          scanIds, snapIds, replies, posts, faults, restarts>>

tables == <<keys, jobs, snapJobs, snapshots>>
counters == <<scanIds, snapIds>>
world == <<env, spec, restarts>>

Idle == [stage |-> "idle"]

Commits == {commitOf[b] : b \in Bodies}

\* idempotency_fingerprint: the body up to the order of its detectors.
Fingerprint(b) ==
    <<commitOf[b], pinOf[b],
      [d \in Detectors |-> Cardinality({i \in DOMAIN detectorsOf[b] : detectorsOf[b][i] = d})]>>

submissionInit ==
    /\ env \in Envs /\ spec = 0
    /\ rows = <<>> /\ index = <<>> /\ handler = Idle
    /\ keys = {} /\ jobs = {} /\ snapJobs = {} /\ snapshots = {}
    /\ scanIds = 0 /\ snapIds = 0
    /\ replies = {} /\ posts = 0 /\ faults = 0 /\ restarts = 0

Reply(k, b, kind, scan) ==
    replies' = replies \cup {[key |-> k, body |-> b, kind |-> kind, scan |-> scan]}

-----------------------------------------------------------------------------
(* post_scans, step by step.                                               *)

\* Step 2: a key that is known is answered from the stored scan.
Replay(k, b) ==
    /\ handler = Idle
    /\ k \in DOMAIN index
    /\ IF Fingerprint(rows[index[k]].body) = Fingerprint(b)
       THEN Reply(k, b, "replay", index[k])
       ELSE replies' = replies   \* IdempotencyConflictError
    /\ UNCHANGED <<rows, index, handler, tables, counters, world, posts, faults>>

\* _resolve_s_version: 0 when there is none to bind.
Resolve(b) ==
    CASE pinOf[b] = 0    -> spec
      [] pinOf[b] > spec -> 0
      [] OTHER           -> pinOf[b]

\* _validate_detectors
Known(b) == \A i \in DOMAIN detectorsOf[b] : detectorsOf[b][i] \in Registered

\* Steps 3 and 4.  A body that is refused leaves nothing behind.
Submit(k, b) ==
    /\ handler = Idle /\ posts < MaxPosts /\ posts' = posts + 1
    /\ k \notin DOMAIN index
    /\ \/ /\ Resolve(b) = 0 \/ ~Known(b)
          /\ handler' = Idle
       \/ /\ Resolve(b) # 0 /\ Known(b)
          /\ handler' = [stage |-> "snapshot", key |-> k, body |-> b, sver |-> Resolve(b)]
    /\ UNCHANGED <<rows, index, tables, counters, world, replies, faults>>

\* The rows _select_existing may return: the natural key under the current Env.
Existing(b) == {s \in snapshots : s.commit = commitOf[b] /\ s.env = env}

Resolved(snap) ==
    handler' = [stage |-> "persist", key |-> handler.key, body |-> handler.body,
                sver |-> handler.sver, snap |-> snap.id, env |-> snap.env]

\* Step 5: SqlSnapshotPort.resolve_or_create.
FindSnapshot ==
    /\ handler.stage = "snapshot"
    /\ \E s \in Existing(handler.body) : Resolved(s)
    /\ UNCHANGED <<rows, index, tables, counters, world, replies, posts, faults>>

\* SnapshotService.create_snapshot: mint an id and send the job; no row yet.
CreateSnapshot ==
    /\ handler.stage = "snapshot" /\ Existing(handler.body) = {}
    /\ LET s == [id |-> snapIds + 1, commit |-> commitOf[handler.body], env |-> env]
       IN snapJobs' = snapJobs \cup {s} /\ Resolved(s)
    /\ snapIds' = snapIds + 1
    /\ UNCHANGED <<rows, index, keys, jobs, snapshots, scanIds, world, replies, posts, faults>>

\* Mutant of Put: the idempotency key is not recorded.
Put_RowOnly(row, id) ==
    /\ rows' = [i \in DOMAIN rows \cup {id} |-> IF i = id THEN row ELSE rows[i]]
    /\ index' = index

\* OrgScopedScanStore.put: the row, then its idempotency key.
Put(row, id) ==
    /\ rows' = [i \in DOMAIN rows \cup {id} |-> IF i = id THEN row ELSE rows[i]]
    /\ index' = [k \in DOMAIN index \cup {row.key} |-> IF k = row.key THEN id ELSE index[k]]

\* Step 6; the loop of step 7 goes on with the handler's own values.
Persist ==
    /\ handler.stage = "persist"
    /\ scanIds' = scanIds + 1
    /\ LET row == [key |-> handler.key, body |-> handler.body, sver |-> handler.sver,
                   snap |-> handler.snap, env |-> handler.env]
       IN /\ Put(row, scanIds + 1)
          /\ handler' = [stage |-> "issue", scan |-> scanIds + 1, n |-> 1, row |-> row]
    /\ UNCHANGED <<tables, snapIds, world, replies, posts, faults>>

\* Step 7, for each entry of detector_ids: issue the secret of the job ...
IssueKey ==
    /\ handler.stage = "issue"
    /\ handler.n <= Len(detectorsOf[handler.row.body])
    /\ keys' = keys \cup {<<handler.scan, handler.n>>}
    /\ handler' = [handler EXCEPT !.stage = "send"]
    /\ UNCHANGED <<rows, index, jobs, snapJobs, snapshots, counters, world, replies, posts, faults>>

Job(sver) ==
    [scan |-> handler.scan, n |-> handler.n, body |-> handler.row.body,
     detector |-> detectorsOf[handler.row.body][handler.n],
     sver |-> sver, snap |-> handler.row.snap, env |-> handler.row.env]

\* ... and send the job, bound to the versions of the scan.
Send(sver) ==
    /\ jobs' = jobs \cup {Job(sver)}
    /\ handler' = [handler EXCEPT !.stage = "issue", !.n = @ + 1]
    /\ UNCHANGED <<rows, index, keys, snapJobs, snapshots, counters, world, replies, posts, faults>>

SendJob == handler.stage = "send" /\ Send(handler.row.sver)

Created ==
    /\ handler.stage = "issue"
    /\ handler.n = Len(detectorsOf[handler.row.body]) + 1
    /\ Reply(handler.row.key, handler.row.body, "created", handler.scan)
    /\ handler' = Idle
    /\ UNCHANGED <<rows, index, tables, counters, world, posts, faults>>

\* A store, the registry, the key issuer or the queue raises: the client gets
\* an error and what was done before stays.
Fault ==
    /\ handler # Idle /\ faults < MaxFaults /\ faults' = faults + 1
    /\ handler' = Idle
    /\ UNCHANGED <<rows, index, tables, counters, world, replies, posts>>

\* A new process: OrgScopedScanStore is memory, queues and tables are not.
Restart(e) ==
    /\ restarts < MaxRestarts /\ restarts' = restarts + 1
    /\ env' = e /\ rows' = <<>> /\ index' = <<>> /\ handler' = Idle /\ replies' = {}
    /\ UNCHANGED <<spec, tables, counters, posts, faults>>

-----------------------------------------------------------------------------
(* The rest of the system.                                                 *)

AcceptSpec ==
    /\ spec < MaxSpec /\ spec' = spec + 1
    /\ UNCHANGED <<env, restarts, rows, index, handler, tables, counters, replies, posts, faults>>

\* record_completion inserts the row of a snapshot; the table holds one row per
\* codebase, commit and digest.
CompleteSnapshot(s) ==
    /\ s \in snapJobs /\ \A t \in snapshots : <<t.commit, t.env>> # <<s.commit, s.env>>
    /\ snapshots' = snapshots \cup {s}
    /\ UNCHANGED <<env, spec, restarts, rows, index, handler, keys, jobs, snapJobs, counters,
                   replies, posts, faults>>

submissionNext ==
    \/ \E k \in Keys, b \in Bodies : Replay(k, b) \/ Submit(k, b)
    \/ FindSnapshot \/ CreateSnapshot \/ Persist \/ IssueKey \/ SendJob \/ Created \/ Fault
    \/ \E e \in Envs : Restart(e)
    \/ AcceptSpec
    \/ \E s \in snapJobs : CompleteSnapshot(s)

submissionSpec == submissionInit /\ [][submissionNext]_submissionVars

-----------------------------------------------------------------------------
(* Properties.                                                             *)

SnapshotJobs == [id : 1..snapIds, commit : Commits, env : Envs]

\* The stores hold what their columns allow, and the snapshots table keeps its
\* UNIQUE (codebase_id, commit_sha, env_digest).
SubmissionTypes ==
    /\ env \in Envs /\ spec \in 0..MaxSpec
    /\ DOMAIN rows \subseteq 1..scanIds /\ DOMAIN index \subseteq Keys
    /\ \A k \in DOMAIN index : index[k] \in DOMAIN rows
    /\ keys \subseteq (1..scanIds) \X Nat
    /\ snapJobs \subseteq SnapshotJobs /\ snapshots \subseteq snapJobs
    /\ \A s, t \in snapshots : <<s.commit, s.env>> = <<t.commit, t.env>> => s = t
    /\ handler.stage \in {"idle", "snapshot", "persist", "issue", "send"}

\* Within one process an Idempotency-Key owns one scan, however often the client
\* retries and wherever post_scans failed before: one row, and every accepting
\* response to the key names that row and answers the same request.
KeyOwnsOneScan ==
    /\ \A i, j \in DOMAIN rows : rows[i].key = rows[j].key => i = j
    /\ \A r, q \in replies :
          r.key = q.key => r.scan = q.scan /\ Fingerprint(r.body) = Fingerprint(q.body)

\* A scan that was answered 201 has exactly one job for each entry of its
\* detector_ids on the queue (step 7 of post_scans), and no retry adds another.
CreatedIsFannedOut ==
    \A r \in replies : r.kind = "created" =>
        \A n \in DOMAIN detectorsOf[r.body] :
            \E job \in jobs : {j \in jobs : j.scan = r.scan /\ j.n = n} = {job}

\* INV-2: the jobs of one scan carry one S_version and one snapshot, and the
\* digest of a job is the one its snapshot is built under, whatever the spec
\* registry accepts while the loop runs.
JobsAgree ==
    /\ \A i, j \in jobs : i.scan = j.scan => <<i.sver, i.snap, i.env>> = <<j.sver, j.snap, j.env>>
    /\ \A j \in jobs : \E s \in snapJobs :
          s.id = j.snap /\ s.env = j.env /\ s.commit = commitOf[j.body]

\* The secret of a job exists before a worker can receive the job and sign its
\* callback with it: post_scans issues before it sends, for every job.
JobsHaveKeys == \A j \in jobs : <<j.scan, j.n>> \in keys

\* What a client and a worker may rely on: an Idempotency-Key owns one scan, and a
\* scan answered 201 has its jobs, one for each detector, alike, each with its
\* secret (post_scans).
ScanIsSubmittedOnce ==
    SubmissionTypes /\ KeyOwnsOneScan /\ CreatedIsFannedOut /\ JobsAgree /\ JobsHaveKeys

\* An Env rollover never sends a job under a superseded digest, although rows of
\* the old Env remain in the snapshots table (_select_existing).
FreshEnv == [][\A j \in jobs' \ jobs : j.env = env]_submissionVars
=============================================================================
