--------------------------- MODULE AcceptedLedger ---------------------------
(***************************************************************************)
(* The accepted-inputs ledger and its verifier                             *)
(* (services/scan/accepted_inputs).  An administrator installs a chain of  *)
(* root-signed policies and admission checkpoints; a worker publishes a    *)
(* bundle, binds a request to it, seals the capture, and has each detector *)
(* run authorized and renewed.  The ledger is one namespace row locked by  *)
(* every operation, so an operation is one step; what interleaves is the   *)
(* clock, the two clients, whose commands were prepared against heads that *)
(* may have moved, answers that get lost, the execution store underneath,  *)
(* and a verifier that reads the authority, checks it offline in another   *)
(* process, and rechecks.                                                  *)
(*                                                                         *)
(* One namespace, one grant, one bundle, one request.  A document's digest *)
(* is the document's place in its chain, and a signed document is genuine. *)
(***************************************************************************)
EXTENDS Naturals, Integers, Sequences, FiniteSets

CONSTANTS
  PolicyDocs,       \* the policies the root signs, each for one revision
  CheckpointDocs,   \* the checkpoints it signs, for a generation and a policy
  Window,           \* how old an approval may be at publication (300 s)
  Unreliable,       \* the clients whose answers may get lost
  LeaseTicks,       \* how far a claim or a renewal pushes the lease
  MaxTime, MaxTokens, MaxEvents  \* bounds on the clock, attempts and events

Grants == [present : BOOLEAN, from : Nat, until : Nat, status : {"active", "retired", "revoked"}, changed : Nat]

ASSUME LedgerAssumption ==
  /\ PolicyDocs \subseteq [revision : Nat, from : Nat, until : Nat, grant : Grants]
  /\ CheckpointDocs \subseteq
       [generation : Nat, policy : Nat, action : {"admit", "block"}, from : Nat, until : Nat]
  /\ Window \in Nat /\ LeaseTicks \in Nat
  /\ MaxTime \in Nat /\ MaxTokens \in Nat /\ MaxEvents \in Nat

VARIABLES
  now,          \* the database clock
  policies,     \* the installed policies, by revision
  checkpoints,  \* the recorded checkpoints, by generation
  receipt,      \* the publication: <<>> or one record
  binding,      \* the request's sealed acceptance: <<>> or one record
  seal,         \* the capture seal authorization: <<>> or one record
  work,         \* the execution store's row of the work item
  events,       \* the execution authorizations and denials, in order
  pending,      \* each client's command, as it was prepared
  kept,         \* does the ledger hold that command's operation key?
  refused,      \* was the client told that its last command was refused?
  reader        \* the verifier's progress through one authorization

heads   == <<policies, checkpoints>>
records == <<receipt, binding, seal, events>>
clients == <<pending, kept, refused>>
ledgerVars == <<now, heads, records, work, clients, reader>>

Clients == {"administrator", "worker"}
NoCommand    == [action |-> "none"]
NotReading == [phase |-> "idle", event |-> 0, time |-> 0, until |-> 0]

ledgerInit ==
  /\ now = 0 /\ policies = <<>> /\ checkpoints = <<>>
  /\ receipt = <<>> /\ binding = <<>> /\ seal = <<>> /\ events = <<>>
  /\ work = [state |-> "queued", token |-> 0, revision |-> 0, lease |-> 0, run |-> "none"]
  /\ pending = [c \in Clients |-> NoCommand]
  /\ kept = [c \in Clients |-> FALSE]
  /\ refused = [c \in Clients |-> FALSE]
  /\ reader = NotReading

-----------------------------------------------------------------------------
(* What both the SQL and the Python verifier check of the documents.  The  *)
(* two are separate programs; where they differ there are two operators.   *)

Policy     == policies[Len(policies)]
Checkpoint == checkpoints[Len(checkpoints)]
Coordination == Len(policies) + Len(checkpoints)

Within(doc, t) == doc.from <= t /\ t < doc.until

PolicyTime(p, k, t) == Within(p, t) /\ k.action = "admit" /\ Within(k, t)

\* a grant is admitted inside its policy's own interval
AdmittedInside(g, p) == p.from <= g.from /\ g.until <= p.until

GrantUse(g, t, published) ==
  /\ Within(g, t)
  /\ g.status \in {"active", "retired"}
  /\ g.status = "retired" => published < g.changed /\ g.changed <= t

Successors == [active  |-> {"active", "retired", "revoked"},
               retired |-> {"retired", "revoked"},
               revoked |-> {"revoked"}]

\* one grant's step between two policies
GrantEvolves(old, new) ==
  /\ new.present /\ new.from = old.from /\ new.until = old.until
  /\ new.status \in Successors[old.status]
  /\ IF new.status = old.status THEN new.changed = old.changed
     ELSE old.status # "active" => new.changed >= old.changed

\* v1_policy_evolution: every adjacent pair, when the policy is installed
Evolution(new) ==
  /\ (policies # <<>> /\ Policy.grant.present) => GrantEvolves(Policy.grant, new.grant)
  /\ new.grant.present /\ (policies = <<>> \/ ~Policy.grant.present)
       => AdmittedInside(new.grant, new)

\* _policy_evolution: two revisions the verifier holds, however far apart
PolicyEvolution(r, s) ==
  /\ s >= r
  /\ s = r + 1 /\ ~policies[r].grant.present /\ policies[s].grant.present
       => AdmittedInside(policies[s].grant, policies[s])
  /\ s > r /\ policies[r].grant.present => GrantEvolves(policies[r].grant, policies[s].grant)

-----------------------------------------------------------------------------
(* The ledger's operations, as the database runs them.                     *)

\* v1_fresh_command, v1_live: the command was prepared against these heads
Fresh(c)  == c.coordination = Coordination
Live(c)   == /\ policies # <<>> /\ checkpoints # <<>>
             /\ c.policy = Len(policies) /\ c.checkpoint = Len(checkpoints)
             /\ Checkpoint.policy = Len(policies)

\* lock_accepted_*_context_v1: the fence is the running attempt's own
Context(c) == /\ work.state = "running"
              /\ c.token = work.token /\ c.revision = work.revision
              /\ now < work.lease

Usable(t) == /\ PolicyTime(Policy, Checkpoint, t)
             /\ Policy.grant.present /\ GrantUse(Policy.grant, t, receipt[1].at)

\* the authorizations of the attempt with this token, and its latest
OfAttempt(k) == {i \in DOMAIN events : events[i].token = k /\ events[i].kind = "authorization"}
IsLeaf(i)    == i \in OfAttempt(events[i].token) /\ \A j \in OfAttempt(events[i].token) : j <= i

CanInstall(c) == c.doc.revision = Len(policies) + 1 /\ Evolution(c.doc)
CanRecord(c)  == /\ policies # <<>> /\ c.doc.policy = Len(policies)
                 /\ c.doc.generation = Len(checkpoints) + 1

CanPublish_AnyAge(c) ==
  /\ Live(c) /\ receipt = <<>>
  /\ PolicyTime(Policy, Checkpoint, now)
  /\ Policy.grant.present /\ Policy.grant.status = "active" /\ Within(Policy.grant, now)

CanPublish(c) ==
  /\ Live(c) /\ receipt = <<>>
  /\ PolicyTime(Policy, Checkpoint, now)
  /\ now - Window <= c.at               \* the approval's issued_at
  /\ Policy.grant.present /\ Policy.grant.status = "active" /\ Within(Policy.grant, now)

CanBind(c) == Live(c) /\ receipt # <<>> /\ binding = <<>> /\ Usable(now)
CanSeal(c) == Live(c) /\ binding # <<>> /\ seal = <<>> /\ Context(c) /\ Usable(now)

\* denial_reason is NULL; the pins of a planned policy are always present here
Denied == ~Usable(now)

CanAuthorize(c) == /\ Live(c) /\ seal # <<>> /\ Context(c) /\ work.run = "none"
                   /\ Policy.grant.present

CanRenew(c) ==
  /\ Live(c) /\ seal # <<>> /\ Context(c) /\ work.run = "running"
  /\ c.previous \in DOMAIN events /\ IsLeaf(c.previous)
  /\ events[c.previous].token = work.token /\ events[c.previous].revision = work.revision
  /\ events[c.previous].lease = work.lease
  /\ Policy.grant.present
  /\ Denied \/ now + LeaseTicks > work.lease

Event(kind, w) ==
  [kind |-> kind, token |-> w.token, revision |-> w.revision, lease |-> w.lease,
   at |-> now, policy |-> Len(policies), checkpoint |-> Len(checkpoints)]

InstallPolicy(c) ==
  /\ CanInstall(c)
  /\ policies' = Append(policies, c.doc)
  /\ UNCHANGED <<checkpoints, records, work>>

RecordAdmission(c) ==
  /\ CanRecord(c)
  /\ checkpoints' = Append(checkpoints, c.doc)
  /\ UNCHANGED <<policies, records, work>>

PublishBuiltin(c) ==
  /\ CanPublish(c)
  /\ receipt' = <<[at |-> now, issued |-> c.at,
                   policy |-> Len(policies), checkpoint |-> Len(checkpoints)]>>
  /\ UNCHANGED <<heads, binding, seal, events, work>>

\* create_request_v1 makes the work item claimable
CreateBoundRequest(c) ==
  /\ CanBind(c)
  /\ binding' = <<[at |-> now, policy |-> Len(policies), checkpoint |-> Len(checkpoints)]>>
  /\ UNCHANGED <<heads, receipt, seal, events, work>>

SealBoundCapture(c) ==
  /\ CanSeal(c)
  /\ seal' = <<[at |-> now, token |-> c.token, revision |-> c.revision]>>
  /\ UNCHANGED <<heads, receipt, binding, events, work>>

\* v1_fail_denied: the run and the work item fail with the denial
FailDenied == work' = [work EXCEPT !.run = "failed", !.state = "failed", !.revision = @ + 1]

AuthorizeDetector(c) ==
  /\ CanAuthorize(c)
  /\ IF Denied
     THEN events' = Append(events, Event("denial", work)) /\ FailDenied
     ELSE /\ events' = Append(events, Event("authorization", work))
          /\ work' = [work EXCEPT !.run = "running"]
  /\ UNCHANGED <<heads, receipt, binding, seal>>

RenewDetector(c) ==
  /\ CanRenew(c)
  /\ IF Denied
     THEN events' = Append(events, Event("denial", work)) /\ FailDenied
     ELSE /\ work' = [work EXCEPT !.revision = @ + 1, !.lease = now + LeaseTicks]
          /\ events' = Append(events, Event("authorization", work'))
  /\ UNCHANGED <<heads, receipt, binding, seal>>

Can(c) ==
  Fresh(c) /\ CASE c.action = "install-policy"       -> CanInstall(c)
                [] c.action = "record-admission"     -> CanRecord(c)
                [] c.action = "publish-builtin"      -> CanPublish(c)
                [] c.action = "create-bound-request" -> CanBind(c)
                [] c.action = "seal-bound-capture"   -> CanSeal(c)
                [] c.action = "authorize-detector"   -> CanAuthorize(c)
                [] c.action = "renew-detector"       -> CanRenew(c)

Apply(c) ==
  \/ c.action = "install-policy"       /\ InstallPolicy(c)
  \/ c.action = "record-admission"     /\ RecordAdmission(c)
  \/ c.action = "publish-builtin"      /\ PublishBuiltin(c)
  \/ c.action = "create-bound-request" /\ CreateBoundRequest(c)
  \/ c.action = "seal-bound-capture"   /\ SealBoundCapture(c)
  \/ c.action = "authorize-detector"   /\ AuthorizeDetector(c)
  \/ c.action = "renew-detector"       /\ RenewDetector(c)

-----------------------------------------------------------------------------
(* The clients: a command is prepared once and sent, unchanged, until it is *)
(* answered or given up.                                                   *)

Wanted(action) ==
  CASE action \in {"install-policy", "record-admission"} -> TRUE
    [] action = "publish-builtin"      -> receipt = <<>>
    [] action = "create-bound-request" -> receipt # <<>> /\ binding = <<>>
    [] action = "seal-bound-capture"   -> binding # <<>> /\ seal = <<>>
    [] action = "authorize-detector"   -> seal # <<>> /\ work.run = "none" /\ Len(events) < MaxEvents
    [] action = "renew-detector"       -> work.run = "running" /\ Len(events) < MaxEvents

Prepare(who, action, doc) ==
  /\ pending[who].action = "none" /\ Wanted(action)
  /\ pending' = [pending EXCEPT ![who] =
       [action |-> action, doc |-> doc, coordination |-> Coordination,
        policy |-> Len(policies), checkpoint |-> Len(checkpoints),
        token |-> work.token, revision |-> work.revision, previous |-> Len(events),
        at |-> IF action = "publish-builtin" THEN now ELSE 0]]
  /\ refused' = [refused EXCEPT ![who] = FALSE]
  /\ UNCHANGED kept
  /\ UNCHANGED <<now, heads, records, work, reader>>

Ask ==
  \/ \E d \in PolicyDocs : d.revision = Len(policies) + 1
                           /\ Prepare("administrator", "install-policy", d)
  \/ \E d \in CheckpointDocs : d.generation = Len(checkpoints) + 1
                           /\ Prepare("administrator", "record-admission", d)
  \/ \E a \in {"publish-builtin", "create-bound-request", "seal-bound-capture",
               "authorize-detector", "renew-detector"} : Prepare("worker", a, "none")

\* the answer arrives, or is lost and the client still holds the command
Acknowledge(who) ==
  \/ pending' = [pending EXCEPT ![who] = NoCommand] /\ kept' = [kept EXCEPT ![who] = FALSE]
  \/ who \in Unreliable /\ kept' = [kept EXCEPT ![who] = TRUE] /\ UNCHANGED pending

\* v1_replay: is there a row under the command's operation key?
Replayed(who) == kept[who]

\* what the repository requires of the row a mutation, or its replay, returns
AnswerFits(c) ==
  LET Of(r) == r.policy = c.policy /\ r.checkpoint = c.checkpoint
      e == events[Len(events)] IN
  /\ c.action = "install-policy"       => policies[c.policy + 1] = c.doc
  /\ c.action = "record-admission"     => checkpoints[c.checkpoint + 1] = c.doc
  /\ c.action = "publish-builtin"      => Of(receipt[1])
  /\ c.action = "create-bound-request" => Of(binding[1])
  /\ c.action = "seal-bound-capture"   => seal[1].token = c.token /\ seal[1].revision = c.revision
  /\ c.action \in {"authorize-detector", "renew-detector"} =>
       /\ Of(e) /\ e.token = c.token
       /\ e.revision = IF c.action = "renew-detector" /\ e.kind = "authorization"
                       THEN c.revision + 1 ELSE c.revision

Deliver(who) ==
  /\ pending[who].action # "none"
  /\ \/ Replayed(who) /\ Acknowledge(who) /\ UNCHANGED <<refused, heads, records, work>>
     \/ /\ ~Replayed(who) /\ Fresh(pending[who]) /\ Apply(pending[who])
        /\ Acknowledge(who) /\ UNCHANGED refused
     \/ /\ ~Replayed(who) /\ ~Can(pending[who])
        /\ pending' = [pending EXCEPT ![who] = NoCommand] /\ refused' = [refused EXCEPT ![who] = TRUE]
        /\ UNCHANGED <<kept, heads, records, work>>
  /\ UNCHANGED <<now, reader>>

-----------------------------------------------------------------------------
(* The execution store underneath, and time.                               *)

Claim ==
  /\ binding # <<>> /\ work.token < MaxTokens
  /\ work.state = "queued" \/ (work.state = "running" /\ now >= work.lease)
  /\ work' = [state |-> "running", token |-> work.token + 1, revision |-> work.revision + 1,
              lease |-> now + LeaseTicks, run |-> "none"]
  /\ UNCHANGED <<now, heads, records, clients, reader>>

\* a renewal outside the ledger, and the end of the attempt
Heartbeat ==
  /\ work.state = "running" /\ now < work.lease /\ now + LeaseTicks > work.lease
  /\ work' = [work EXCEPT !.revision = @ + 1, !.lease = now + LeaseTicks]
  /\ UNCHANGED <<now, heads, records, clients, reader>>

Finish ==
  /\ work.state = "running" /\ work.run = "running" /\ now < work.lease
  /\ work' = [work EXCEPT !.revision = @ + 1, !.state = "completed", !.run = "completed"]
  /\ UNCHANGED <<now, heads, records, clients, reader>>

Tick ==
  /\ now < MaxTime
  /\ now' = now + 1
  /\ UNCHANGED <<heads, records, work, clients, reader>>

-----------------------------------------------------------------------------
(* The verifier: verify_request over the documents, in Python.             *)

CheckpointAt(g, r, t) ==
  /\ checkpoints[g].action = "admit" /\ checkpoints[g].policy = r
  /\ Within(checkpoints[g], t)

GrantAt(r, t) == policies[r].grant.present /\ GrantUse(policies[r].grant, t, receipt[1].at)

\* _approval, for a publication at t under policy r
ApprovalAt(r, issued, t) ==
  /\ Within(policies[r], t)
  /\ policies[r].grant.present /\ policies[r].grant.status = "active"
  /\ Within(policies[r].grant, t)
  /\ r = 1 => AdmittedInside(policies[r].grant, policies[r])
  /\ t - Window <= issued /\ issued <= t

\* _historical: the publication and the resolution, each at its own instant
Historical(t) ==
  LET p == receipt[1]  q == binding[1] IN
  /\ p.at <= q.at /\ q.at <= t
  /\ ApprovalAt(p.policy, p.issued, p.at) /\ CheckpointAt(p.checkpoint, p.policy, p.at)
  /\ PolicyEvolution(p.policy, q.policy)
  /\ Within(policies[q.policy], q.at) /\ GrantAt(q.policy, q.at)
  /\ CheckpointAt(q.checkpoint, q.policy, q.at)

Earliest(ends) == CHOOSE t \in ends : \A u \in ends : t <= u

Permission(i) ==
  LET e == events[i] IN
  Earliest({e.lease, policies[e.policy].until, policies[e.policy].grant.until, checkpoints[e.checkpoint].until})

\* _execution: the live heads the context carries, now and at issuance
Execution(i, t) ==
  LET e == events[i] IN
  /\ PolicyEvolution(binding[1].policy, e.policy)
  /\ binding[1].at <= e.at /\ e.at <= t
  /\ \A u \in {e.at, t} : /\ Within(policies[e.policy], u) /\ GrantAt(e.policy, u)
                          /\ CheckpointAt(e.checkpoint, e.policy, u)
  /\ t < Permission(i)

VerifyRequest(i, t) == Historical(t) /\ Execution(i, t)

\* verify_admin_policy, verify_admin_admission, verify_admin_publication_receipt
AdminPolicy(r) ==
  IF r = 1 THEN policies[1].grant.present => AdmittedInside(policies[1].grant, policies[1])
  ELSE PolicyEvolution(r - 1, r)
AdminAdmission(g) == checkpoints[g].generation = g /\ checkpoints[g].policy \in DOMAIN policies
AdminPublication ==
  LET p == receipt[1] IN
  ApprovalAt(p.policy, p.issued, p.at) /\ CheckpointAt(p.checkpoint, p.policy, p.at)

\* verify_admin_current: the heads, before anything is published under them
AdminCurrent(t) ==
  Within(policies[Len(policies)], t) /\ CheckpointAt(Len(checkpoints), Len(policies), t)

\* the publication preflight of a command, made when it was prepared
Preflight(c, t) == /\ c.policy = Len(policies) /\ c.checkpoint = Len(checkpoints)
                   /\ AdminCurrent(t) /\ ApprovalAt(c.policy, c.at, t)

\* v1_read_current: the SQL side's reading of authorization i
ReadCurrent(i) ==
  LET e == events[i] IN
  /\ IsLeaf(i)
  /\ e.policy = Len(policies) /\ e.checkpoint = Len(checkpoints)
  /\ Checkpoint.policy = Len(policies)
  /\ work.state = "running" /\ work.run = "running"
  /\ e.token = work.token /\ e.revision = work.revision /\ e.lease = work.lease
  /\ binding[1].at <= e.at /\ e.at <= now /\ now < work.lease
  /\ Usable(e.at) /\ Usable(now)

Read(i) ==
  /\ reader.phase = "idle" /\ ReadCurrent(i)
  /\ reader' = [phase |-> "read", event |-> i, time |-> now, until |-> 0]
  /\ UNCHANGED <<now, heads, records, work, clients>>

\* run_isolated_verifier: the controller may refuse to run it at all
Verify ==
  /\ reader.phase = "read"
  /\ \/ /\ VerifyRequest(reader.event, reader.time)
        /\ reader' = [reader EXCEPT !.phase = "checked", !.until = Permission(reader.event)]
     \/ reader' = NotReading
  /\ UNCHANGED <<now, heads, records, work, clients>>

Rechecked_Skipped(i) == TRUE

\* recheck_execution_authority_v1: the same row and the same heads
Rechecked(i) == ReadCurrent(i) /\ now >= reader.time

Recheck ==
  /\ reader.phase = "checked"
  /\ reader' = IF Rechecked(reader.event) THEN [reader EXCEPT !.phase = "verified"] ELSE NotReading
  /\ UNCHANGED <<now, heads, records, work, clients>>

Return ==
  /\ reader.phase = "verified"
  /\ reader' = NotReading
  /\ UNCHANGED <<now, heads, records, work, clients>>

ledgerNext ==
  \/ Ask \/ (\E who \in Clients : Deliver(who))
  \/ Claim \/ Heartbeat \/ Finish \/ Tick
  \/ (\E i \in DOMAIN events : Read(i)) \/ Verify \/ Recheck \/ Return

ledgerSpec == ledgerInit /\ [][ledgerNext]_ledgerVars

-----------------------------------------------------------------------------
(* Two programs decide the same question: the SQL checks adjacent policies *)
(* and the live heads, verify.py the few documents it is handed.  Whatever *)
(* the ledger stored or hands out, at once or to a retry, the verifier and *)
(* the repository that reads the answer accept.                            *)
VerifierAgrees ==
  /\ \A r \in DOMAIN policies : AdminPolicy(r)
  /\ \A g \in DOMAIN checkpoints : AdminAdmission(g)
  /\ receipt # <<>> => AdminPublication
  /\ LET command == pending["worker"] IN
     command.action = "publish-builtin" /\ Fresh(command) /\ CanPublish(command) => Preflight(command, now)
  /\ \A who \in Clients : kept[who] => AnswerFits(pending[who])
  /\ \A i \in DOMAIN events : ReadCurrent(i) => VerifyRequest(i, now)

(* verify_resolved_qualified_rule returns only for the run's latest        *)
(* authorization, under the installed heads, with a grant that may still   *)
(* be used, and before the permission it returns has expired, whatever     *)
(* happened while the verifier process ran.                                *)
VerifiedIsCurrent ==
  [][reader'.phase = "verified" /\ reader.phase # "verified" =>
       LET e == events[reader.event] IN
       /\ IsLeaf(reader.event) /\ e.revision = work.revision
       /\ e.policy = Len(policies) /\ e.checkpoint = Len(checkpoints)
       /\ Usable(now) /\ now < reader.until]_ledgerVars

(* A recorded denial ends the work item: no later command, of whatever     *)
(* attempt and under whatever policy, is authorized.                       *)
DenialIsFinal ==
  \A i, j \in DOMAIN events :
    events[i].kind = "denial" /\ i < j => events[j].kind # "authorization"

(* Once a policy revokes the grant, no run is authorized under that or any *)
(* later policy, and none of them revives it.                              *)
RevokedForever ==
  \A r \in DOMAIN policies : policies[r].grant.present /\ policies[r].grant.status = "revoked" =>
    \A i \in DOMAIN events : events[i].kind = "authorization" => events[i].policy < r

(* A client told that its command was refused can prepare another: the     *)
(* refused one is not in the ledger, lost answers and retries included.    *)
RefusedIsAbsent == \A who \in Clients : refused[who] => ~kept[who]

(* The verifier accepts what the ledger stored, a denial and a revocation  *)
(* are final, and a refused command is not in the ledger.                  *)
LedgerIsConsistent == VerifierAgrees /\ DenialIsFinal /\ RevokedForever /\ RefusedIsAbsent
=============================================================================
