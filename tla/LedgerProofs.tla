----------------------------- MODULE LedgerProofs -----------------------------
(***************************************************************************)
(* Proofs about AcceptedLedger, for any documents and however often an     *)
(* answer is lost and its command is sent again.                           *)
(*                                                                         *)
(* What the SQL checks of adjacent policies composes to any two of them    *)
(* (EvolvesOn, Chained); each record was made under heads that are still   *)
(* in the chains (Publication, Acceptance, Decided); the chains only grow, *)
(* so what was true of a record stays true of it (FactsStay), and a        *)
(* command that was kept finds its answer on record (KeptFits).            *)
(***************************************************************************)
EXTENDS AcceptedLedger, TLAPS

\* Zenon proves what has no arithmetic; a step that needs SMT cites it.
USE Zenon

Actions(who) ==
  IF who = "administrator" THEN {"install-policy", "record-admission"}
  ELSE {"publish-builtin", "create-bound-request", "seal-bound-capture", "authorize-detector", "renew-detector"}

EventRecords ==
  [kind : {"authorization", "denial"}, token : Nat, revision : Nat, lease : Nat, at : Nat,
   policy : Nat, checkpoint : Nat]

LedgerTypes ==
  /\ now \in Nat /\ policies \in Seq(PolicyDocs) /\ checkpoints \in Seq(CheckpointDocs)
  /\ receipt # <<>> => receipt[1] \in [at : Nat, issued : Nat, policy : Nat, checkpoint : Nat]
  /\ binding # <<>> => binding[1] \in [at : Nat, policy : Nat, checkpoint : Nat]
  /\ events \in Seq(EventRecords)
  /\ work \in [state : {"queued", "running", "failed", "completed"}, token : Nat, revision : Nat, lease : Nat,
               run : {"none", "running", "failed", "completed"}]
  /\ kept \in [Clients -> BOOLEAN] /\ refused \in [Clients -> BOOLEAN]
  /\ reader \in [phase : {"idle", "read", "checked", "verified"}, event : Nat, time : Nat, until : Nat]

\* A command is what its client prepared, against heads the ledger has had.
Prepared(who) ==
  LET c == pending[who] IN
  \/ c = NoCommand /\ ~kept[who]
  \/ /\ c.action \in Actions(who) /\ ~refused[who]
     /\ c.policy \in 0..Len(policies) /\ c.checkpoint \in 0..Len(checkpoints)
     /\ c.coordination = c.policy + c.checkpoint
     /\ c.token \in Nat /\ c.revision \in Nat /\ c.at \in Nat /\ c.at <= now
     /\ c.action = "install-policy" => c.doc \in PolicyDocs
     /\ c.action = "record-admission" => c.doc \in CheckpointDocs
Commands == DOMAIN pending = Clients /\ \A who \in Clients : Prepared(who)

\* What the SQL checked of adjacent policies holds of any two.
Chained ==
  /\ \A r, s \in DOMAIN policies :
        r < s /\ policies[r].grant.present => GrantEvolves(policies[r].grant, policies[s].grant)
  /\ \A r \in DOMAIN policies :
        policies[r].grant.present /\ (r = 1 \/ ~policies[r - 1].grant.present)
          => AdmittedInside(policies[r].grant, policies[r])
  /\ \A g \in DOMAIN checkpoints : AdminAdmission(g)

\* Each record was made under heads that are still in the chains.
Publication ==
  receipt # <<>> =>
    /\ receipt[1].policy \in DOMAIN policies /\ receipt[1].checkpoint \in DOMAIN checkpoints
    /\ receipt[1].at <= now /\ AdminPublication
Acceptance ==
  binding # <<>> =>
    LET q == binding[1] IN
    /\ receipt # <<>> /\ receipt[1].at <= q.at /\ q.at <= now
    /\ q.policy \in DOMAIN policies /\ receipt[1].policy <= q.policy /\ q.checkpoint \in DOMAIN checkpoints
    /\ Within(policies[q.policy], q.at) /\ GrantAt(q.policy, q.at) /\ CheckpointAt(q.checkpoint, q.policy, q.at)
Decided ==
  /\ seal # <<>> => binding # <<>>
  /\ events # <<>> => seal # <<>>
  /\ \A i \in DOMAIN events :
        /\ events[i].policy \in DOMAIN policies /\ events[i].checkpoint \in DOMAIN checkpoints
        /\ binding[1].policy <= events[i].policy
        /\ events[i].kind = "authorization" =>
             policies[events[i].policy].grant.present /\ policies[events[i].policy].grant.status # "revoked"
        /\ events[i].kind = "denial" => work.state = "failed"
  /\ DenialIsFinal

\* A command whose operation is kept is answered by what the ledger still shows.
OnRecord(c) ==
  /\ AnswerFits(c)
  /\ c.action = "install-policy" => c.policy + 1 \in DOMAIN policies
  /\ c.action = "record-admission" => c.checkpoint + 1 \in DOMAIN checkpoints
  /\ c.action = "publish-builtin" => receipt # <<>>
  /\ c.action = "create-bound-request" => binding # <<>>
  /\ c.action = "seal-bound-capture" => seal # <<>>
KeptFits(who) == kept[who] => OnRecord(pending[who])

\* The verifier checked the event it holds, and returns that event's permission.
Checked ==
  /\ reader.phase # "idle" => reader.event \in DOMAIN events
  /\ reader.phase \in {"checked", "verified"} => reader.until = Permission(reader.event)

\* The inductive invariant of the ledger.
LedgerInv ==
  /\ LedgerTypes /\ Commands /\ Chained /\ Publication /\ Acceptance /\ Decided
  /\ (\A who \in Clients : KeptFits(who)) /\ Checked

\* A grant's evolution composes: what holds of adjacent policies holds of any two.
LEMMA EvolvesOn ==
  ASSUME NEW f \in Grants, NEW g \in Grants, NEW h \in Grants, GrantEvolves(f, g), GrantEvolves(g, h)
  PROVE  GrantEvolves(f, h)
<1>1. /\ f.status \in {"active", "retired", "revoked"} /\ g.status \in {"active", "retired", "revoked"}
      /\ f.changed \in Nat /\ g.changed \in Nat /\ h.changed \in Nat
  BY SMT DEF Grants
<1>2. /\ Successors["active"] = {"active", "retired", "revoked"}
      /\ Successors["retired"] = {"retired", "revoked"} /\ Successors["revoked"] = {"revoked"}
  BY SMT DEF Successors
<1>3. h.present /\ h.from = f.from /\ h.until = f.until
  BY DEF GrantEvolves
<1>4. h.status \in Successors[f.status]
  BY <1>1, <1>2, SMT DEF GrantEvolves
<1>5. IF h.status = f.status THEN h.changed = f.changed
      ELSE f.status # "active" => h.changed >= f.changed
  BY <1>1, <1>2, SMT DEF GrantEvolves
<1> QED BY <1>3, <1>4, <1>5 DEF GrantEvolves

\* A stored policy is one of the documents, with the types of its fields.
LEMMA PolicyFields ==
  ASSUME LedgerTypes, NEW r \in DOMAIN policies
  PROVE  /\ policies[r] \in PolicyDocs /\ policies[r].grant \in Grants
         /\ policies[r].from \in Nat /\ policies[r].until \in Nat /\ r \in 1..Len(policies)
         /\ policies[r].grant.from \in Nat /\ policies[r].grant.until \in Nat
<1>1. policies[r] \in PolicyDocs /\ r \in 1..Len(policies)
  BY SMT DEF LedgerTypes
<1>2. policies[r] \in [revision : Nat, from : Nat, until : Nat, grant : Grants]
  BY <1>1, LedgerAssumption
<1>3. policies[r].grant \in Grants /\ policies[r].from \in Nat /\ policies[r].until \in Nat
  BY ONLY <1>2, SMT
<1>4. policies[r].grant.from \in Nat /\ policies[r].grant.until \in Nat
  BY ONLY <1>3, SMT DEF Grants
<1> QED BY <1>1, <1>3, <1>4

\* A stored checkpoint is one of the documents.
LEMMA CheckpointFields ==
  ASSUME LedgerTypes, NEW g \in DOMAIN checkpoints
  PROVE  /\ checkpoints[g] \in CheckpointDocs /\ g \in 1..Len(checkpoints)
         /\ checkpoints[g].from \in Nat /\ checkpoints[g].until \in Nat
<1>1. checkpoints[g] \in CheckpointDocs /\ g \in 1..Len(checkpoints)
  BY SMT DEF LedgerTypes
<1>2. checkpoints[g] \in [generation : Nat, policy : Nat, action : {"admit", "block"}, from : Nat, until : Nat]
  BY <1>1, LedgerAssumption
<1> QED BY ONLY <1>1, <1>2, SMT

\* The empty ledger satisfies the invariant.
LEMMA LedgerInit == ledgerInit => LedgerInv
<1> SUFFICES ASSUME ledgerInit PROVE LedgerInv
  OBVIOUS
<1>1. /\ now = 0 /\ policies = <<>> /\ checkpoints = <<>> /\ receipt = <<>> /\ binding = <<>> /\ seal = <<>>
      /\ events = <<>> /\ reader = NotReading
      /\ work = [state |-> "queued", token |-> 0, revision |-> 0, lease |-> 0, run |-> "none"]
      /\ pending = [c \in Clients |-> NoCommand] /\ kept = [c \in Clients |-> FALSE]
      /\ refused = [c \in Clients |-> FALSE]
  BY DEF ledgerInit
<1>2. LedgerTypes
  BY ONLY <1>1, SMT DEF LedgerTypes, NotReading
<1>3. Commands
  BY <1>1 DEF Commands, Prepared
<1>4. DOMAIN policies = {} /\ DOMAIN checkpoints = {} /\ DOMAIN events = {}
  BY ONLY <1>1, SMT
<1>5. Chained /\ Publication /\ Acceptance /\ Decided
  BY <1>1, <1>4 DEF Chained, Publication, Acceptance, Decided, DenialIsFinal
<1>6. \A who \in Clients : KeptFits(who)
  BY <1>1 DEF KeptFits
<1>7. reader.phase = "idle" /\ reader.phase \notin {"checked", "verified"}
  BY ONLY <1>1, SMT DEF NotReading
<1>8. Checked
  BY <1>7 DEF Checked
<1> QED BY <1>2, <1>3, <1>5, <1>6, <1>8 DEF LedgerInv

-----------------------------------------------------------------------------
(* A step either leaves the ledger's records alone or applies the command  *)
(* of one client.                                                          *)

Untouched == UNCHANGED <<policies, checkpoints, receipt, binding, seal, events>>
Applied(who) ==
  /\ who \in Clients /\ pending[who].action # "none" /\ ~kept[who]
  /\ Fresh(pending[who]) /\ Apply(pending[who]) /\ Acknowledge(who) /\ UNCHANGED <<refused, now, reader>>

\* Only the delivery of a command changes the ledger.
LEMMA StepKinds ==
  ASSUME [ledgerNext]_ledgerVars
  PROVE  \/ Untouched
         \/ \E who \in Clients : Applied(who)
<1>1. CASE \E who \in Clients : Deliver(who)
  <2>1. PICK who \in Clients : Deliver(who)
    BY <1>1
  <2>2. CASE UNCHANGED <<heads, records>>
    BY <2>2 DEF Untouched, heads, records
  <2>3. CASE ~UNCHANGED <<heads, records>>
    BY <2>1, <2>3 DEF Deliver, Applied, Replayed
  <2> QED BY <2>2, <2>3
<1>2. CASE UNCHANGED ledgerVars
  BY <1>2 DEF ledgerVars, Untouched, heads, records
<1>3. CASE Ask
  BY <1>3 DEF Ask, Prepare, Untouched, heads, records
<1>4. CASE Claim \/ Heartbeat \/ Finish \/ Tick \/ (\E i \in DOMAIN events : Read(i)) \/ Verify \/ Recheck \/ Return
  BY <1>4 DEF Claim, Heartbeat, Finish, Tick, Read, Verify, Recheck, Return, Untouched, heads, records
<1> QED BY <1>1, <1>2, <1>3, <1>4 DEF ledgerNext

\* The command of a client that has one, and what the heads are when it is fresh.
LEMMA CommandFields ==
  ASSUME LedgerInv, NEW who \in Clients, pending[who].action # "none"
  PROVE  LET c == pending[who] IN
         /\ c.action \in Actions(who) /\ ~refused[who]
         /\ c.policy \in 0..Len(policies) /\ c.checkpoint \in 0..Len(checkpoints)
         /\ c.coordination = c.policy + c.checkpoint
         /\ c.token \in Nat /\ c.revision \in Nat /\ c.at \in Nat /\ c.at <= now
         /\ c.action = "install-policy" => c.doc \in PolicyDocs
         /\ c.action = "record-admission" => c.doc \in CheckpointDocs
<1>1. pending[who] # NoCommand
  BY SMT DEF NoCommand
<1> QED BY <1>1 DEF LedgerInv, Commands, Prepared

\* A command that is fresh was prepared against both heads: the coordination number
\* is their sum, and neither head goes back.
LEMMA FreshHeads ==
  ASSUME LedgerInv, NEW who \in Clients, pending[who].action # "none", Fresh(pending[who])
  PROVE  pending[who].policy = Len(policies) /\ pending[who].checkpoint = Len(checkpoints)
<1>1. /\ pending[who].policy \in 0..Len(policies) /\ pending[who].checkpoint \in 0..Len(checkpoints)
      /\ pending[who].coordination = pending[who].policy + pending[who].checkpoint
  BY CommandFields
<1>2. pending[who].coordination = Len(policies) + Len(checkpoints)
  BY DEF Fresh, Coordination
<1>3. Len(policies) \in Nat /\ Len(checkpoints) \in Nat
  BY SMT DEF LedgerInv, LedgerTypes
<1> QED BY ONLY <1>1, <1>2, <1>3, SMT

\* Which command of which client was applied.
LEMMA AppliedKinds ==
  ASSUME LedgerInv, NEW who \in Clients, Applied(who)
  PROVE  LET c == pending[who] IN
         \/ who = "administrator" /\ c.action = "install-policy" /\ InstallPolicy(c)
         \/ who = "administrator" /\ c.action = "record-admission" /\ RecordAdmission(c)
         \/ who = "worker" /\ c.action = "publish-builtin" /\ PublishBuiltin(c)
         \/ who = "worker" /\ c.action = "create-bound-request" /\ CreateBoundRequest(c)
         \/ who = "worker" /\ c.action = "seal-bound-capture" /\ SealBoundCapture(c)
         \/ who = "worker" /\ c.action = "authorize-detector" /\ AuthorizeDetector(c)
         \/ who = "worker" /\ c.action = "renew-detector" /\ RenewDetector(c)
<1>1. pending[who].action \in Actions(who) /\ who \in {"administrator", "worker"}
  BY CommandFields DEF Applied, Clients
<1>2. Apply(pending[who])
  BY DEF Applied
<1>3. /\ pending[who].action \in {"install-policy", "record-admission"} => who = "administrator"
      /\ pending[who].action \notin {"install-policy", "record-admission"} => who = "worker"
  BY ONLY <1>1, SMT DEF Actions
<1>4. CASE pending[who].action \in {"install-policy", "record-admission"}
  <2>1. who = "administrator"
    BY <1>3, <1>4
  <2>2. pending[who].action \notin {"publish-builtin", "create-bound-request", "seal-bound-capture",
                                  "authorize-detector", "renew-detector"}
    BY ONLY <1>4, SMT
  <2> QED BY <1>2, <2>1, <2>2 DEF Apply
<1>5. CASE pending[who].action \notin {"install-policy", "record-admission"}
  BY <1>2, <1>3, <1>5 DEF Apply
<1> QED BY <1>4, <1>5

\* What appending does to a sequence.
LEMMA Appended ==
  ASSUME NEW S, NEW q \in Seq(S), NEW x \in S
  PROVE  LET p == Append(q, x) IN
         /\ p \in Seq(S) /\ Len(p) = Len(q) + 1 /\ p[Len(q) + 1] = x /\ p # <<>>
         /\ \A i \in DOMAIN q : i \in DOMAIN p /\ p[i] = q[i] /\ i # Len(q) + 1 /\ i < Len(q) + 1
         /\ \A i \in DOMAIN p : i \in DOMAIN q \/ i = Len(q) + 1
         /\ Len(q) \in Nat /\ Len(q) + 1 \in DOMAIN p
  BY SMT

\* The event a decision on the work item w appends.
LEMMA EventTyped ==
  ASSUME LedgerTypes, NEW kind \in {"authorization", "denial"}, NEW w,
         w.token \in Nat, w.revision \in Nat, w.lease \in Nat
  PROVE  LET e == Event(kind, w) IN
         /\ e \in EventRecords /\ e.kind = kind /\ e.token = w.token /\ e.revision = w.revision
         /\ e.lease = w.lease /\ e.at = now /\ e.policy = Len(policies) /\ e.checkpoint = Len(checkpoints)
<1>1. now \in Nat /\ Len(policies) \in Nat /\ Len(checkpoints) \in Nat
  BY SMT DEF LedgerTypes
<1> QED BY <1>1, SMT DEF Event, EventRecords

WorkRows ==
  [state : {"queued", "running", "failed", "completed"}, token : Nat, revision : Nat, lease : Nat,
   run : {"none", "running", "failed", "completed"}]

\* The work item when it fails, and when its lease is renewed or its attempt ends.
LEMMA WorkFails ==
  ASSUME NEW w \in WorkRows
  PROVE  LET v == [w EXCEPT !.run = "failed", !.state = "failed", !.revision = @ + 1] IN
         v \in WorkRows /\ v.state = "failed"
<1> DEFINE t == [w EXCEPT !.run = "failed"]
           u == [t EXCEPT !.state = "failed"]
           v == [u EXCEPT !.revision = @ + 1]
<1>1. t \in WorkRows
  BY SMT DEF WorkRows
<1>2. [w EXCEPT !.run = "failed", !.state = "failed", !.revision = @ + 1] = v
  BY SMT
<1> HIDE DEF t
<1>3. u \in WorkRows /\ u.state = "failed"
  BY ONLY <1>1, SMT DEF WorkRows
<1> HIDE DEF u
<1>4. v \in WorkRows /\ v.state = "failed"
  BY ONLY <1>3, SMT DEF WorkRows
<1> HIDE DEF v
<1> QED BY <1>2, <1>4

\* A renewal moves the revision and the lease of the work only.
LEMMA WorkMoves ==
  ASSUME NEW w \in WorkRows, NEW t \in Nat
  PROVE  LET v == [w EXCEPT !.revision = @ + 1, !.lease = t] IN
         v \in WorkRows /\ v.token = w.token /\ v.revision = w.revision + 1 /\ v.lease = t /\ v.state = w.state
<1> DEFINE u == [w EXCEPT !.revision = @ + 1]
           v == [u EXCEPT !.lease = t]
<1>1. u \in WorkRows /\ u.token = w.token /\ u.revision = w.revision + 1 /\ u.state = w.state
  BY SMT DEF WorkRows
<1>2. [w EXCEPT !.revision = @ + 1, !.lease = t] = v
  BY SMT
<1> HIDE DEF u
<1>3. v \in WorkRows /\ v.token = w.token /\ v.revision = w.revision + 1 /\ v.lease = t /\ v.state = w.state
  BY ONLY <1>1, t \in Nat, SMT DEF WorkRows
<1> HIDE DEF v
<1> QED BY <1>2, <1>3

\* A finished work keeps its token.
LEMMA WorkEnds ==
  ASSUME NEW w \in WorkRows
  PROVE  [w EXCEPT !.revision = @ + 1, !.state = "completed", !.run = "completed"] \in WorkRows
<1> DEFINE u == [w EXCEPT !.revision = @ + 1]
           t == [u EXCEPT !.state = "completed"]
           v == [t EXCEPT !.run = "completed"]
<1>1. u \in WorkRows
  BY SMT DEF WorkRows
<1>2. [w EXCEPT !.revision = @ + 1, !.state = "completed", !.run = "completed"] = v
  BY SMT
<1> HIDE DEF u
<1>3. t \in WorkRows
  BY ONLY <1>1, SMT DEF WorkRows
<1> HIDE DEF t
<1>4. v \in WorkRows
  BY ONLY <1>3, SMT DEF WorkRows
<1> HIDE DEF v
<1> QED BY <1>2, <1>4

\* What a decision on a running attempt does to the events and the work item.
Decides(c, e) ==
  /\ e \in EventRecords /\ events' = Append(events, e) /\ work' \in WorkRows
  /\ work.state = "running" /\ seal # <<>> /\ Policy.grant.present
  /\ policies # <<>> /\ checkpoints # <<>> /\ c.policy = Len(policies) /\ c.checkpoint = Len(checkpoints)
  /\ e.token = c.token /\ e.policy = Len(policies) /\ e.checkpoint = Len(checkpoints)
  /\ \/ e.kind = "denial" /\ e.revision = c.revision /\ work'.state = "failed"
     \/ /\ e.kind = "authorization" /\ ~Denied
        /\ e.revision = IF c.action = "renew-detector" THEN c.revision + 1 ELSE c.revision
  /\ UNCHANGED <<policies, checkpoints, receipt, binding, seal>>

\* An authorization decides under the current heads.
LEMMA AuthorizeDecides ==
  ASSUME LedgerInv, NEW c, c.action = "authorize-detector", AuthorizeDetector(c)
  PROVE  \E e : Decides(c, e)
<1>1. /\ policies # <<>> /\ checkpoints # <<>> /\ c.policy = Len(policies) /\ c.checkpoint = Len(checkpoints)
      /\ seal # <<>> /\ Policy.grant.present /\ work.state = "running"
      /\ c.token = work.token /\ c.revision = work.revision
  BY DEF AuthorizeDetector, CanAuthorize, Live, Context
<1>2. LedgerTypes /\ work \in WorkRows
  BY DEF LedgerInv, LedgerTypes, WorkRows
<1>3. work.token \in Nat /\ work.revision \in Nat /\ work.lease \in Nat
  BY ONLY <1>2, SMT DEF WorkRows
<1>4. UNCHANGED <<policies, checkpoints, receipt, binding, seal>>
  BY DEF AuthorizeDetector, heads
<1>5. c.action # "renew-detector"
  BY SMT
<1>6. CASE Denied
  <2> DEFINE e == Event("denial", work)
  <2>1. /\ e \in EventRecords /\ e.kind = "denial" /\ e.token = work.token /\ e.revision = work.revision
        /\ e.policy = Len(policies) /\ e.checkpoint = Len(checkpoints)
    BY <1>2, <1>3, EventTyped
  <2>2. events' = Append(events, e) /\ work' = [work EXCEPT !.run = "failed", !.state = "failed", !.revision = @ + 1]
    BY <1>6 DEF AuthorizeDetector, FailDenied
  <2>3. work' \in WorkRows /\ work'.state = "failed"
    BY <1>2, <2>2, WorkFails
  <2> HIDE DEF e
  <2> QED BY <1>1, <1>4, <2>1, <2>2, <2>3 DEF Decides
<1>7. CASE ~Denied
  <2> DEFINE e == Event("authorization", work)
  <2>1. /\ e \in EventRecords /\ e.kind = "authorization" /\ e.token = work.token /\ e.revision = work.revision
        /\ e.policy = Len(policies) /\ e.checkpoint = Len(checkpoints)
    BY <1>2, <1>3, EventTyped
  <2>2. events' = Append(events, e) /\ work' = [work EXCEPT !.run = "running"]
    BY <1>7 DEF AuthorizeDetector
  <2>3. work' \in WorkRows
    BY ONLY <1>2, <2>2, SMT DEF WorkRows
  <2> HIDE DEF e
  <2> QED BY <1>1, <1>4, <1>5, <1>7, <2>1, <2>2, <2>3 DEF Decides
<1> QED BY <1>6, <1>7

\* A renewal decides under the current heads.
LEMMA RenewDecides ==
  ASSUME LedgerInv, NEW c, c.action = "renew-detector", RenewDetector(c)
  PROVE  \E e : Decides(c, e)
<1>1. /\ policies # <<>> /\ checkpoints # <<>> /\ c.policy = Len(policies) /\ c.checkpoint = Len(checkpoints)
      /\ seal # <<>> /\ Policy.grant.present /\ work.state = "running"
      /\ c.token = work.token /\ c.revision = work.revision
  BY DEF RenewDetector, CanRenew, Live, Context
<1>2. LedgerTypes /\ work \in WorkRows /\ now + LeaseTicks \in Nat
  <2>1. LedgerTypes /\ now \in Nat /\ work \in WorkRows
    BY DEF LedgerInv, LedgerTypes, WorkRows
  <2> QED BY <2>1, LedgerAssumption, SMT
<1>3. work.token \in Nat /\ work.revision \in Nat /\ work.lease \in Nat
  BY ONLY <1>2, SMT DEF WorkRows
<1>4. UNCHANGED <<policies, checkpoints, receipt, binding, seal>>
  BY DEF RenewDetector, heads
<1>6. CASE Denied
  <2> DEFINE e == Event("denial", work)
  <2>1. /\ e \in EventRecords /\ e.kind = "denial" /\ e.token = work.token /\ e.revision = work.revision
        /\ e.policy = Len(policies) /\ e.checkpoint = Len(checkpoints)
    BY <1>2, <1>3, EventTyped
  <2>2. events' = Append(events, e) /\ work' = [work EXCEPT !.run = "failed", !.state = "failed", !.revision = @ + 1]
    BY <1>6 DEF RenewDetector, FailDenied
  <2>3. work' \in WorkRows /\ work'.state = "failed"
    BY <1>2, <2>2, WorkFails
  <2> HIDE DEF e
  <2> QED BY <1>1, <1>4, <2>1, <2>2, <2>3 DEF Decides
<1>7. CASE ~Denied
  <2> DEFINE e == Event("authorization", work')
  <2>1. events' = Append(events, e) /\ work' = [work EXCEPT !.revision = @ + 1, !.lease = now + LeaseTicks]
    BY <1>7 DEF RenewDetector
  <2>2. /\ work' \in WorkRows /\ work'.token = work.token /\ work'.revision = work.revision + 1
        /\ work'.token \in Nat /\ work'.revision \in Nat /\ work'.lease \in Nat
    <3>1. work' \in WorkRows /\ work'.token = work.token /\ work'.revision = work.revision + 1
      BY <1>2, <2>1, WorkMoves
    <3> QED BY ONLY <3>1, SMT DEF WorkRows
  <2>3. /\ e \in EventRecords /\ e.kind = "authorization" /\ e.token = work'.token /\ e.revision = work'.revision
        /\ e.policy = Len(policies) /\ e.checkpoint = Len(checkpoints)
    BY <1>2, <2>2, EventTyped
  <2> HIDE DEF e
  <2> QED BY <1>1, <1>4, <1>7, <2>1, <2>2, <2>3 DEF Decides
<1> QED BY <1>6, <1>7

-----------------------------------------------------------------------------
(* The chains and the records only grow.                                   *)

Extends(p, q) == Len(q) \in Nat /\ Len(p) <= Len(q) /\ \A i \in DOMAIN p : i \in DOMAIN q /\ q[i] = p[i]
Grows ==
  /\ now' \in Nat /\ now <= now'
  /\ Extends(policies, policies') /\ Extends(checkpoints, checkpoints') /\ Extends(events, events')
  /\ receipt # <<>> => receipt' = receipt
  /\ binding # <<>> => binding' = binding
  /\ seal # <<>> => seal' = seal

\* A chain extends itself.
LEMMA ExtendsItself == ASSUME NEW S, NEW q \in Seq(S) PROVE Extends(q, q)
  BY SMT DEF Extends

\* A chain with one more entry extends it.
LEMMA AppendExtends == ASSUME NEW S, NEW q \in Seq(S), NEW x \in S PROVE Extends(q, Append(q, x))
<1>1. \A i \in DOMAIN q : i \in DOMAIN Append(q, x) /\ Append(q, x)[i] = q[i]
  BY Appended
<1>2. Len(Append(q, x)) \in Nat /\ Len(q) <= Len(Append(q, x))
  BY SMT
<1> QED BY <1>1, <1>2 DEF Extends

\* The clock does not go back.
LEMMA ClockMoves ==
  ASSUME LedgerInv, [ledgerNext]_ledgerVars
  PROVE  now' \in Nat /\ now <= now'
<1>1. now' = now \/ now' = now + 1
  BY DEF ledgerNext, ledgerVars, Ask, Prepare, Deliver, Claim, Heartbeat, Finish, Tick, Read, Verify, Recheck, Return
<1>2. now \in Nat
  BY DEF LedgerInv, LedgerTypes
<1> QED BY ONLY <1>1, <1>2, SMT

\* Every step only adds to what is stored.
LEMMA LedgerGrows ==
  ASSUME LedgerInv, [ledgerNext]_ledgerVars
  PROVE  Grows
<1>1. now' \in Nat /\ now <= now'
  BY ClockMoves
<1>2. policies \in Seq(PolicyDocs) /\ checkpoints \in Seq(CheckpointDocs) /\ events \in Seq(EventRecords)
  BY DEF LedgerInv, LedgerTypes
<1>3. Extends(policies, policies) /\ Extends(checkpoints, checkpoints) /\ Extends(events, events)
  BY <1>2, ExtendsItself
<1>4. CASE Untouched
  BY <1>1, <1>3, <1>4 DEF Untouched, Grows
<1>5. ASSUME NEW who \in Clients, Applied(who) PROVE Grows
  <2> DEFINE c == pending[who]
  <2>1. c.action # "none"
    BY <1>5 DEF Applied
  <2>2. CASE c.action = "install-policy" /\ InstallPolicy(c)
    <3>1. c.doc \in PolicyDocs
      BY <2>1, <2>2, CommandFields
    <3>2. policies' = Append(policies, c.doc) /\ UNCHANGED <<checkpoints, receipt, binding, seal, events>>
      BY <2>2 DEF InstallPolicy, records
    <3>3. Extends(policies, policies')
      BY <1>2, <3>1, <3>2, AppendExtends
    <3> QED BY <1>1, <1>3, <3>2, <3>3 DEF Grows
  <2>3. CASE c.action = "record-admission" /\ RecordAdmission(c)
    <3>1. c.doc \in CheckpointDocs
      BY <2>1, <2>3, CommandFields
    <3>2. checkpoints' = Append(checkpoints, c.doc) /\ UNCHANGED <<policies, receipt, binding, seal, events>>
      BY <2>3 DEF RecordAdmission, records
    <3>3. Extends(checkpoints, checkpoints')
      BY <1>2, <3>1, <3>2, AppendExtends
    <3> QED BY <1>1, <1>3, <3>2, <3>3 DEF Grows
  <2>4. CASE PublishBuiltin(c)
    BY <1>1, <1>3, <2>4 DEF PublishBuiltin, CanPublish, heads, Grows
  <2>5. CASE CreateBoundRequest(c)
    BY <1>1, <1>3, <2>5 DEF CreateBoundRequest, CanBind, heads, Grows
  <2>6. CASE SealBoundCapture(c)
    BY <1>1, <1>3, <2>6 DEF SealBoundCapture, CanSeal, heads, Grows
  <2>7. ASSUME NEW e, Decides(c, e) PROVE Grows
    <3>1. e \in EventRecords /\ events' = Append(events, e) /\ UNCHANGED <<policies, checkpoints, receipt, binding, seal>>
      BY <2>7 DEF Decides
    <3>2. Extends(events, events')
      BY <1>2, <3>1, AppendExtends
    <3> QED BY <1>1, <1>3, <3>1, <3>2 DEF Grows
  <2>8. CASE \/ c.action = "authorize-detector" /\ AuthorizeDetector(c)
             \/ c.action = "renew-detector" /\ RenewDetector(c)
    BY <2>7, <2>8, AuthorizeDecides, RenewDecides
  <2> QED BY <1>5, <2>2, <2>3, <2>4, <2>5, <2>6, <2>8, AppliedKinds
<1> QED BY <1>4, <1>5, StepKinds

\* What a decided fact of the chains was, it stays.
LEMMA FactsStay ==
  ASSUME Grows
  PROVE  /\ \A r \in DOMAIN policies : \A t, p :
              /\ Within(policies[r], t) => Within(policies'[r], t)
              /\ (policies[r].grant.present /\ GrantUse(policies[r].grant, t, p))
                   => (policies'[r].grant.present /\ GrantUse(policies'[r].grant, t, p))
         /\ \A g \in DOMAIN checkpoints : \A r, t : CheckpointAt(g, r, t) => CheckpointAt(g, r, t)'
         /\ \A r \in DOMAIN policies : \A i, t : ApprovalAt(r, i, t) => ApprovalAt(r, i, t)'
         /\ \A r \in DOMAIN policies : r \in DOMAIN policies'
         /\ \A g \in DOMAIN checkpoints : g \in DOMAIN checkpoints'
<1>1. \A r \in DOMAIN policies : r \in DOMAIN policies' /\ policies'[r] = policies[r]
  BY DEF Grows, Extends
<1>2. \A g \in DOMAIN checkpoints : g \in DOMAIN checkpoints' /\ checkpoints'[g] = checkpoints[g]
  BY DEF Grows, Extends
<1>3. \A g \in DOMAIN checkpoints : \A r, t : CheckpointAt(g, r, t) => CheckpointAt(g, r, t)'
  BY <1>2 DEF CheckpointAt, Within
<1>4. \A r \in DOMAIN policies : \A i, t : ApprovalAt(r, i, t) => ApprovalAt(r, i, t)'
  BY <1>1, ZenonT(40) DEF ApprovalAt, Within, AdmittedInside
<1>5. \A r \in DOMAIN policies : \A t, p :
              /\ Within(policies[r], t) => Within(policies'[r], t)
              /\ (policies[r].grant.present /\ GrantUse(policies[r].grant, t, p))
                   => (policies'[r].grant.present /\ GrantUse(policies'[r].grant, t, p))
  BY <1>1
<1> QED BY <1>1, <1>2, <1>3, <1>4, <1>5

-----------------------------------------------------------------------------
(* Types and commands.                                                     *)

\* Every step keeps the types of the work, and a failed work stays failed.
LEMMA WorkTyped ==
  ASSUME LedgerInv, [ledgerNext]_ledgerVars
  PROVE  /\ work' \in WorkRows
         /\ work.state = "failed" => work'.state = "failed"
<1>1. work \in WorkRows /\ now \in Nat
  BY DEF LedgerInv, LedgerTypes, WorkRows
<1>2. CASE work' = work
  BY <1>1, <1>2
<1>3. now + LeaseTicks \in Nat
  BY <1>1, LedgerAssumption, SMT
<1>4. CASE Claim
  <2>1. work' = [state |-> "running", token |-> work.token + 1, revision |-> work.revision + 1,
                 lease |-> now + LeaseTicks, run |-> "none"]
    BY <1>4 DEF Claim
  <2>2. work.state # "failed"
    BY <1>4, SMT DEF Claim
  <2>3. work' \in WorkRows
    BY ONLY <1>1, <1>3, <2>1, SMT DEF WorkRows
  <2> QED BY <2>2, <2>3
<1>5. CASE Heartbeat
  <2>1. work' = [work EXCEPT !.revision = @ + 1, !.lease = now + LeaseTicks] /\ work.state = "running"
    BY <1>5 DEF Heartbeat
  <2>2. work' \in WorkRows
    BY <1>1, <1>3, <2>1, WorkMoves
  <2>3. work.state # "failed"
    BY <2>1, SMT
  <2> QED BY <2>2, <2>3
<1>6. CASE Finish
  <2>1. /\ work' = [work EXCEPT !.revision = @ + 1, !.state = "completed", !.run = "completed"]
        /\ work.state = "running"
    BY <1>6 DEF Finish
  <2>2. work' \in WorkRows
    BY <1>1, <2>1, WorkEnds
  <2>3. work.state # "failed"
    BY <2>1, SMT
  <2> QED BY <2>2, <2>3
<1>7. CASE \E who \in Clients : Deliver(who) /\ work' # work
  <2>1. PICK who \in Clients : Deliver(who) /\ work' # work
    BY <1>7
  <2>2. Applied(who)
    BY <2>1 DEF Deliver, Applied, Replayed
  <2>3. PICK e : Decides(pending[who], e)
    BY <2>1, <2>2, AppliedKinds, AuthorizeDecides, RenewDecides DEF InstallPolicy, RecordAdmission, PublishBuiltin,
       CreateBoundRequest, SealBoundCapture
  <2>4. work' \in WorkRows /\ work.state = "running"
    BY <2>3 DEF Decides
  <2>5. work.state # "failed"
    BY <2>4, SMT
  <2> QED BY <2>4, <2>5
<1> QED BY <1>2, <1>4, <1>5, <1>6, <1>7 DEF ledgerNext, ledgerVars, Ask, Prepare, Tick, Read, Verify, Recheck, Return

\* The clients' own variables change when a command is prepared or delivered.
LEMMA ClientSteps ==
  ASSUME LedgerInv, [ledgerNext]_ledgerVars
  PROVE  \/ UNCHANGED <<pending, kept, refused>>
         \/ Ask
         \/ \E who \in Clients :
              /\ pending[who].action # "none" /\ refused' = refused /\ Acknowledge(who)
              /\ (kept[who] /\ Untouched) \/ Applied(who)
         \/ \E who \in Clients :
              /\ pending[who].action # "none" /\ ~kept[who] /\ kept' = kept /\ Untouched
              /\ pending' = [pending EXCEPT ![who] = NoCommand] /\ refused' = [refused EXCEPT ![who] = TRUE]
<1>1. CASE \E who \in Clients : Deliver(who)
  <2>1. PICK who \in Clients : Deliver(who)
    BY <1>1
  <2> QED BY <2>1 DEF Deliver, Replayed, Applied, Untouched, heads, records
<1>2. CASE ~\E who \in Clients : Deliver(who)
  BY <1>2 DEF ledgerNext, ledgerVars, Claim, Heartbeat, Finish, Tick, Read, Verify, Recheck, Return, clients
<1> QED BY <1>1, <1>2

\* A command in hand stays as it was prepared.
LEMMA PreparedStays ==
  ASSUME Grows, LedgerTypes, NEW who \in Clients, Prepared(who), pending'[who] = pending[who],
         pending[who].action = "none" => kept'[who] = kept[who],
         pending[who].action # "none" => refused'[who] = refused[who]
  PROVE  Prepared(who)'
<1>1. CASE pending[who] = NoCommand /\ ~kept[who]
  <2>1. pending[who].action = "none"
    BY <1>1, SMT DEF NoCommand
  <2> QED BY <1>1, <2>1 DEF Prepared
<1>2. CASE ~(pending[who] = NoCommand /\ ~kept[who])
  <2>1. pending[who].action \in Actions(who)
    BY <1>2 DEF Prepared
  <2>2. pending[who].action # "none"
    BY ONLY <2>1, SMT DEF Actions
  <2>3. /\ pending[who].policy \in 0..Len(policies) /\ pending[who].checkpoint \in 0..Len(checkpoints)
        /\ pending[who].at \in Nat /\ pending[who].at <= now
    BY <1>2 DEF Prepared
  <2>4. /\ Len(policies) <= Len(policies') /\ Len(checkpoints) <= Len(checkpoints') /\ now <= now' /\ now' \in Nat
    BY DEF Grows, Extends
  <2>5. Len(policies) \in Nat /\ Len(checkpoints) \in Nat /\ now \in Nat
    BY SMT DEF LedgerTypes
  <2>6. Len(policies') \in Nat /\ Len(checkpoints') \in Nat
    BY DEF Grows, Extends
  <2>7. /\ pending[who].policy \in 0..Len(policies') /\ pending[who].checkpoint \in 0..Len(checkpoints')
        /\ pending[who].at <= now'
    BY ONLY <2>3, <2>4, <2>5, <2>6, SMT
  <2> QED BY <1>2, <2>2, <2>7 DEF Prepared
<1> QED BY <1>1, <1>2

\* The command a client prepares is fresh and fits the client.
LEMMA PrepareStep ==
  ASSUME LedgerInv, NEW who \in Clients, NEW action \in Actions(who), NEW doc, Prepare(who, action, doc),
         action = "install-policy" => doc \in PolicyDocs,
         action = "record-admission" => doc \in CheckpointDocs
  PROVE  /\ Commands' /\ kept' = kept /\ refused' \in [Clients -> BOOLEAN] /\ ~kept[who]
         /\ \A w \in Clients : w # who => pending'[w] = pending[w]
<1> DEFINE c == [action |-> action, doc |-> doc, coordination |-> Coordination,
                 policy |-> Len(policies), checkpoint |-> Len(checkpoints),
                 token |-> work.token, revision |-> work.revision, previous |-> Len(events),
                 at |-> IF action = "publish-builtin" THEN now ELSE 0]
<1>1. /\ pending' = [pending EXCEPT ![who] = c] /\ refused' = [refused EXCEPT ![who] = FALSE] /\ kept' = kept
      /\ UNCHANGED <<now, policies, checkpoints, events, work>> /\ pending[who].action = "none"
  BY DEF Prepare, heads, records
<1>2. DOMAIN pending = Clients /\ refused \in [Clients -> BOOLEAN] /\ (\A w \in Clients : Prepared(w))
  BY DEF LedgerInv, LedgerTypes, Commands
<1>3. /\ Len(policies) \in Nat /\ Len(checkpoints) \in Nat /\ now \in Nat /\ work.token \in Nat /\ work.revision \in Nat
  <2>1. LedgerTypes
    BY DEF LedgerInv
  <2>2. work \in WorkRows
    BY <2>1 DEF LedgerTypes, WorkRows
  <2>3. work.token \in Nat /\ work.revision \in Nat
    BY ONLY <2>2, SMT DEF WorkRows
  <2> QED BY <2>1, <2>3, SMT DEF LedgerTypes
<1>4. /\ c.action = action /\ c.doc = doc /\ c.policy \in 0..Len(policies) /\ c.checkpoint \in 0..Len(checkpoints)
      /\ c.coordination = c.policy + c.checkpoint /\ c.token \in Nat /\ c.revision \in Nat
      /\ c.at \in Nat /\ c.at <= now
  BY <1>3, SMT DEF Coordination
<1> HIDE DEF c
<1>5. /\ pending'[who] = c /\ DOMAIN pending' = Clients /\ \A w \in Clients : w # who => pending'[w] = pending[w]
  BY <1>1, <1>2
<1>6. /\ refused' \in [Clients -> BOOLEAN] /\ ~refused'[who]
      /\ \A w \in Clients : w # who => refused'[w] = refused[w]
  BY <1>1, <1>2, SMT
<1>7. Prepared(who)'
  BY <1>1, <1>4, <1>5, <1>6 DEF Prepared
<1>8. \A w \in Clients : w # who => Prepared(w)'
  BY <1>1, <1>2, <1>5, <1>6 DEF Prepared
<1>9. ~kept[who]
  <2>1. pending[who].action \notin Actions(who)
    BY ONLY <1>1, SMT DEF Actions
  <2> QED BY <1>2, <2>1 DEF Prepared
<1> QED BY <1>1, <1>5, <1>6, <1>7, <1>8, <1>9 DEF Commands

\* Preparing a command leaves it prepared.
LEMMA AskStep ==
  ASSUME LedgerInv, Ask
  PROVE  \E who \in Clients :
            /\ Commands' /\ kept' = kept /\ refused' \in [Clients -> BOOLEAN] /\ ~kept[who]
            /\ \A w \in Clients : w # who => pending'[w] = pending[w]
<1>1. ASSUME NEW d \in PolicyDocs, Prepare("administrator", "install-policy", d)
      PROVE  \E who \in Clients :
                /\ Commands' /\ kept' = kept /\ refused' \in [Clients -> BOOLEAN] /\ ~kept[who]
                /\ \A w \in Clients : w # who => pending'[w] = pending[w]
  <2>1. "administrator" \in Clients /\ "install-policy" \in Actions("administrator") /\ "install-policy" # "record-admission"
    BY SMT DEF Clients, Actions
  <2> QED BY <1>1, <2>1, PrepareStep
<1>2. ASSUME NEW d \in CheckpointDocs, Prepare("administrator", "record-admission", d)
      PROVE  \E who \in Clients :
                /\ Commands' /\ kept' = kept /\ refused' \in [Clients -> BOOLEAN] /\ ~kept[who]
                /\ \A w \in Clients : w # who => pending'[w] = pending[w]
  <2>1. "administrator" \in Clients /\ "record-admission" \in Actions("administrator") /\ "install-policy" # "record-admission"
    BY SMT DEF Clients, Actions
  <2> QED BY <1>2, <2>1, PrepareStep
<1>3. ASSUME NEW a \in Actions("worker"), Prepare("worker", a, "none")
      PROVE  \E who \in Clients :
                /\ Commands' /\ kept' = kept /\ refused' \in [Clients -> BOOLEAN] /\ ~kept[who]
                /\ \A w \in Clients : w # who => pending'[w] = pending[w]
  <2>1. "worker" \in Clients /\ a # "install-policy" /\ a # "record-admission"
    BY <1>3, SMT DEF Clients, Actions
  <2> QED BY <1>3, <2>1, PrepareStep
<1>4. Actions("worker") = {"publish-builtin", "create-bound-request", "seal-bound-capture",
                           "authorize-detector", "renew-detector"}
  BY SMT DEF Actions
<1> QED BY <1>1, <1>2, <1>3, <1>4 DEF Ask

\* Every step keeps the pending commands as they were prepared.
LEMMA CommandsStep ==
  ASSUME LedgerInv, [ledgerNext]_ledgerVars
  PROVE  Commands' /\ kept' \in [Clients -> BOOLEAN] /\ refused' \in [Clients -> BOOLEAN]
<1>1. /\ LedgerTypes /\ DOMAIN pending = Clients /\ (\A w \in Clients : Prepared(w))
      /\ kept \in [Clients -> BOOLEAN] /\ refused \in [Clients -> BOOLEAN]
  BY DEF LedgerInv, LedgerTypes, Commands
<1>2. Grows
  BY LedgerGrows
<1>3. CASE UNCHANGED <<pending, kept, refused>>
  BY <1>1, <1>2, <1>3, PreparedStays DEF Commands
<1>4. CASE Ask
  BY <1>1, <1>4, AskStep
<1>5. ASSUME NEW who \in Clients, pending[who].action # "none", refused' = refused, Acknowledge(who)
      PROVE  Commands' /\ kept' \in [Clients -> BOOLEAN] /\ refused' \in [Clients -> BOOLEAN]
  <2>1. CASE pending' = [pending EXCEPT ![who] = NoCommand] /\ kept' = [kept EXCEPT ![who] = FALSE]
    <3>1. /\ pending'[who] = NoCommand /\ DOMAIN pending' = Clients /\ ~kept'[who] /\ kept' \in [Clients -> BOOLEAN]
          /\ \A w \in Clients : w # who => pending'[w] = pending[w] /\ kept'[w] = kept[w]
      BY <1>1, <2>1, SMT
    <3>2. Prepared(who)'
      BY <3>1 DEF Prepared
    <3>3. \A w \in Clients : w # who => Prepared(w)'
      BY <1>1, <1>2, <1>5, <3>1, PreparedStays
    <3> QED BY <1>1, <1>5, <3>1, <3>2, <3>3 DEF Commands
  <2>2. CASE pending' = pending /\ kept' = [kept EXCEPT ![who] = TRUE]
    <3>1. kept' \in [Clients -> BOOLEAN] /\ \A w \in Clients : w # who => kept'[w] = kept[w]
      BY <1>1, <2>2, SMT
    <3>2. \A w \in Clients : Prepared(w)'
      BY <1>1, <1>2, <1>5, <2>2, <3>1, PreparedStays
    <3> QED BY <1>1, <1>5, <2>2, <3>1, <3>2 DEF Commands
  <2> QED BY <1>5, <2>1, <2>2 DEF Acknowledge
<1>6. ASSUME NEW who \in Clients, pending[who].action # "none", ~kept[who], kept' = kept,
             pending' = [pending EXCEPT ![who] = NoCommand], refused' = [refused EXCEPT ![who] = TRUE]
      PROVE  Commands' /\ kept' \in [Clients -> BOOLEAN] /\ refused' \in [Clients -> BOOLEAN]
  <2>1. /\ pending'[who] = NoCommand /\ DOMAIN pending' = Clients /\ refused' \in [Clients -> BOOLEAN]
        /\ \A w \in Clients : w # who => pending'[w] = pending[w] /\ refused'[w] = refused[w]
    BY <1>1, <1>6, SMT
  <2>2. Prepared(who)'
    BY <1>6, <2>1 DEF Prepared
  <2>3. \A w \in Clients : w # who => Prepared(w)'
    BY <1>1, <1>2, <1>6, <2>1, PreparedStays
  <2> QED BY <1>1, <1>6, <2>1, <2>2, <2>3 DEF Commands
<1> QED BY <1>3, <1>4, <1>5, <1>6, ClientSteps

\* A permission ends with the first of the four intervals it rests on.
LEMMA FirstOfFour ==
  ASSUME NEW a \in Nat, NEW b \in Nat, NEW c \in Nat, NEW d \in Nat
  PROVE  /\ Earliest({a, b, c, d}) \in Nat
         /\ \A t : t < a /\ t < b /\ t < c /\ t < d => t < Earliest({a, b, c, d})
<1>1. \E t \in {a, b, c, d} : \A u \in {a, b, c, d} : t <= u
  BY SMT
<1>2. Earliest({a, b, c, d}) \in {a, b, c, d}
  BY <1>1 DEF Earliest
<1> QED BY <1>2, SMT

\* A permission ends with the first of the four ends it is bound by.
LEMMA PermissionIsFirst ==
  ASSUME LedgerInv, NEW i \in DOMAIN events
  PROVE  LET e == events[i] IN
         /\ Permission(i) \in Nat
         /\ \A t : /\ t < e.lease /\ t < policies[e.policy].until /\ t < policies[e.policy].grant.until
                  /\ t < checkpoints[e.checkpoint].until => t < Permission(i)
<1>1. events[i].policy \in DOMAIN policies /\ events[i].checkpoint \in DOMAIN checkpoints /\ LedgerTypes
  BY DEF LedgerInv, Decided
<1>2. events[i] \in EventRecords
  BY <1>1, SMT DEF LedgerTypes
<1>3. events[i].lease \in Nat
  BY <1>2, SMT DEF EventRecords
<1>4. /\ policies[events[i].policy].until \in Nat /\ policies[events[i].policy].grant.until \in Nat
      /\ checkpoints[events[i].checkpoint].until \in Nat
  BY <1>1, PolicyFields, CheckpointFields
<1> QED BY <1>3, <1>4, FirstOfFour DEF Permission

\* A check keeps the event the verifier holds.
LEMMA ReaderChecks ==
  ASSUME NEW p \in Nat,
         NEW r \in [phase : {"idle", "read", "checked", "verified"}, event : Nat, time : Nat, until : Nat]
  PROVE  LET q == [r EXCEPT !.phase = "checked", !.until = p] IN
         /\ q.event = r.event /\ q.until = p
         /\ q \in [phase : {"idle", "read", "checked", "verified"}, event : Nat, time : Nat, until : Nat]
<1> DEFINE Readers == [phase : {"idle", "read", "checked", "verified"}, event : Nat, time : Nat, until : Nat]
           q == [r EXCEPT !.phase = "checked"]
           s == [q EXCEPT !.until = p]
<1>1. q \in Readers /\ q.event = r.event
  BY SMT
<1>2. [r EXCEPT !.phase = "checked", !.until = p] = s
  BY SMT
<1> HIDE DEF q
<1>3. s \in Readers /\ s.event = r.event /\ s.until = p
  BY ONLY <1>1, p \in Nat, SMT
<1> HIDE DEF s
<1> QED BY <1>2, <1>3

\* Every step keeps what the verifier has checked.
LEMMA ReaderStep ==
  ASSUME LedgerInv, [ledgerNext]_ledgerVars
  PROVE  reader' \in [phase : {"idle", "read", "checked", "verified"}, event : Nat, time : Nat, until : Nat] /\ Checked'
<1> DEFINE Readers == [phase : {"idle", "read", "checked", "verified"}, event : Nat, time : Nat, until : Nat]
<1>1. reader \in Readers /\ now \in Nat /\ events \in Seq(EventRecords) /\ Checked
  BY DEF LedgerInv, LedgerTypes
<1>2. \A i \in DOMAIN events : i \in DOMAIN events' /\ events'[i] = events[i] /\ i \in Nat
  <2>1. \A i \in DOMAIN events : i \in DOMAIN events' /\ events'[i] = events[i]
    BY LedgerGrows DEF Grows, Extends
  <2>2. \A i \in DOMAIN events : i \in Nat
    BY <1>1, SMT
  <2> QED BY <2>1, <2>2
<1>3. \A i \in DOMAIN events : Permission(i)' = Permission(i)
  <2>1. \A i \in DOMAIN events : events[i].policy \in DOMAIN policies /\ events[i].checkpoint \in DOMAIN checkpoints
    BY DEF LedgerInv, Decided
  <2>2. /\ \A r \in DOMAIN policies : policies'[r] = policies[r]
        /\ \A g \in DOMAIN checkpoints : checkpoints'[g] = checkpoints[g]
    BY LedgerGrows DEF Grows, Extends
  <2>3. \A i \in DOMAIN events : /\ events'[i] = events[i] /\ policies'[events[i].policy] = policies[events[i].policy]
                                /\ checkpoints'[events[i].checkpoint] = checkpoints[events[i].checkpoint]
    BY <1>2, <2>1, <2>2
  <2>4. ASSUME NEW i \in DOMAIN events PROVE Permission(i)' = Permission(i)
    <3>1. /\ events'[i].lease = events[i].lease
          /\ policies'[events'[i].policy].until = policies[events[i].policy].until
          /\ policies'[events'[i].policy].grant.until = policies[events[i].policy].grant.until
          /\ checkpoints'[events'[i].checkpoint].until = checkpoints[events[i].checkpoint].until
      BY <2>3
    <3> QED BY <3>1 DEF Permission
  <2> QED BY <2>4
<1>4. /\ reader'.phase # "idle" => reader'.event \in DOMAIN events
      /\ reader'.phase \in {"checked", "verified"} => reader'.until = Permission(reader'.event)
      /\ reader' \in Readers
  <2>1. CASE reader' = reader
    BY <1>1, <2>1 DEF Checked
  <2>2. CASE reader' = NotReading
    <3>1. reader'.phase = "idle" /\ reader'.phase \notin {"checked", "verified"} /\ reader' \in Readers
      BY ONLY <2>2, SMT DEF NotReading
    <3> QED BY <3>1
  <2>3. ASSUME NEW i \in DOMAIN events, Read(i)
        PROVE /\ reader'.phase # "idle" => reader'.event \in DOMAIN events
              /\ reader'.phase \in {"checked", "verified"} => reader'.until = Permission(reader'.event)
              /\ reader' \in Readers
    <3>1. reader' = [phase |-> "read", event |-> i, time |-> now, until |-> 0] /\ i \in Nat
      BY <1>2, <2>3 DEF Read
    <3>2. reader'.event = i /\ reader'.phase \notin {"checked", "verified"} /\ reader' \in Readers
      BY ONLY <1>1, <3>1, SMT
    <3> QED BY <3>2
  <2>4. CASE Verify /\ reader' # NotReading
    <3>1. /\ reader.phase = "read"
          /\ reader' = [reader EXCEPT !.phase = "checked", !.until = Permission(reader.event)]
      BY <2>4 DEF Verify
    <3>2. reader.phase # "idle"
      BY <3>1, SMT
    <3>3. reader.event \in DOMAIN events
      BY <1>1, <3>2 DEF Checked
    <3>4. Permission(reader.event) \in Nat
      BY <3>3, PermissionIsFirst
    <3>5. reader'.event = reader.event /\ reader'.until = Permission(reader.event) /\ reader' \in Readers
      BY <1>1, <3>1, <3>4, ReaderChecks
    <3> QED BY <3>3, <3>5
  <2>5. CASE Recheck /\ reader' # NotReading
    <3>1. reader.phase = "checked" /\ reader' = [reader EXCEPT !.phase = "verified"]
      BY <2>5 DEF Recheck
    <3>2. reader.phase # "idle" /\ reader.phase \in {"checked", "verified"}
      BY <3>1, SMT
    <3>3. reader.event \in DOMAIN events /\ reader.until = Permission(reader.event)
      BY <1>1, <3>2 DEF Checked
    <3>4. reader'.event = reader.event /\ reader'.until = reader.until /\ reader' \in Readers
      BY ONLY <1>1, <3>1, SMT
    <3> QED BY <3>3, <3>4
  <2> QED BY <2>1, <2>2, <2>3, <2>4, <2>5 DEF ledgerNext, ledgerVars, Ask, Prepare, Deliver, Claim, Heartbeat, Finish,
       Tick, Verify, Recheck, Return
<1>5. reader'.phase # "idle" => reader'.event \in DOMAIN events'
  BY <1>2, <1>4
<1>6. reader'.phase \in {"checked", "verified"} => reader'.event \in DOMAIN events
  BY <1>4, SMT
<1>7. reader'.phase \in {"checked", "verified"} => reader'.until = Permission(reader'.event)
  BY <1>4
<1> QED BY <1>3, <1>4, <1>5, <1>6, <1>7 DEF Checked, Permission

-----------------------------------------------------------------------------
(* The chains and the records.                                             *)

\* A policy that v1_policy_evolution lets in evolves from every policy before it.
LEMMA InstallChained ==
  ASSUME LedgerInv, NEW d \in PolicyDocs, Evolution(d), policies' = Append(policies, d), checkpoints' = checkpoints
  PROVE  Chained'
<1> DEFINE n == Len(policies) + 1
<1>1. LedgerTypes /\ Chained /\ policies \in Seq(PolicyDocs)
  BY DEF LedgerInv, LedgerTypes
<1>2. /\ policies'[n] = d /\ Len(policies) \in Nat
      /\ \A i \in DOMAIN policies : i \in DOMAIN policies' /\ policies'[i] = policies[i] /\ i < n
      /\ \A i \in DOMAIN policies' : i \in DOMAIN policies \/ i = n
  BY <1>1, Appended
<1>3. DOMAIN policies = 1..Len(policies) /\ (policies = <<>> <=> Len(policies) = 0)
  BY <1>1, SMT
<1>4. d.grant \in Grants
  <2>1. d \in [revision : Nat, from : Nat, until : Nat, grant : Grants]
    BY LedgerAssumption
  <2> QED BY ONLY <2>1, SMT
<1>5. ASSUME NEW r \in DOMAIN policies, policies[r].grant.present PROVE GrantEvolves(policies[r].grant, d.grant)
  <2>1. policies # <<>> /\ Len(policies) \in DOMAIN policies /\ (r = Len(policies) \/ r < Len(policies))
    BY ONLY <1>2, <1>3, <1>5, SMT
  <2>2. CASE r = Len(policies)
    BY <1>5, <2>1, <2>2 DEF Evolution, Policy
  <2>3. CASE r < Len(policies)
    <3>1. GrantEvolves(policies[r].grant, Policy.grant)
      BY <1>1, <1>5, <2>1, <2>3 DEF Chained, Policy
    <3>2. GrantEvolves(Policy.grant, d.grant)
      BY <2>1, <3>1 DEF Evolution, GrantEvolves
    <3>3. policies[r].grant \in Grants /\ Policy.grant \in Grants
      BY <1>1, <2>1, PolicyFields DEF Policy
    <3> QED BY <1>4, <3>1, <3>2, <3>3, EvolvesOn
  <2> QED BY <2>1, <2>2, <2>3
<1>6. ASSUME NEW r \in DOMAIN policies', NEW s \in DOMAIN policies', r < s, policies'[r].grant.present
      PROVE  GrantEvolves(policies'[r].grant, policies'[s].grant)
  <2>1. CASE s \in DOMAIN policies
    <3>1. r \in DOMAIN policies
      <4>1. ~(n < s)
        BY ONLY <1>2, <1>3, <2>1, SMT
      <4> QED BY <1>2, <1>6, <4>1
    <3> QED BY <1>1, <1>2, <1>6, <2>1, <3>1 DEF Chained
  <2>2. CASE s = n
    <3>1. r \in DOMAIN policies
      <4>1. r # n
        BY <1>2, <1>6, <2>2, SMT
      <4> QED BY <1>2, <4>1
    <3> QED BY <1>2, <1>5, <1>6, <2>2, <3>1
  <2> QED BY <1>2, <2>1, <2>2
<1>7. ASSUME NEW r \in DOMAIN policies', policies'[r].grant.present, r = 1 \/ ~policies'[r - 1].grant.present
      PROVE  AdmittedInside(policies'[r].grant, policies'[r])
  <2>1. CASE r \in DOMAIN policies
    <3>1. r = 1 \/ r - 1 \in DOMAIN policies
      BY ONLY <1>2, <1>3, <2>1, SMT
    <3> QED BY <1>1, <1>2, <1>7, <2>1, <3>1 DEF Chained
  <2>2. CASE r = n
    <3>1. r - 1 = Len(policies) /\ (r = 1 => policies = <<>>) /\ (policies # <<>> => Len(policies) \in DOMAIN policies)
      BY ONLY <1>2, <1>3, <2>2, SMT
    <3>2. policies = <<>> \/ ~Policy.grant.present
      BY <1>2, <1>7, <3>1 DEF Policy
    <3> QED BY <1>2, <1>7, <2>2, <3>2 DEF Evolution
  <2> QED BY <1>2, <2>1, <2>2
<1>8. \A g \in DOMAIN checkpoints' : AdminAdmission(g)'
  BY <1>1, <1>2 DEF Chained, AdminAdmission
<1> QED BY <1>6, <1>7, <1>8 DEF Chained

\* An admission that the SQL accepts keeps the chains.
LEMMA RecordChained ==
  ASSUME LedgerInv, NEW d \in CheckpointDocs, policies # <<>>, d.policy = Len(policies),
         d.generation = Len(checkpoints) + 1, checkpoints' = Append(checkpoints, d), policies' = policies
  PROVE  Chained'
<1>1. LedgerTypes /\ Chained /\ policies \in Seq(PolicyDocs) /\ checkpoints \in Seq(CheckpointDocs)
  BY DEF LedgerInv, LedgerTypes
<1>2. /\ checkpoints'[Len(checkpoints) + 1] = d
      /\ \A i \in DOMAIN checkpoints : checkpoints'[i] = checkpoints[i]
      /\ \A i \in DOMAIN checkpoints' : i \in DOMAIN checkpoints \/ i = Len(checkpoints) + 1
  BY ONLY <1>1, checkpoints' = Append(checkpoints, d), d \in CheckpointDocs, Appended, Zenon
<1>3. Len(policies) \in DOMAIN policies
  BY <1>1, SMT
<1>4. \A g \in DOMAIN checkpoints' : AdminAdmission(g)'
  <2>1. \A g \in DOMAIN checkpoints : checkpoints[g].generation = g /\ checkpoints[g].policy \in DOMAIN policies
    BY <1>1 DEF Chained, AdminAdmission
  <2>2. \A g \in DOMAIN checkpoints' : checkpoints'[g].generation = g /\ checkpoints'[g].policy \in DOMAIN policies
    <3>1. \A g \in DOMAIN checkpoints : checkpoints'[g].generation = g /\ checkpoints'[g].policy \in DOMAIN policies
      BY ONLY <1>2, <2>1, Zenon
    <3>2. LET g == Len(checkpoints) + 1 IN checkpoints'[g].generation = g /\ checkpoints'[g].policy \in DOMAIN policies
      BY ONLY <1>2, <1>3, d.policy = Len(policies), d.generation = Len(checkpoints) + 1, Zenon
    <3> QED BY ONLY <1>2, <3>1, <3>2, Zenon
  <2> QED BY <2>2 DEF AdminAdmission
<1> QED BY <1>1, <1>4 DEF Chained

\* Every step keeps the chains.
LEMMA ChainsStep ==
  ASSUME LedgerInv, [ledgerNext]_ledgerVars
  PROVE  Chained' /\ policies' \in Seq(PolicyDocs) /\ checkpoints' \in Seq(CheckpointDocs)
<1>1. Chained /\ policies \in Seq(PolicyDocs) /\ checkpoints \in Seq(CheckpointDocs)
  BY DEF LedgerInv, LedgerTypes
<1>2. CASE UNCHANGED <<policies, checkpoints>>
  BY <1>1, <1>2 DEF Chained, AdminAdmission
<1>3. ASSUME NEW who \in Clients, Applied(who), ~UNCHANGED <<policies, checkpoints>>
      PROVE  Chained' /\ policies' \in Seq(PolicyDocs) /\ checkpoints' \in Seq(CheckpointDocs)
  <2> DEFINE c == pending[who]
  <2>1. c.action # "none"
    BY <1>3 DEF Applied
  <2>2. CASE c.action = "install-policy" /\ InstallPolicy(c)
    <3>1. c.doc \in PolicyDocs
      BY <2>1, <2>2, CommandFields
    <3>2. policies' = Append(policies, c.doc) /\ checkpoints' = checkpoints /\ Evolution(c.doc)
      BY <2>2 DEF InstallPolicy, CanInstall
    <3>3. policies' \in Seq(PolicyDocs)
      BY <1>1, <3>1, <3>2, Appended
    <3> QED BY <1>1, <3>1, <3>2, <3>3, InstallChained
  <2>3. CASE c.action = "record-admission" /\ RecordAdmission(c)
    <3>1. c.doc \in CheckpointDocs
      BY <2>1, <2>3, CommandFields
    <3>2. /\ checkpoints' = Append(checkpoints, c.doc) /\ policies' = policies /\ policies # <<>>
          /\ c.doc.policy = Len(policies) /\ c.doc.generation = Len(checkpoints) + 1
      BY <2>3 DEF RecordAdmission, CanRecord
    <3>3. checkpoints' \in Seq(CheckpointDocs)
      BY <1>1, <3>1, <3>2, Appended
    <3> QED BY <1>1, <3>1, <3>2, <3>3, RecordChained
  <2> QED BY <1>3, <2>2, <2>3, AppliedKinds DEF PublishBuiltin, CreateBoundRequest, SealBoundCapture, AuthorizeDetector,
       RenewDetector, heads
<1> QED BY <1>2, <1>3, StepKinds DEF Untouched

\* What the ledger knows when a command may be applied at the live heads.
LEMMA LiveHeads ==
  ASSUME LedgerInv, NEW c, Live(c), PolicyTime(Policy, Checkpoint, now)
  PROVE  /\ Len(policies) \in DOMAIN policies /\ Len(checkpoints) \in DOMAIN checkpoints
         /\ Within(policies[Len(policies)], now) /\ CheckpointAt(Len(checkpoints), Len(policies), now)
<1>1. Len(policies) \in DOMAIN policies /\ Len(checkpoints) \in DOMAIN checkpoints
  BY SMT DEF LedgerInv, LedgerTypes, Live
<1> QED BY <1>1 DEF Live, PolicyTime, CheckpointAt, Policy, Checkpoint

\* What PublishBuiltin checks is what _approval checks of the receipt later.
LEMMA ApprovedNow ==
  ASSUME LedgerInv, NEW c, CanPublish(c), c.at \in Nat, c.at <= now
  PROVE  ApprovalAt(Len(policies), c.at, now)
<1>1. Live(c) /\ PolicyTime(Policy, Checkpoint, now) /\ now - Window <= c.at
      /\ Policy.grant.present /\ Policy.grant.status = "active" /\ Within(Policy.grant, now)
  BY DEF CanPublish
<1>2. Len(policies) \in DOMAIN policies /\ Within(policies[Len(policies)], now)
  BY <1>1, LiveHeads
<1>3. Len(policies) = 1 => AdmittedInside(Policy.grant, Policy)
  BY <1>1, <1>2 DEF LedgerInv, Chained, Policy
<1> QED BY <1>1, <1>2, <1>3 DEF ApprovalAt, Policy

\* Every step keeps the receipt justified.
LEMMA PublicationStep ==
  ASSUME LedgerInv, [ledgerNext]_ledgerVars
  PROVE  /\ Publication'
         /\ receipt' # <<>> => receipt'[1] \in [at : Nat, issued : Nat, policy : Nat, checkpoint : Nat]
<1>1. Grows
  BY LedgerGrows
<1>2. LedgerTypes /\ Publication /\ now \in Nat
  BY DEF LedgerInv, LedgerTypes
<1>3. CASE receipt' = receipt
  <2>1. CASE receipt = <<>>
    BY <1>3, <2>1 DEF Publication
  <2>2. CASE receipt # <<>>
    <3>1. /\ receipt[1].policy \in DOMAIN policies /\ receipt[1].checkpoint \in DOMAIN checkpoints
          /\ receipt[1].at <= now /\ receipt[1] \in [at : Nat, issued : Nat, policy : Nat, checkpoint : Nat]
          /\ ApprovalAt(receipt[1].policy, receipt[1].issued, receipt[1].at)
          /\ CheckpointAt(receipt[1].checkpoint, receipt[1].policy, receipt[1].at)
      BY <1>2, <2>2 DEF Publication, AdminPublication, LedgerTypes
    <3>2. /\ receipt'[1].policy \in DOMAIN policies' /\ receipt'[1].checkpoint \in DOMAIN checkpoints'
          /\ ApprovalAt(receipt[1].policy, receipt[1].issued, receipt[1].at)'
          /\ CheckpointAt(receipt[1].checkpoint, receipt[1].policy, receipt[1].at)'
      BY <1>1, <1>3, <3>1, FactsStay
    <3>3. receipt[1].at <= now'
      <4>1. receipt[1].at \in Nat /\ receipt[1].at <= now
        BY ONLY <3>1, SMT
      <4>2. now' \in Nat /\ now <= now'
        BY <1>1 DEF Grows
      <4> QED BY ONLY <1>2, <4>1, <4>2, SMT
    <3> QED BY <1>3, <3>1, <3>2, <3>3 DEF Publication, AdminPublication
  <2> QED BY <2>1, <2>2
<1>4. ASSUME NEW who \in Clients, Applied(who), receipt' # receipt
      PROVE  /\ Publication'
             /\ receipt' # <<>> => receipt'[1] \in [at : Nat, issued : Nat, policy : Nat, checkpoint : Nat]
  <2> DEFINE c == pending[who]
             p == [at |-> now, issued |-> c.at, policy |-> Len(policies), checkpoint |-> Len(checkpoints)]
  <2>1. PublishBuiltin(c)
    BY <1>4, AppliedKinds DEF InstallPolicy, RecordAdmission, CreateBoundRequest, SealBoundCapture, AuthorizeDetector,
       RenewDetector, records
  <2>2. c.at \in Nat /\ c.at <= now
    BY <1>4, CommandFields DEF Applied
  <2>3. CanPublish(c) /\ receipt' = <<p>> /\ UNCHANGED <<policies, checkpoints, now>>
    BY <1>4, <2>1 DEF PublishBuiltin, heads, Applied
  <2>4. Len(policies) \in Nat /\ Len(checkpoints) \in Nat
    BY <1>2, SMT DEF LedgerTypes
  <2>5. /\ p.at = now /\ p.issued = c.at /\ p.policy = Len(policies) /\ p.checkpoint = Len(checkpoints)
        /\ p \in [at : Nat, issued : Nat, policy : Nat, checkpoint : Nat]
    BY ONLY <1>2, <2>2, <2>4, SMT
  <2>6. /\ Len(policies) \in DOMAIN policies /\ Len(checkpoints) \in DOMAIN checkpoints
        /\ CheckpointAt(Len(checkpoints), Len(policies), now)
    BY <2>3, LiveHeads DEF CanPublish
  <2>7. ApprovalAt(Len(policies), c.at, now)
    BY <2>2, <2>3, ApprovedNow
  <2> HIDE DEF p
  <2>8. receipt'[1] = p /\ now <= now
    BY <1>2, <2>3, SMT
  <2>9. AdminPublication'
    BY <2>3, <2>5, <2>6, <2>7, <2>8 DEF AdminPublication, ApprovalAt, CheckpointAt
  <2> QED BY <2>3, <2>5, <2>6, <2>8, <2>9 DEF Publication
<1> QED BY <1>3, <1>4, StepKinds DEF Untouched

\* The request was bound while the grant of its policy could be used.
LEMMA AcceptanceStep ==
  ASSUME LedgerInv, [ledgerNext]_ledgerVars
  PROVE  /\ Acceptance'
         /\ binding' # <<>> => binding'[1] \in [at : Nat, policy : Nat, checkpoint : Nat]
<1>1. Grows
  BY LedgerGrows
<1>2. LedgerTypes /\ Publication /\ Acceptance /\ now \in Nat
  BY DEF LedgerInv, LedgerTypes
<1>3. CASE binding' = binding
  <2>1. CASE binding = <<>>
    BY <1>3, <2>1 DEF Acceptance
  <2>2. CASE binding # <<>>
    <3> DEFINE q == binding[1]
    <3>1. /\ q \in [at : Nat, policy : Nat, checkpoint : Nat] /\ receipt # <<>> /\ receipt[1].at <= q.at /\ q.at <= now
          /\ q.policy \in DOMAIN policies /\ receipt[1].policy <= q.policy /\ q.checkpoint \in DOMAIN checkpoints
          /\ Within(policies[q.policy], q.at) /\ GrantAt(q.policy, q.at) /\ CheckpointAt(q.checkpoint, q.policy, q.at)
      BY <1>2, <2>2 DEF Acceptance, LedgerTypes
    <3>2. receipt' = receipt
      BY <1>1, <3>1 DEF Grows
    <3>3. /\ q.policy \in DOMAIN policies' /\ q.checkpoint \in DOMAIN checkpoints'
          /\ Within(policies'[q.policy], q.at) /\ CheckpointAt(q.checkpoint, q.policy, q.at)'
      BY <1>1, <1>3, <3>1, FactsStay
    <3>4. policies'[q.policy] = policies[q.policy]
      BY <1>1, <3>1 DEF Grows, Extends
    <3>5. GrantAt(q.policy, q.at)'
      BY <1>3, <3>1, <3>2, <3>4 DEF GrantAt
    <3>6. q.at <= now'
      <4>1. q.at \in Nat /\ q.at <= now
        BY ONLY <3>1, SMT
      <4>2. now' \in Nat /\ now <= now'
        BY <1>1 DEF Grows
      <4> QED BY ONLY <1>2, <4>1, <4>2, SMT
    <3> QED BY <1>3, <3>1, <3>2, <3>3, <3>5, <3>6 DEF Acceptance
  <2> QED BY <2>1, <2>2
<1>4. ASSUME NEW who \in Clients, Applied(who), binding' # binding
      PROVE  /\ Acceptance'
             /\ binding' # <<>> => binding'[1] \in [at : Nat, policy : Nat, checkpoint : Nat]
  <2> DEFINE c == pending[who]
             q == [at |-> now, policy |-> Len(policies), checkpoint |-> Len(checkpoints)]
  <2>1. CreateBoundRequest(c)
    BY <1>4, AppliedKinds DEF InstallPolicy, RecordAdmission, PublishBuiltin, SealBoundCapture, AuthorizeDetector,
       RenewDetector, records
  <2>2. CanBind(c) /\ binding' = <<q>> /\ UNCHANGED <<policies, checkpoints, now, receipt>>
    BY <1>4, <2>1 DEF CreateBoundRequest, heads, Applied
  <2>3. Live(c) /\ receipt # <<>> /\ PolicyTime(Policy, Checkpoint, now)
        /\ Policy.grant.present /\ GrantUse(Policy.grant, now, receipt[1].at)
    BY <2>2 DEF CanBind, Usable
  <2>4. /\ Len(policies) \in DOMAIN policies /\ Len(checkpoints) \in DOMAIN checkpoints
        /\ Within(policies[Len(policies)], now) /\ CheckpointAt(Len(checkpoints), Len(policies), now)
    BY <2>3, LiveHeads
  <2>5. receipt[1].policy <= Len(policies) /\ receipt[1].at <= now /\ now <= now
        /\ Len(policies) \in Nat /\ Len(checkpoints) \in Nat
    <3>1. receipt[1].policy \in DOMAIN policies /\ receipt[1].at <= now
      BY <1>2, <2>3 DEF Publication
    <3>2. policies \in Seq(PolicyDocs) /\ checkpoints \in Seq(CheckpointDocs)
      BY <1>2 DEF LedgerTypes
    <3> QED BY ONLY <1>2, <3>1, <3>2, SMT
  <2>6. /\ q.at = now /\ q.policy = Len(policies) /\ q.checkpoint = Len(checkpoints)
        /\ q \in [at : Nat, policy : Nat, checkpoint : Nat]
    BY ONLY <1>2, <2>5, SMT
  <2> HIDE DEF q
  <2>7. binding'[1] = q
    BY <2>2, SMT
  <2> QED BY <2>2, <2>3, <2>4, <2>5, <2>6, <2>7 DEF Acceptance, GrantAt, CheckpointAt, Policy
<1> QED BY <1>3, <1>4, StepKinds DEF Untouched

\* An event is decided at the live heads, and a denial ends the work item.
LEMMA DecidedStays ==
  ASSUME LedgerInv, [ledgerNext]_ledgerVars, events' = events
  PROVE  Decided'
<1>1. Grows /\ (work.state = "failed" => work'.state = "failed")
  BY LedgerGrows, WorkTyped
<1>2. Decided
  BY DEF LedgerInv
<1>3. \A r \in DOMAIN policies : r \in DOMAIN policies' /\ policies'[r] = policies[r]
  BY <1>1 DEF Grows, Extends
<1>4. \A g \in DOMAIN checkpoints : g \in DOMAIN checkpoints'
  BY <1>1 DEF Grows, Extends
<1>5. events' # <<>> => seal' # <<>>
  BY <1>1, <1>2 DEF Decided, Grows
<1>6. seal' # <<>> => binding' # <<>>
  <2>1. CASE seal' = seal
    BY <1>1, <1>2, <2>1 DEF Decided, Grows
  <2>2. CASE seal' # seal
    <3>1. PICK who \in Clients : Applied(who)
      BY <2>2, StepKinds DEF Untouched
    <3>2. SealBoundCapture(pending[who])
      BY <2>2, <3>1, AppliedKinds DEF InstallPolicy, RecordAdmission, PublishBuiltin, CreateBoundRequest,
         AuthorizeDetector, RenewDetector, records
    <3> QED BY <3>2 DEF SealBoundCapture, CanSeal
  <2> QED BY <2>1, <2>2
<1>7. ASSUME NEW i \in DOMAIN events'
      PROVE  /\ events'[i].policy \in DOMAIN policies' /\ events'[i].checkpoint \in DOMAIN checkpoints'
             /\ binding'[1].policy <= events'[i].policy
             /\ events'[i].kind = "authorization" =>
                  policies'[events'[i].policy].grant.present /\ policies'[events'[i].policy].grant.status # "revoked"
             /\ events'[i].kind = "denial" => work'.state = "failed"
  <2>1. i \in DOMAIN events /\ events'[i] = events[i]
    OBVIOUS
  <2>2. events # <<>>
    BY <2>1, SMT
  <2>3. binding' = binding
    BY <1>1, <1>2, <2>2 DEF Decided, Grows
  <2> QED BY <1>1, <1>2, <1>3, <1>4, <2>1, <2>3 DEF Decided
<1>8. DenialIsFinal'
  <2>1. events' = events /\ DenialIsFinal
    BY <1>2 DEF Decided
  <2> QED BY ONLY <2>1, SMT DEF DenialIsFinal
<1> QED BY <1>5, <1>6, <1>7, <1>8 DEF Decided

\* A decision keeps the earlier ones, and a denial is the last.
LEMMA DecidesOnce ==
  ASSUME LedgerInv, [ledgerNext]_ledgerVars, NEW c, NEW e, Decides(c, e), now' = now
  PROVE  Decided'
<1> DEFINE n == Len(events) + 1
<1>1. /\ e \in EventRecords /\ events' = Append(events, e) /\ work.state = "running" /\ seal # <<>>
      /\ Policy.grant.present /\ policies # <<>> /\ checkpoints # <<>>
      /\ e.policy = Len(policies) /\ e.checkpoint = Len(checkpoints)
      /\ \/ e.kind = "denial" /\ work'.state = "failed"
         \/ e.kind = "authorization" /\ ~Denied
      /\ UNCHANGED <<policies, checkpoints, receipt, binding, seal>>
  BY DEF Decides
<1>2. LedgerTypes /\ Decided /\ Acceptance /\ events \in Seq(EventRecords)
  BY DEF LedgerInv, LedgerTypes
<1>3. /\ events'[n] = e /\ Len(events) \in Nat
      /\ \A i \in DOMAIN events : i \in DOMAIN events' /\ events'[i] = events[i] /\ i < n
      /\ \A i \in DOMAIN events' : i \in DOMAIN events \/ i = n
  <2>1. e \in EventRecords /\ events' = Append(events, e) /\ events \in Seq(EventRecords)
    BY <1>1, <1>2
  <2> QED BY ONLY <2>1, Appended, Zenon
<1>4. work.state # "failed"
  BY <1>1, SMT
<1>5. \A i \in DOMAIN events : events[i].kind # "denial"
  BY <1>2, <1>4 DEF Decided
<1>6. binding # <<>>
  BY <1>1, <1>2 DEF Decided
<1>7. Len(policies) \in DOMAIN policies /\ Len(checkpoints) \in DOMAIN checkpoints
      /\ \A r \in DOMAIN policies : r <= Len(policies)
  BY <1>1, <1>2, SMT DEF LedgerTypes
<1>8. binding[1].policy <= Len(policies)
  BY <1>2, <1>6, <1>7 DEF Acceptance
<1>9. e.kind = "authorization" => Policy.grant.status # "revoked"
  <2>1. e.kind = "authorization" => ~Denied
    BY <1>1, SMT
  <2>2. ~Denied => Policy.grant.status \in {"active", "retired"}
    BY DEF Denied, Usable, GrantUse
  <2> QED BY <2>1, <2>2, SMT
<1>10. e.kind = "denial" => work'.state = "failed"
  BY <1>1, SMT
<1>11. /\ events'[n].policy \in DOMAIN policies' /\ events'[n].checkpoint \in DOMAIN checkpoints'
       /\ binding'[1].policy <= events'[n].policy
       /\ events'[n].kind = "authorization" =>
             policies'[events'[n].policy].grant.present /\ policies'[events'[n].policy].grant.status # "revoked"
       /\ events'[n].kind = "denial" => work'.state = "failed"
  BY <1>1, <1>3, <1>7, <1>8, <1>9, <1>10 DEF Policy
<1>12. ASSUME NEW i \in DOMAIN events
       PROVE  /\ events'[i].policy \in DOMAIN policies' /\ events'[i].checkpoint \in DOMAIN checkpoints'
              /\ binding'[1].policy <= events'[i].policy
              /\ events'[i].kind = "authorization" =>
                   policies'[events'[i].policy].grant.present /\ policies'[events'[i].policy].grant.status # "revoked"
              /\ events'[i].kind = "denial" => work'.state = "failed"
  BY <1>1, <1>2, <1>3, <1>5, <1>12 DEF Decided
<1>13. DenialIsFinal'
  <2>1. \A i \in DOMAIN events' : events'[i].kind = "denial" => i = n
    BY <1>3, <1>5
  <2>2. \A j \in DOMAIN events' : ~(n < j)
    BY <1>2, <1>3, SMT
  <2> QED BY <2>1, <2>2 DEF DenialIsFinal
<1>14. seal' # <<>> /\ binding' # <<>>
  BY <1>1, <1>6
<1>15. ASSUME NEW i \in DOMAIN events'
       PROVE  /\ events'[i].policy \in DOMAIN policies' /\ events'[i].checkpoint \in DOMAIN checkpoints'
              /\ binding'[1].policy <= events'[i].policy
              /\ events'[i].kind = "authorization" =>
                   policies'[events'[i].policy].grant.present /\ policies'[events'[i].policy].grant.status # "revoked"
              /\ events'[i].kind = "denial" => work'.state = "failed"
  <2>1. CASE i = n
    BY <1>11, <2>1
  <2>2. CASE i \in DOMAIN events
    BY <1>12, <2>2
  <2> QED BY <1>3, <2>1, <2>2
<1> QED BY <1>13, <1>14, <1>15 DEF Decided

\* Every step keeps the decisions justified.
LEMMA DecidedStep ==
  ASSUME LedgerInv, [ledgerNext]_ledgerVars
  PROVE  Decided' /\ events' \in Seq(EventRecords)
<1>1. events \in Seq(EventRecords)
  BY DEF LedgerInv, LedgerTypes
<1>2. CASE events' = events
  BY <1>1, <1>2, DecidedStays
<1>3. CASE events' # events
  <2>1. PICK who \in Clients : Applied(who)
    BY <1>3, StepKinds DEF Untouched
  <2>2. PICK e : Decides(pending[who], e)
    BY <1>3, <2>1, AppliedKinds, AuthorizeDecides, RenewDecides DEF InstallPolicy, RecordAdmission, PublishBuiltin,
       CreateBoundRequest, SealBoundCapture, records
  <2>3. e \in EventRecords /\ events' = Append(events, e) /\ now' = now
    BY <2>1, <2>2 DEF Decides, Applied
  <2>4. events' \in Seq(EventRecords)
    BY <1>1, <2>3, Appended
  <2> QED BY <2>2, <2>3, <2>4, DecidesOnce
<1> QED BY <1>2, <1>3

-----------------------------------------------------------------------------
(* Answers to retries.                                                     *)

\* Only a command of the worker that was not yet kept adds a decision.
LEMMA EventsByWorker ==
  ASSUME LedgerInv, [ledgerNext]_ledgerVars, events' # events
  PROVE  ~kept["worker"]
<1>1. PICK who \in Clients : Applied(who)
  BY StepKinds DEF Untouched
<1>2. who = "worker"
  BY <1>1, AppliedKinds DEF InstallPolicy, RecordAdmission, records
<1> QED BY <1>1, <1>2 DEF Applied

\* An operation that is kept was kept before or is the one applied now.
LEMMA KeptOrigin ==
  ASSUME LedgerInv, [ledgerNext]_ledgerVars, NEW w \in Clients, kept'[w]
  PROVE  pending'[w] = pending[w] /\ (kept[w] \/ Applied(w))
<1>1. kept \in [Clients -> BOOLEAN] /\ DOMAIN pending = Clients
  BY DEF LedgerInv, LedgerTypes, Commands
<1>2. CASE UNCHANGED <<pending, kept, refused>>
  BY <1>2
<1>3. CASE Ask
  <2>1. PICK who \in Clients : kept' = kept /\ ~kept[who] /\ \A v \in Clients : v # who => pending'[v] = pending[v]
    BY <1>3, AskStep
  <2> QED BY <2>1
<1>4. ASSUME NEW who \in Clients, Acknowledge(who), kept[who] \/ Applied(who)
      PROVE  pending'[w] = pending[w] /\ (kept[w] \/ Applied(w))
  <2>1. CASE pending' = [pending EXCEPT ![who] = NoCommand] /\ kept' = [kept EXCEPT ![who] = FALSE]
    BY <1>1, <1>4, <2>1
  <2>2. CASE pending' = pending /\ kept' = [kept EXCEPT ![who] = TRUE]
    BY <1>1, <1>4, <2>2
  <2> QED BY <1>4, <2>1, <2>2 DEF Acknowledge
<1>5. ASSUME NEW who \in Clients, ~kept[who], kept' = kept, pending' = [pending EXCEPT ![who] = NoCommand]
      PROVE  pending'[w] = pending[w] /\ (kept[w] \/ Applied(w))
  BY <1>1, <1>5
<1> QED BY <1>2, <1>3, <1>4, <1>5, ClientSteps

\* What answers a command still answers it after other steps.
LEMMA AnswerStays ==
  ASSUME LedgerInv, [ledgerNext]_ledgerVars, NEW w \in Clients, kept[w], OnRecord(pending[w]), pending'[w] = pending[w]
  PROVE  (OnRecord(pending[w]))'
<1> DEFINE c == pending[w]
<1>1. Grows
  BY LedgerGrows
<1>2. /\ \A r \in DOMAIN policies : r \in DOMAIN policies' /\ policies'[r] = policies[r]
      /\ \A g \in DOMAIN checkpoints : g \in DOMAIN checkpoints' /\ checkpoints'[g] = checkpoints[g]
      /\ receipt # <<>> => receipt' = receipt
      /\ binding # <<>> => binding' = binding
      /\ seal # <<>> => seal' = seal
  BY <1>1 DEF Grows, Extends
<1>3. c.action \in Actions(w) /\ w \in {"administrator", "worker"}
  BY DEF LedgerInv, Commands, Prepared, Clients
<1>4. w = "administrator" \/ (w = "worker" /\ events' = events)
  BY <1>3, EventsByWorker
<1>5. CASE w = "administrator"
  <2>1. c.action \in {"install-policy", "record-admission"}
    BY <1>3, <1>5, SMT DEF Actions
  <2>2. c.action \notin {"publish-builtin", "create-bound-request", "seal-bound-capture", "authorize-detector", "renew-detector"}
    BY ONLY <2>1, SMT
  <2> QED BY <1>2, <2>2 DEF OnRecord, AnswerFits
<1>6. CASE w = "worker" /\ events' = events
  <2>1. c.action # "install-policy" /\ c.action # "record-admission"
    BY <1>3, <1>6, SMT DEF Actions
  <2> QED BY <1>2, <1>6, <2>1, ZenonT(40) DEF OnRecord, AnswerFits
<1> QED BY <1>4, <1>5, <1>6

\* What a command does answers it.
LEMMA AppliedAnswers ==
  ASSUME LedgerInv, NEW w \in Clients, Applied(w), pending'[w] = pending[w]
  PROVE  (OnRecord(pending[w]))'
<1> DEFINE c == pending[w]
<1>1. c.action # "none" /\ c.policy = Len(policies) /\ c.checkpoint = Len(checkpoints)
  BY FreshHeads DEF Applied
<1>2. policies \in Seq(PolicyDocs) /\ checkpoints \in Seq(CheckpointDocs) /\ events \in Seq(EventRecords)
  BY DEF LedgerInv, LedgerTypes
<1>3. CASE c.action = "install-policy" /\ InstallPolicy(c)
  <2>1. c.doc \in PolicyDocs /\ policies' = Append(policies, c.doc)
    BY <1>1, <1>3, CommandFields DEF InstallPolicy
  <2>2. policies'[Len(policies) + 1] = c.doc /\ Len(policies) + 1 \in DOMAIN policies'
    BY ONLY <1>2, <2>1, SMT
  <2>3. c.action \notin {"record-admission", "publish-builtin", "create-bound-request", "seal-bound-capture",
                       "authorize-detector", "renew-detector"}
    BY <1>3, SMT
  <2> QED BY <1>1, <2>2, <2>3 DEF OnRecord, AnswerFits
<1>4. CASE c.action = "record-admission" /\ RecordAdmission(c)
  <2>1. c.doc \in CheckpointDocs /\ checkpoints' = Append(checkpoints, c.doc)
    BY <1>1, <1>4, CommandFields DEF RecordAdmission
  <2>2. checkpoints'[Len(checkpoints) + 1] = c.doc /\ Len(checkpoints) + 1 \in DOMAIN checkpoints'
    BY ONLY <1>2, <2>1, SMT
  <2>3. c.action \notin {"install-policy", "publish-builtin", "create-bound-request", "seal-bound-capture",
                       "authorize-detector", "renew-detector"}
    BY <1>4, SMT
  <2> QED BY <1>1, <2>2, <2>3 DEF OnRecord, AnswerFits
<1>5. CASE c.action = "publish-builtin" /\ PublishBuiltin(c)
  <2>1. receipt'[1] = [at |-> now, issued |-> c.at, policy |-> Len(policies), checkpoint |-> Len(checkpoints)]
        /\ receipt' # <<>>
    BY <1>5, SMT DEF PublishBuiltin
  <2>2. receipt'[1].policy = Len(policies) /\ receipt'[1].checkpoint = Len(checkpoints) /\ receipt' # <<>>
    BY ONLY <2>1, SMT
  <2>3. c.action \notin {"install-policy", "record-admission", "create-bound-request", "seal-bound-capture",
                       "authorize-detector", "renew-detector"}
    BY <1>5, SMT
  <2> QED BY <1>1, <2>2, <2>3 DEF OnRecord, AnswerFits
<1>6. CASE c.action = "create-bound-request" /\ CreateBoundRequest(c)
  <2>1. binding'[1] = [at |-> now, policy |-> Len(policies), checkpoint |-> Len(checkpoints)] /\ binding' # <<>>
    BY <1>6, SMT DEF CreateBoundRequest
  <2>2. binding'[1].policy = Len(policies) /\ binding'[1].checkpoint = Len(checkpoints) /\ binding' # <<>>
    BY ONLY <2>1, SMT
  <2>3. c.action \notin {"install-policy", "record-admission", "publish-builtin", "seal-bound-capture",
                       "authorize-detector", "renew-detector"}
    BY <1>6, SMT
  <2> QED BY <1>1, <2>2, <2>3 DEF OnRecord, AnswerFits
<1>7. CASE c.action = "seal-bound-capture" /\ SealBoundCapture(c)
  <2>1. seal'[1] = [at |-> now, token |-> c.token, revision |-> c.revision] /\ seal' # <<>>
    BY <1>7, SMT DEF SealBoundCapture
  <2>2. seal'[1].token = c.token /\ seal'[1].revision = c.revision /\ seal' # <<>>
    BY ONLY <2>1, SMT
  <2>3. c.action \notin {"install-policy", "record-admission", "publish-builtin", "create-bound-request",
                       "authorize-detector", "renew-detector"}
    BY <1>7, SMT
  <2> QED BY <2>2, <2>3 DEF OnRecord, AnswerFits
<1>8. CASE \/ c.action = "authorize-detector" /\ AuthorizeDetector(c)
           \/ c.action = "renew-detector" /\ RenewDetector(c)
  <2>1. PICK e : Decides(c, e)
    BY <1>8, AuthorizeDecides, RenewDecides
  <2>2. /\ e \in EventRecords /\ events' = Append(events, e)
        /\ e.token = c.token /\ e.policy = Len(policies) /\ e.checkpoint = Len(checkpoints)
    BY <2>1 DEF Decides
  <2>3. events'[Len(events')] = e
    BY ONLY <1>2, <2>2, SMT
  <2>4. /\ e.kind = "denial" /\ e.revision = c.revision
        \/ /\ e.kind = "authorization"
           /\ e.revision = IF c.action = "renew-detector" THEN c.revision + 1 ELSE c.revision
    BY <2>1 DEF Decides
  <2>5. e.revision = IF c.action = "renew-detector" /\ e.kind = "authorization" THEN c.revision + 1 ELSE c.revision
    BY ONLY <2>4, SMT
  <2>6. c.action \notin {"install-policy", "record-admission", "publish-builtin", "create-bound-request",
                       "seal-bound-capture"}
    BY <1>8, SMT
  <2> QED BY <1>1, <2>2, <2>3, <2>5, <2>6 DEF OnRecord, AnswerFits
<1> QED BY <1>3, <1>4, <1>5, <1>6, <1>7, <1>8, AppliedKinds

\* Every step keeps the answers of the kept commands.
LEMMA KeptStep ==
  ASSUME LedgerInv, [ledgerNext]_ledgerVars
  PROVE  \A w \in Clients : KeptFits(w)'
<1>1. ASSUME NEW w \in Clients, kept'[w] PROVE (OnRecord(pending[w]))'
  <2>1. pending'[w] = pending[w] /\ (kept[w] \/ Applied(w))
    BY <1>1, KeptOrigin
  <2>2. CASE kept[w]
    <3>1. OnRecord(pending[w])
      BY <2>2 DEF LedgerInv, KeptFits
    <3> QED BY <2>1, <2>2, <3>1, AnswerStays
  <2>3. CASE Applied(w)
    BY <2>1, <2>3, AppliedAnswers
  <2> QED BY <2>1, <2>2, <2>3
<1> QED BY <1>1 DEF KeptFits

\* Every step keeps the invariant of the ledger.
LEMMA LedgerStep == LedgerInv /\ [ledgerNext]_ledgerVars => LedgerInv'
<1> SUFFICES ASSUME LedgerInv, [ledgerNext]_ledgerVars PROVE LedgerInv'
  OBVIOUS
<1>1. now' \in Nat
  BY ClockMoves
<1>2. /\ work' \in WorkRows /\ Commands' /\ kept' \in [Clients -> BOOLEAN] /\ refused' \in [Clients -> BOOLEAN]
  BY WorkTyped, CommandsStep
<1>3. /\ reader' \in [phase : {"idle", "read", "checked", "verified"}, event : Nat, time : Nat, until : Nat]
      /\ Checked' /\ (\A w \in Clients : KeptFits(w)')
  BY ReaderStep, KeptStep
<1>4. Chained' /\ policies' \in Seq(PolicyDocs) /\ checkpoints' \in Seq(CheckpointDocs)
  BY ChainsStep
<1>5. /\ Publication' /\ Acceptance'
      /\ receipt' # <<>> => receipt'[1] \in [at : Nat, issued : Nat, policy : Nat, checkpoint : Nat]
      /\ binding' # <<>> => binding'[1] \in [at : Nat, policy : Nat, checkpoint : Nat]
  BY PublicationStep, AcceptanceStep
<1>6. Decided' /\ events' \in Seq(EventRecords)
  BY DecidedStep
<1>7. LedgerTypes'
  BY <1>1, <1>2, <1>3, <1>4, <1>5, <1>6 DEF LedgerTypes, WorkRows
<1> QED BY <1>2, <1>3, <1>4, <1>5, <1>6, <1>7 DEF LedgerInv

-----------------------------------------------------------------------------
(* From the invariant to the properties.                                   *)

\* The SQL's reading of an authorization implies verify.py's.
LEMMA ReadIsVerified ==
  ASSUME LedgerInv, NEW i \in DOMAIN events, ReadCurrent(i)
  PROVE  VerifyRequest(i, now) /\ now < Permission(i)
<1> DEFINE e == events[i]
           p == receipt[1]
           q == binding[1]
<1>1. LedgerTypes /\ Chained /\ Publication /\ Acceptance /\ Decided
  BY DEF LedgerInv
<1>2. binding # <<>> /\ receipt # <<>>
  <2>1. events # <<>>
    BY SMT
  <2> QED BY <1>1, <2>1 DEF Decided, Acceptance
<1>3. /\ p.policy \in DOMAIN policies /\ p.checkpoint \in DOMAIN checkpoints /\ p.at <= now
      /\ ApprovalAt(p.policy, p.issued, p.at) /\ CheckpointAt(p.checkpoint, p.policy, p.at)
  BY <1>1, <1>2 DEF Publication, AdminPublication
<1>4. /\ p.at <= q.at /\ q.at <= now /\ q.policy \in DOMAIN policies /\ p.policy <= q.policy
      /\ q.checkpoint \in DOMAIN checkpoints
      /\ Within(policies[q.policy], q.at) /\ GrantAt(q.policy, q.at) /\ CheckpointAt(q.checkpoint, q.policy, q.at)
  BY <1>1, <1>2 DEF Acceptance
<1>5. /\ e.policy \in DOMAIN policies /\ e.checkpoint \in DOMAIN checkpoints /\ q.policy <= e.policy
  BY <1>1 DEF Decided
<1>6. \A r \in DOMAIN policies : r \in Nat
  BY <1>1, SMT DEF LedgerTypes
<1>7. ASSUME NEW r \in DOMAIN policies, NEW s \in DOMAIN policies, r <= s, policies[r].grant.present
      PROVE  PolicyEvolution(r, s)
  <2>1. s >= r /\ (s > r => r < s)
    BY <1>6, <1>7, SMT
  <2> QED BY <1>1, <1>7, <2>1 DEF PolicyEvolution, Chained
<1>8. PolicyEvolution(p.policy, q.policy) /\ PolicyEvolution(q.policy, e.policy)
  <2>1. policies[p.policy].grant.present /\ policies[q.policy].grant.present
    BY <1>3, <1>4 DEF ApprovalAt, GrantAt
  <2> QED BY <1>3, <1>4, <1>5, <1>7, <2>1
<1>9. Historical(now)
  BY <1>3, <1>4, <1>8 DEF Historical
<1>10. /\ e.policy = Len(policies) /\ e.checkpoint = Len(checkpoints) /\ Checkpoint.policy = Len(policies)
       /\ q.at <= e.at /\ e.at <= now /\ e.lease = work.lease /\ now < work.lease
       /\ Usable(e.at) /\ Usable(now)
  BY DEF ReadCurrent
<1>11. ASSUME NEW t, Usable(t)
       PROVE  Within(policies[e.policy], t) /\ GrantAt(e.policy, t) /\ CheckpointAt(e.checkpoint, e.policy, t)
  BY <1>10, <1>11 DEF Usable, PolicyTime, GrantAt, CheckpointAt, Policy, Checkpoint
<1>12. now < Permission(i)
  <2>1. /\ now < policies[e.policy].until /\ now < policies[e.policy].grant.until /\ now < checkpoints[e.checkpoint].until
    BY <1>10, <1>11 DEF Within, GrantAt, GrantUse, CheckpointAt
  <2> QED BY <1>10, <2>1, PermissionIsFirst
<1>13. Execution(i, now)
  BY <1>8, <1>10, <1>11, <1>12 DEF Execution
<1> QED BY <1>9, <1>12, <1>13 DEF VerifyRequest

\* The offline verifier accepts every stored policy.
LEMMA AdminPolicies ==
  ASSUME LedgerInv, NEW r \in DOMAIN policies
  PROVE  AdminPolicy(r)
<1>1. LedgerTypes /\ Chained
  BY DEF LedgerInv
<1>2. CASE r = 1
  BY <1>1, <1>2 DEF AdminPolicy, Chained
<1>3. CASE r # 1
  <2>1. r - 1 \in DOMAIN policies /\ r - 1 < r /\ r >= r - 1 /\ r = (r - 1) + 1
    BY <1>1, <1>3, SMT DEF LedgerTypes
  <2>2. policies[r - 1].grant.present => GrantEvolves(policies[r - 1].grant, policies[r].grant)
    BY <1>1, <2>1 DEF Chained
  <2>3. ~policies[r - 1].grant.present /\ policies[r].grant.present => AdmittedInside(policies[r].grant, policies[r])
    BY <1>1, <2>1 DEF Chained
  <2>4. PolicyEvolution(r - 1, r)
    BY <2>1, <2>2, <2>3 DEF PolicyEvolution
  <2> QED BY <1>3, <2>4 DEF AdminPolicy
<1> QED BY <1>2, <1>3

\* The invariant of the ledger implies its properties.
LEMMA LedgerSafe == LedgerInv => LedgerIsConsistent
<1> SUFFICES ASSUME LedgerInv PROVE LedgerIsConsistent
  OBVIOUS
<1>1. VerifierAgrees
  <2>1. receipt # <<>> => AdminPublication
    BY DEF LedgerInv, Publication
  <2>2. \A g \in DOMAIN checkpoints : AdminAdmission(g)
    BY DEF LedgerInv, Chained
  <2>3. ASSUME pending["worker"].action = "publish-builtin", Fresh(pending["worker"]), CanPublish(pending["worker"])
        PROVE  Preflight(pending["worker"], now)
    <3> DEFINE c == pending["worker"]
    <3>1. "worker" \in Clients /\ c.action # "none"
      BY <2>3, SMT DEF Clients
    <3>2. c.policy = Len(policies) /\ c.checkpoint = Len(checkpoints)
      BY <2>3, <3>1, FreshHeads
    <3>3. c.at \in Nat /\ c.at <= now
      BY <3>1, CommandFields
    <3>4. ApprovalAt(Len(policies), c.at, now)
      BY <2>3, <3>3, ApprovedNow
    <3>5. Within(policies[Len(policies)], now) /\ CheckpointAt(Len(checkpoints), Len(policies), now)
      BY <2>3, LiveHeads DEF CanPublish
    <3> QED BY <3>2, <3>4, <3>5 DEF Preflight, AdminCurrent
  <2>4. \A who \in Clients : kept[who] => AnswerFits(pending[who])
    BY DEF LedgerInv, KeptFits, OnRecord
  <2> QED BY <2>1, <2>2, <2>3, <2>4, AdminPolicies, ReadIsVerified DEF VerifierAgrees
<1>2. DenialIsFinal
  BY DEF LedgerInv, Decided
<1>3. RevokedForever
  <2> SUFFICES ASSUME NEW r \in DOMAIN policies, policies[r].grant.present, policies[r].grant.status = "revoked",
                      NEW i \in DOMAIN events, events[i].kind = "authorization"
               PROVE  events[i].policy < r
    BY DEF RevokedForever
  <2> DEFINE s == events[i].policy
  <2>1. s \in DOMAIN policies /\ policies[s].grant.status # "revoked"
    BY DEF LedgerInv, Decided
  <2>2. r \in Nat /\ s \in Nat
    BY <2>1, SMT DEF LedgerInv, LedgerTypes
  <2>3. CASE r < s
    <3>1. GrantEvolves(policies[r].grant, policies[s].grant)
      BY <2>1, <2>3 DEF LedgerInv, Chained
    <3>2. Successors["revoked"] = {"revoked"}
      BY SMT DEF Successors
    <3> QED BY <2>1, <3>1, <3>2 DEF GrantEvolves
  <2>4. CASE r = s
    BY <2>1, <2>4
  <2> QED BY ONLY <2>2, <2>3, <2>4, SMT
<1>4. RefusedIsAbsent
  BY DEF LedgerInv, Commands, Prepared, RefusedIsAbsent
<1> QED BY <1>1, <1>2, <1>3, <1>4 DEF LedgerIsConsistent

\* For every chain of documents the root may sign: what the ledger stored, at once
\* or to a retry, verify.py and the repository accept; a denial and a revocation are
\* final; and a command that was refused is not in the ledger.
THEOREM LedgerConsistent == ledgerSpec => []LedgerIsConsistent
<1>1. ledgerInit => LedgerInv
  BY LedgerInit
<1>2. LedgerInv /\ [ledgerNext]_ledgerVars => LedgerInv'
  BY LedgerStep
<1>3. LedgerInv => LedgerIsConsistent
  BY LedgerSafe
<1> QED BY <1>1, <1>2, <1>3, PTL DEF ledgerSpec

\* verify_resolved_qualified_rule returns a permission only while the authorization
\* it read is the run's latest, under the installed heads, and not expired.
THEOREM ReturnsCurrent == ledgerSpec => VerifiedIsCurrent
<1> DEFINE Current ==
      reader'.phase = "verified" /\ reader.phase # "verified" =>
        LET e == events[reader.event] IN
        /\ IsLeaf(reader.event) /\ e.revision = work.revision
        /\ e.policy = Len(policies) /\ e.checkpoint = Len(checkpoints)
        /\ Usable(now) /\ now < reader.until
<1>1. ledgerInit => LedgerInv
  BY LedgerInit
<1>2. LedgerInv /\ [ledgerNext]_ledgerVars => LedgerInv'
  BY LedgerStep
<1>3. LedgerInv /\ [ledgerNext]_ledgerVars => [Current]_ledgerVars
  <2> SUFFICES ASSUME LedgerInv, ledgerNext, reader'.phase = "verified", reader.phase # "verified"
               PROVE  Current
    BY DEF ledgerVars
  <2>1. reader' # NotReading /\ reader' # reader
    BY SMT DEF NotReading
  <2>2. /\ \A i : reader'.phase = "verified" => ~Read(i)
        /\ ~Verify
    <3>1. \A i : ~(reader' = [phase |-> "read", event |-> i, time |-> now, until |-> 0])
      BY SMT
    <3>2. reader \in [phase : {"idle", "read", "checked", "verified"}, event : Nat, time : Nat, until : Nat]
      BY DEF LedgerInv, LedgerTypes
    <3>3. [reader EXCEPT !.phase = "checked", !.until = Permission(reader.event)].phase = "checked"
      BY ONLY <3>2, SMT
    <3>4. reader' # [reader EXCEPT !.phase = "checked", !.until = Permission(reader.event)]
      BY <3>3
    <3> QED BY <2>1, <3>1, <3>4 DEF Read, Verify
  <2>3. Recheck
    BY <2>1, <2>2 DEF ledgerNext, Ask, Prepare, Deliver, Claim, Heartbeat, Finish, Tick, Return
  <2>4. reader.phase = "checked" /\ ReadCurrent(reader.event)
    BY <2>1, <2>3 DEF Recheck, Rechecked
  <2>5. reader.phase # "idle" /\ reader.phase \in {"checked", "verified"}
    BY <2>4, SMT
  <2>6. reader.event \in DOMAIN events /\ reader.until = Permission(reader.event)
    BY <2>5 DEF LedgerInv, Checked
  <2>7. now < Permission(reader.event)
    BY <2>4, <2>6, ReadIsVerified
  <2> QED BY <2>4, <2>6, <2>7 DEF ReadCurrent
<1> QED BY <1>1, <1>2, <1>3, PTL DEF ledgerSpec, VerifiedIsCurrent
=============================================================================
