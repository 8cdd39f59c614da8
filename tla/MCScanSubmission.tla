-------------------------- MODULE MCScanSubmission --------------------------
(***************************************************************************)
(* What is decided once and relied on later, one run: the scan a request   *)
(* is answered with (ScanSubmission), the decisions an entity inherits     *)
(* (Continuity) and the permissions of the accepted-inputs ledger          *)
(* (AcceptedLedger).  A behaviour is one of the three from start to end;   *)
(* the others keep their first state.                                      *)
(***************************************************************************)
EXTENDS Continuity, ScanSubmission, AcceptedLedger, TLC

CONSTANTS v1, v2, a1, a2, k1, k2, a, b, x, e1, e2, c, ab, ba, ax, p1

VARIABLE subject

\* Two verdict events, one policy, two activations of it.
MCDimensionOf == [e \in Events |-> "verdict"]

\* Bodies ab and ba differ in the order of their detectors only, ax asks for
\* an unknown detector, and p1 pins an S_version.
MCDetectorsOf ==
    [r \in Bodies |-> (ab :> <<a, b>> @@ ba :> <<b, a>> @@ ax :> <<a, x>> @@ p1 :> <<a>>)[r]]
MCCommitOf == [r \in Bodies |-> c]
MCPinOf == [r \in Bodies |-> IF r = p1 THEN 1 ELSE 0]

\* The grant is retired or revoked by a successor, or there is none; the last
\* policy tries to revive it.
Granting(present, revision, until, status, changed) ==
    [revision |-> revision, from |-> 0, until |-> until,
     grant |-> [present |-> present, from |-> 0, until |-> 2, status |-> status, changed |-> changed]]
Doc(revision, until, status, changed) == Granting(TRUE, revision, until, status, changed)
Admission(generation, policy, action) ==
    [generation |-> generation, policy |-> policy, action |-> action, from |-> 0, until |-> 2]
MCPolicyDocs ==
    {Granting(FALSE, 1, 2, "revoked", 0), Doc(1, 2, "active", 0), Doc(2, 4, "retired", 1), Doc(2, 4, "revoked", 1),
     Doc(3, 4, "active", 0), Doc(3, 4, "retired", 1)}
MCCheckpointDocs ==
    {Admission(1, 1, "admit"), Admission(2, 1, "block"), Admission(2, 2, "admit"), Admission(3, 3, "admit")}

\* The events are alike, the activations are, and so are the idempotency keys.
IdSymmetry == Permutations({v1, v2}) \cup Permutations({a1, a2}) \cup Permutations(Keys)

allVars == <<subject, vars, submissionVars, ledgerVars>>

DecisionInit ==
    /\ subject \in {"continuity", "submission", "ledger"}
    /\ Init /\ submissionInit /\ ledgerInit
    /\ subject # "submission" => env = e1
\* The registry and the entity change five times in all.
RunContinuity ==
    subject = "continuity" /\ Next /\ registry'.rev + entity'.rev <= 5 /\ UNCHANGED <<subject, submissionVars, ledgerVars>>
\* At most one accident befalls the submissions: a call fails or a process restarts.
RunSubmission ==
    subject = "submission" /\ submissionNext /\ faults' + restarts' <= 1 /\ UNCHANGED <<subject, vars, ledgerVars>>
RunLedger == subject = "ledger" /\ ledgerNext /\ UNCHANGED <<subject, vars, submissionVars>>
DecisionNext == RunContinuity \/ RunSubmission \/ RunLedger
DecisionSpec == DecisionInit /\ [][DecisionNext]_allVars

-----------------------------------------------------------------------------
\* No job is sent under a superseded Env digest (ScanSubmission), and what was
\* verified is in force when the verifier returns (AcceptedLedger).
UsedIsCurrent == FreshEnv /\ VerifiedIsCurrent
=============================================================================
