--------------------------- MODULE MCEvidenceStore ---------------------------
(***************************************************************************)
(* Effects that outlive the call that made them, one run: files of the     *)
(* evidence store (EvidenceStore) and requests to a code host that may     *)
(* have taken effect although they failed (ScmConnector).  A behaviour is  *)
(* one of the two from start to end; the other keeps its first state.      *)
(***************************************************************************)
EXTENDS EvidenceStore, Integers, Sequences

CONSTANTS s1, s2, r1, r2, m1, m2

VARIABLES subject, provider, policy, runner, hooks, clones, calls, menu, suite, made

\* Two scopes, one with two members and one with none.
MCScopes == {s1, s2}
MCPubs == {r1, m1, m2, r2}
MCScopeOf == [p \in MCPubs |-> IF p = r2 THEN s2 ELSE s1]
MCParentOf == [s \in MCScopes |-> IF s = s1 THEN r1 ELSE r2]

\* The four connectors, two retry policies and the operations in play; the
\* hurried policy is for the operations that only read.
Patient == [attempts |-> 2, deadline |-> -1, backoff |-> 1, jitter |-> "none"]
Hurried == [attempts |-> 3, deadline |-> 4, backoff |-> 2, jitter |-> "full"]
Connector == INSTANCE ScmConnector WITH
    dirs <- clones,
    Callers <- {"a", "b"}, Repos <- {"r", "s"}, Providers <- {"github", "gitlab", "bitbucket", "azure-devops"},
    Policies <- {Patient, Hurried}, PageSize <- 1,
    Listing <- <<[mapping |-> TRUE], [mapping |-> FALSE], [mapping |-> TRUE]>>,
    Menus <- {{"register"}, {"list"}, {"clone"}, {"branch", "resolve"},
              {"list", "clone", "register", "branch", "resolve"}},
    MaxCalls <- 2, MaxHooks <- 3

ASSUME Connector!ScmAssumption

connectorVars == <<provider, policy, runner, hooks, clones, calls, menu, suite, made>>
allVars == <<subject, vars, connectorVars>>

EffectInit ==
    /\ subject \in {"evidence", "connector"}
    /\ Init /\ Connector!Init
    /\ subject = "evidence" => provider = "github" /\ policy = Patient /\ menu = {"list"}
    /\ subject = "connector" => target = r1
    /\ policy = Hurried => menu \in {{"list"}, {"branch", "resolve"}}
RunEvidence == subject = "evidence" /\ Next /\ UNCHANGED <<subject, connectorVars>>
RunConnector == subject = "connector" /\ Connector!Next /\ UNCHANGED <<subject, vars>>
EffectNext == RunEvidence \/ RunConnector
EffectSpec == EffectInit /\ [][EffectNext]_allVars

-----------------------------------------------------------------------------
\* A call stays in its retry budget, a listing is whole, a clone keeps no
\* remote and the conformance report is exact; a registration is of its
\* repository, where hooks are looked up by repository, and doubles only what
\* overlapped it (ScmConnector).
ConnectorIsExact ==
    subject = "connector" =>
        /\ Connector!BudgetIsKept /\ Connector!ListingIsWhole /\ Connector!CloneIsScrubbed /\ Connector!ReportIsExact
        /\ provider # "azure-devops" => Connector!RegistrationIsOfRepo
        /\ Connector!DuplicatesOverlap

\* A call makes boundedly many requests, however they are answered (ScmConnector).
StepsProgress == Connector!StepsProgress
=============================================================================
