----------------------------- MODULE MCCustody -----------------------------
(***************************************************************************)
(* Four keepers of evidence that others may change, one run: the           *)
(* acquisition of a source tree (SourceAcquisition), the reader of an      *)
(* attempt's history (HistoryReader), a refactoring campaign in its        *)
(* container (RefactorCampaign) and the signed provenance chain            *)
(* (ProvenanceChain).  A behaviour is one of the four from start to end;   *)
(* the other variables keep their first values.                            *)
(***************************************************************************)
EXTENDS ProvenanceChain, SourceAcquisition, HistoryReader

VARIABLES subject, pc, at, side, cur, events, err, rec, selected, store, trees, code, parsed, exit,
          ctl, box, watchdog, seen, kept, result, edits, losses, commands

\* A call in order, one without limits, one with two equal directories and
\* one with a directory that is not there.
SampleRequests == [limits : BOOLEAN, binding : {TRUE}, paths : {<<"objects", "store", "evidence">>,
                                                                <<"objects", "objects", "evidence">>,
                                                                <<"objects", "store", "missing">>}]
Kinds == [m |-> "manifest", e1 |-> "event", b1 |-> "blob", e2 |-> "event"]
Orders == [m |-> 0, e1 |-> 1, b1 |-> 3, e2 |-> 2]

\* A structural case and a failure control; a campaign runs one of them.
Demands == [fixture_syntax |-> "valid", transformation_validation |-> "valid"]
CampaignCases ==
    [c1 |-> [kind |-> "structural_comparison", language |-> "java", outcome |-> "stay", demands |-> Demands,
             located |-> [before |-> TRUE, after |-> TRUE], file |-> "f", afterFiles |-> {"f"}],
     c2 |-> [kind |-> "analysis_failure", language |-> "java", outcome |-> "failure", demands |-> Demands,
             located |-> [before |-> TRUE, after |-> FALSE], file |-> "f", afterFiles |-> {"f"}]]
CampaignPolicy ==
    [required |-> {"c1", "c2"}, namespaces |-> {"v2"}, kinds |-> {"real_joern"}, roles |-> {"parser"},
     freshness |-> "fresh", cache |-> "disabled", improvements |-> <<>>, baseline |-> "none",
     maxAge |-> 24, requiresAttempts |-> TRUE]

\* What scans ask to have signed: a core finding and an oracle finding, and
\* four records a guard of sign_provenance refuses.
CoreRecord ==
    [parent |-> None, type |-> "chain", annotated |-> TRUE, snapshot |-> "s1", origin |-> CORE, engine |-> "ifds",
     class |-> None, hash |-> "h", sarif |-> TRUE, precondition |-> "closed-world", run |-> None, schema |-> 2,
     identity |-> [graph |-> "completed", slice |-> "completed", match |-> TRUE]]
Records ==
    {CoreRecord,
     [CoreRecord EXCEPT !.origin = ORACLE, !.sarif = FALSE, !.engine = "semgrep", !.identity.graph = "unavailable"],
     [CoreRecord EXCEPT !.identity.slice = "unavailable"], [CoreRecord EXCEPT !.origin = None],
     [CoreRecord EXCEPT !.annotated = FALSE], [CoreRecord EXCEPT !.class = "strong"]}

Campaign == INSTANCE RefactorCampaign WITH Order <- <<"c1", "c2">>, Cases <- CampaignCases, Policy <- CampaignPolicy,
                Selections <- {{"c1"}, {"c2"}}, Hashes <- {"h1"}, MaxChanges <- 1, MaxLosses <- 1, MaxCalls <- 1,
                changes <- edits, calls <- commands

campaignVars == <<pc, at, side, cur, events, err, rec, selected, store, trees, code, parsed, exit,
                  ctl, box, watchdog, seen, kept, result, edits, losses, commands>>
vars == <<subject, acqVars, histVars, campaignVars, provVars>>

Init ==
    /\ subject \in {"acquisition", "history", "campaign", "provenance"}
    /\ acqInit /\ histInit /\ Campaign!Init /\ provInit
    /\ subject # "acquisition" => Loadable
    /\ subject # "campaign" => selected = {"c1"}
Acquire == subject = "acquisition" /\ acqNext /\ UNCHANGED <<subject, histVars, campaignVars, provVars>>
\* Two accidents befall a reading at most: files are replaced, or exceptions raised.
ReadHistory ==
    /\ subject = "history" /\ histNext /\ Cardinality({p \in Pubs : version'[p] = 1}) + faults' <= 2
    /\ UNCHANGED <<subject, acqVars, campaignVars, provVars>>
\* At most one accident befalls a campaign: a tree or the code changes, or a
\* call of the store fails.
RunCampaign ==
    subject = "campaign" /\ Campaign!Next /\ edits' + losses' <= 1 /\ UNCHANGED <<subject, acqVars, histVars, provVars>>
\* The chain is followed up to its first storage fault.
KeepProvenance ==
    subject = "provenance" /\ damage = 0 /\ provNext /\ UNCHANGED <<subject, acqVars, histVars, campaignVars>>
Next == Acquire \/ ReadHistory \/ RunCampaign \/ KeepProvenance
Spec == Init /\ [][Next]_vars

\* The checker accepts every report the runner builds, and an exit status of 0
\* is of a campaign whose every selected case ran to its end in its container.
CampaignIsTruthful == subject = "campaign" => Campaign!ReportIsAccepted /\ Campaign!CampaignIsTruthful
=============================================================================
