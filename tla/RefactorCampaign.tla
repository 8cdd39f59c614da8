--------------------------- MODULE RefactorCampaign ---------------------------
(***************************************************************************)
(* The campaign runner (scripts/run_refactor_campaign.py) with the Joern   *)
(* front end it calls (analysis/cpg_ingest/joern_frontend.py), inside the  *)
(* container that its controller (run_refactor_campaign_container.py)      *)
(* creates, watches and removes.  What the runner writes is read by the    *)
(* checker of RefactorChecks.                                              *)
(*                                                                         *)
(* An exception is its kind and whether an evidence-store failure is       *)
(* chained beneath it.  A store call that fails leaves no intact file.     *)
(* Source trees and the mounted code may change at any time (never back).  *)
(***************************************************************************)
EXTENDS RefactorChecks

CONSTANTS
  Order,         \* the case identifiers in sorted order
  Cases,         \* what the manifest says of each case
  Policy,        \* the gate policy
  Selections,    \* the sets of cases a command line may name
  Hashes,        \* fingerprints
  MaxChanges,    \* changes of a source tree or of the code
  MaxLosses,     \* store calls that fail
  MaxCalls       \* docker commands that fail

VARIABLES
  pc,            \* the runner: where it is, or how it ended
  at,            \* index of the case at hand
  side,          \* the side at hand
  cur,           \* the side's record
  events,        \* its observed subprocesses: [phase, error]
  err,           \* the exception it has to handle
  rec,           \* the report's case records
  selected,      \* the cases named on the command line
  store,         \* evidence files whose bytes are intact
  trees, code,   \* source trees and analysis code: "locked" or "changed"
  parsed,        \* what each attempt really parsed
  exit,          \* exit status of the runner, "none" while it runs
  ctl,           \* the controller's next command, or "ended"
  box,           \* the container: "none", "created", "running", "stopped", "removed"
  watchdog,      \* the controller asked the container to stop
  seen,          \* the container state of the last inspection
  kept,          \* files of the controller
  result,        \* exit status of the controller
  changes, losses, calls

runner == <<pc, at, side, cur, events, err, rec, store, parsed, exit, losses>>
world == <<trees, code, changes>>
controller == <<ctl, watchdog, seen, kept, result, calls>>
vars == <<runner, world, controller, selected, box>>

NoError == [kind |-> "none", chained |-> FALSE, stage |-> "none"]
Error(kind, chained, stage) == [kind |-> kind, chained |-> chained, stage |-> stage]
File(name) == <<Order[at], side, name>>
Global(name) == <<"", "", name>>

UnrunSide ==
  [digest |-> "locked", status |-> "not_run", reason |-> TRUE,
   fingerprint |-> NoFingerprint, locator |-> "not_run", finding |-> NoFinding,
   scan |-> NoScan, error |-> "none", evidence |-> << >>]

UnrunCase(case) ==
  [kind |-> case.kind, side |-> [s \in Sides |-> UnrunSide],
   correspondence |-> [status |-> "not_run", evidence |-> << >>],
   observed |-> [d \in DOMAIN case.demands |-> [status |-> "not_run", evidence |-> << >>]],
   lifecycle |-> [state |-> "none", reason |-> "none", finding |-> "none", scan |-> "none",
                  inherited |-> FALSE, evidence |-> << >>]]

Report ==
  [policyDigest |-> "current", cases |-> rec,
   run |-> [kind |-> "real_joern", freshness |-> "fresh", cache |-> "disabled",
            manifest |-> "none", roles |-> {}, digestOk |-> FALSE, revision |-> "head",
            started |-> 0, completed |-> 0, now |-> 0]]

Corpus == LoadCorpus(Policy, Cases, "locked", trees)

Init ==
  /\ pc = "open" /\ at = 1 /\ side = "before" /\ cur = UnrunSide /\ events = << >>
  /\ err = NoError /\ rec = [c \in DOMAIN Cases |-> UnrunCase(Cases[c])]
  /\ selected \in Selections
  /\ store = {} /\ parsed = [c \in DOMAIN Cases |-> [s \in Sides |-> "none"]]
  /\ exit = "none" /\ losses = 0
  /\ trees = [c \in DOMAIN Cases |-> [s \in Sides |-> "locked"]] /\ code = "locked"
  /\ changes = 0
  /\ ctl = "prepare" /\ box = "none" /\ watchdog = FALSE /\ seen = "none"
  /\ kept = {} /\ result = "none" /\ calls = 0

(***************************************************************************)
(* The world: someone edits a source tree or the checkout.                 *)
(***************************************************************************)
Change ==
  /\ changes < MaxChanges /\ exit = "none" /\ changes' = changes + 1
  /\ \/ \E c \in DOMAIN Cases, s \in Sides :
          trees' = [trees EXCEPT ![c][s] = "changed"] /\ UNCHANGED code
     \/ code' = "changed" /\ UNCHANGED trees
  /\ UNCHANGED <<runner, controller, selected, box>>

(***************************************************************************)
(* How the runner ends: refused with 2, an evidence failure with 1.        *)
(***************************************************************************)
Running == box = "running" /\ exit = "none"
Frame == UNCHANGED <<world, controller, selected, box>>

End(status) == exit' = status /\ pc' = "ended"

Refuse ==
  /\ End("2")
  /\ UNCHANGED <<at, side, cur, events, err, rec, store, parsed, losses>>

\* A store call of this step fails, outside the part of _process_side that
\* handles exceptions.
Lose ==
  /\ Running /\ losses < MaxLosses
  /\ pc \in {"open", "side", "failed", "complete", "pair", "checkpoint", "publish", "gate"}
  /\ losses' = losses + 1 /\ End("1")
  /\ UNCHANGED <<at, side, cur, events, err, rec, store, parsed>> /\ Frame

\* A store call inside that part fails.
LoseInside ==
  /\ Running /\ losses < MaxLosses /\ pc \in {"map", "locate", "fingerprint"}
  /\ losses' = losses + 1 /\ err' = Error("evidence", FALSE, pc) /\ pc' = "failed"
  /\ UNCHANGED <<at, side, cur, events, rec, store, parsed, exit>> /\ Frame

\* The mounted code is the controller's checkout.
RuntimeObserved == code = "locked"

\* The prelude of run_campaign: policy, corpus, selection and mounted code are
\* validated before anything is written.
Open ==
  /\ Running /\ pc = "open"
  /\ IF ValidatePolicy(Policy) /\ Corpus /\ RuntimeObserved
     THEN /\ store' = store \union {Global(n) : n \in
                {"runtime", "case-manifest", "corpus.lock", "gate-policy", "checkpoint-0000"}}
          /\ pc' = "side"
          /\ UNCHANGED <<at, side, cur, events, err, rec, parsed, exit, losses>>
     ELSE Refuse
  /\ Frame

(***************************************************************************)
(* One side (_process_side).                                               *)
(***************************************************************************)
Skip ==
  /\ Running /\ pc = "side" /\ at <= Len(Order) /\ Order[at] \notin selected
  /\ at' = at + 1
  /\ UNCHANGED <<pc, side, cur, events, err, rec, store, parsed, exit, losses>> /\ Frame

StartSide ==
  /\ Running /\ pc = "side" /\ at <= Len(Order) /\ Order[at] \in selected
  /\ IF trees[Order[at]][side] = "locked"
     THEN /\ cur' = [UnrunSide EXCEPT !.evidence = <<Global("runtime"), File("attempt")>>]
          /\ store' = store \union {File("attempt")}
          /\ events' = << >> /\ err' = NoError /\ pc' = "parse"
          /\ UNCHANGED <<at, side, rec, parsed, exit, losses>>
     ELSE Refuse
  /\ Frame

\* _observed_run: the command runs, and its event is stored whatever came of
\* it; a storage failure is chained beneath the command's own exception.
Observed(phase, outcome, lost) ==
  /\ losses + (IF lost THEN 1 ELSE 0) <= MaxLosses
  /\ losses' = losses + (IF lost THEN 1 ELSE 0)
  /\ events' = Append(events, [phase |-> phase, error |-> outcome # "ok"])
  /\ IF lost THEN UNCHANGED <<store, cur>>
     ELSE /\ store' = store \union {File(phase)}
          /\ cur' = [cur EXCEPT !.evidence = Append(@, File(phase))]
  /\ err' = CASE outcome # "ok" -> Error(outcome, lost, "parse")
              [] outcome = "ok" /\ lost -> Error("evidence", FALSE, "parse")
              [] OTHER -> NoError

\* parse_source, phase 1; the language may be refused before it.
ParsePhase ==
  /\ Running /\ pc = "parse"
  /\ parsed' = [parsed EXCEPT ![Order[at]][side] = trees[Order[at]][side]]
  /\ \/ /\ \E outcome \in {"ok", "process", "timeout"}, lost \in BOOLEAN :
             Observed("parse", outcome, lost)
        /\ pc' = IF err' = NoError THEN "export" ELSE "retain"
     \/ /\ err' = Error("launch", FALSE, "parse") /\ pc' = "retain"
        /\ UNCHANGED <<cur, events, store, losses>>
  /\ UNCHANGED <<at, side, rec, exit>> /\ Frame

\* parse_source, phase 2, and the export it must have left.
ExportPhase ==
  /\ Running /\ pc = "export"
  /\ \E outcome \in {"ok", "process", "timeout"}, lost, missing \in BOOLEAN :
       /\ Observed("export", outcome, lost)
       /\ pc' = IF err' = NoError /\ missing THEN "missing" ELSE "retain"
  /\ UNCHANGED <<at, side, rec, parsed, exit>> /\ Frame

ExportMissing ==
  /\ Running /\ pc = "missing"
  /\ err' = Error("export", FALSE, "parse") /\ pc' = "retain"
  /\ UNCHANGED <<at, side, cur, events, rec, store, parsed, exit, losses>> /\ Frame

\* _retain_parse_outputs, in the finally of the parse: what the front end left
\* is stored, also after a failure, and a failure of that is chained too.
Retain ==
  /\ Running /\ pc = "retain"
  /\ \E lost \in BOOLEAN :
       /\ losses + (IF lost THEN 1 ELSE 0) <= MaxLosses
       /\ losses' = losses + (IF lost THEN 1 ELSE 0)
       /\ IF lost
          THEN /\ err' = IF err = NoError THEN Error("evidence", FALSE, "parse")
                         ELSE [err EXCEPT !.chained = TRUE]
               /\ UNCHANGED <<store, cur>>
          ELSE /\ store' = store \union {File("outputs")}
               /\ cur' = [cur EXCEPT !.evidence = Append(@, File("outputs"))]
               /\ UNCHANGED err
       /\ pc' = IF err' = NoError THEN "map" ELSE "failed"
  /\ UNCHANGED <<at, side, events, rec, parsed, exit>> /\ Frame

\* The export is read again and mapped; a side without a locator is complete.
Map ==
  /\ Running /\ pc = "map"
  /\ \/ /\ err' = Error("map", FALSE, "parse") /\ pc' = "failed"
        /\ UNCHANGED <<cur, store>>
     \/ /\ store' = store \union {File("mapped")}
        /\ cur' = [cur EXCEPT !.evidence = Append(@, File("mapped")),
                              !.status = IF Cases[Order[at]].located[side] THEN @ ELSE "completed",
                              !.reason = Cases[Order[at]].located[side]]
        /\ pc' = IF Cases[Order[at]].located[side] THEN "locate" ELSE "complete"
        /\ UNCHANGED err
  /\ UNCHANGED <<at, side, events, rec, parsed, exit, losses>> /\ Frame

\* locate_observed_call: one callee token on the locked line, as locked, and
\* one raw call with one mapped node; bindings gives, for each raw call at
\* that place, the number of mapped nodes that agree with it.
LocateObservedCall(tokens, asLocked, bindings) ==
  LET bound == Cardinality({i \in DOMAIN bindings : bindings[i] = 1})
  IN CASE tokens > 1 -> "ambiguous"
       [] tokens = 0 \/ (tokens = 1 /\ ~asLocked) -> "not_found"
       [] tokens = 1 /\ asLocked /\ (\E i \in DOMAIN bindings : bindings[i] > 1) -> "ambiguous"
       [] OTHER -> CASE bound = 1 -> "matched" [] bound = 0 -> "not_found" [] OTHER -> "ambiguous"

Locate ==
  /\ Running /\ pc = "locate"
  /\ \E tokens \in 0 .. 2, asLocked \in BOOLEAN, bindings \in [1 .. 2 -> 0 .. 2] :
       LET found == LocateObservedCall(tokens, asLocked, bindings)
       IN IF found = "matched"
          THEN /\ store' = store \union {File("correspondence")}
               /\ cur' = [cur EXCEPT !.evidence = Append(@, File("correspondence")),
                                     !.locator = "matched"]
               /\ pc' = "fingerprint" /\ UNCHANGED err
          ELSE /\ err' = Error(found, FALSE, "locate") /\ pc' = "failed"
               /\ UNCHANGED <<store, cur>>
  /\ UNCHANGED <<at, side, events, rec, parsed, exit, losses>> /\ Frame

Fingerprint ==
  /\ Running /\ pc = "fingerprint"
  /\ \/ \E kind \in {"other", "timeout"} :
          /\ err' = Error(kind, FALSE, "fingerprint") /\ pc' = "failed"
          /\ UNCHANGED <<store, cur>>
     \/ \E hash \in Hashes, class \in {"strong", "weak"} :
          /\ store' = store \union {File("fingerprint")}
          /\ cur' = [cur EXCEPT !.evidence = Append(@, File("fingerprint")),
                                !.fingerprint = [hash |-> hash, class |-> class, namespace |-> "v2"],
                                !.status = "completed", !.reason = FALSE]
          /\ pc' = "complete" /\ UNCHANGED err
  /\ UNCHANGED <<at, side, events, rec, parsed, exit, losses>> /\ Frame

\* A storage failure is looked for everywhere beneath the exception.
HasEvidenceStoreError_TopOnly(e) == e.kind = "evidence"

HasEvidenceStoreError(e) == e.kind = "evidence" \/ e.chained

\* The stage reached, and the one observed: a failure between "parse" and
\* "locate" is the parser's only when the parse command itself reported it.
ObservedStage(e) ==
  IF e.stage # "parse" THEN e.stage
  ELSE IF events # << >> /\ Last(events).error THEN Last(events).phase
  ELSE "frontend-launch-output-or-map"

SideError(e) ==
  IF e.kind = "timeout" THEN "timeout"
  ELSE IF e.stage = "parse" /\ ObservedStage(e) # "parse" THEN "none"
  ELSE e.stage

\* The except of _process_side: lost evidence ends the campaign, anything else
\* is this side's failure.
SideFailed ==
  /\ Running /\ pc = "failed"
  /\ IF HasEvidenceStoreError(err)
     THEN /\ End("1") /\ UNCHANGED <<at, side, cur, events, err, rec, store, parsed, losses>>
     ELSE /\ cur' = [cur EXCEPT !.status = "failed", !.reason = TRUE,
                                !.fingerprint = NoFingerprint,
                                !.locator = IF err.kind \in {"not_found", "ambiguous"}
                                            THEN err.kind ELSE @,
                                !.error = SideError(err),
                                !.evidence = Append(@, File("error"))]
          /\ store' = store \union {File("error")} /\ pc' = "complete"
          /\ UNCHANGED <<at, side, events, err, rec, parsed, exit, losses>>
  /\ Frame

\* The source must still be the one that was attempted.
CompleteSide ==
  /\ Running /\ pc = "complete"
  /\ IF trees[Order[at]][side] = "locked"
     THEN /\ store' = store \union {File("completion")}
          /\ rec' = [rec EXCEPT ![Order[at]].side[side] =
                       [cur EXCEPT !.evidence = Append(@, File("completion"))]]
          /\ side' = IF side = "before" THEN "after" ELSE side
          /\ pc' = IF side = "before" THEN "side" ELSE "pair"
          /\ cur' = UnrunSide /\ events' = << >> /\ err' = NoError
          /\ UNCHANGED <<at, parsed, exit, losses>>
     ELSE Refuse
  /\ Frame

(***************************************************************************)
(* The pair, the checkpoint and the end of run_campaign.                   *)
(***************************************************************************)
Pair ==
  /\ Running /\ pc = "pair"
  /\ LET locators == {rec[Order[at]].side[s].locator : s \in Sides}
         proof == <<Order[at], "", "pair-correspondence">>
     IN IF locators = {"matched"}
        THEN /\ store' = store \union {proof}
             /\ rec' = [rec EXCEPT ![Order[at]].correspondence =
                          [status |-> "established", evidence |-> <<proof>>]]
        ELSE /\ rec' = IF "ambiguous" \in locators
                       THEN [rec EXCEPT ![Order[at]].correspondence =
                               [status |-> "ambiguous", evidence |-> << >>]]
                       ELSE rec
             /\ UNCHANGED store
  /\ pc' = "checkpoint"
  /\ UNCHANGED <<at, side, cur, events, err, parsed, exit, losses>> /\ Frame

Checkpoint ==
  /\ Running /\ pc = "checkpoint"
  /\ store' = store \union {<<Order[at], "", "checkpoint">>}
  /\ at' = at + 1 /\ side' = "before" /\ pc' = "side"
  /\ UNCHANGED <<cur, events, err, rec, parsed, exit, losses>> /\ Frame

\* Corpus and code are observed again, and the report must validate.
Validate ==
  /\ Running /\ pc = "side" /\ at > Len(Order)
  /\ IF Corpus /\ RuntimeObserved /\ ReportOk(Report, Cases, store)
     THEN /\ pc' = "publish"
          /\ UNCHANGED <<at, side, cur, events, err, rec, store, parsed, exit, losses>>
     ELSE Refuse
  /\ Frame

Publish ==
  /\ Running /\ pc = "publish"
  /\ store' = store \union {Global("report")} /\ pc' = "gate"
  /\ UNCHANGED <<at, side, cur, events, err, rec, parsed, exit, losses>> /\ Frame

\* check_files reads everything again for the baseline gate; the gate's own
\* verdict is recorded and does not change the exit status.
Gate ==
  /\ Running /\ pc = "gate"
  /\ IF Corpus /\ ReportOk(Report, Cases, store)
     THEN /\ store' = store \union {Global("gates")} /\ End("0")
          /\ UNCHANGED <<at, side, cur, events, err, rec, parsed, losses>>
     ELSE Refuse
  /\ Frame

(***************************************************************************)
(* The controller: it runs docker commands one by one, keeps each one's    *)
(* output, and acts on the container it created only.                      *)
(***************************************************************************)
ControllerEnds(status) == ctl' = "ended" /\ result' = status

\* A host: GiB of memory and disk, processors, the user, the image, the checkout.
Hosts == [memory : {5, 6}, disk : {19, 20}, cpus : {1, 2}, uid : {0, 1000},
          imageExact : BOOLEAN, dirty : BOOLEAN]

RequireResources(h) == h.memory >= 6 /\ h.disk >= 20 /\ h.cpus >= 2
CleanCheckout(h) == ~h.dirty
ContainerCommand(h) == h.imageExact /\ h.uid > 0

\* run_container before the first command; without --execute it prints its plan.
Prepare ==
  /\ ctl = "prepare"
  /\ \E h \in Hosts, execute \in BOOLEAN :
       IF RequireResources(h) /\ CleanCheckout(h) /\ ContainerCommand(h)
       THEN IF execute
            THEN ctl' = "create" /\ kept' = {"controller-context"} /\ UNCHANGED result
            ELSE ControllerEnds("plan") /\ UNCHANGED kept
       ELSE ControllerEnds("2") /\ UNCHANGED kept
  /\ UNCHANGED <<runner, world, selected, box, watchdog, seen, calls>>

\* A command or the storing of its event fails, or the container inspected is
\* not the one created; what docker did stays done.
CallFails ==
  /\ ctl \notin {"prepare", "ended"} /\ calls < MaxCalls /\ calls' = calls + 1
  /\ box' \in CASE ctl = "create" -> {box, "created"}
                [] ctl = "start" -> {box, "running"}
                [] ctl = "stop" -> {box, "stopped"}
                [] ctl = "rm" -> {box, "removed"}
                [] OTHER -> {box}
  /\ \E status \in {"1", "2"} : ControllerEnds(status)
  /\ UNCHANGED <<runner, world, selected, watchdog, seen, kept>>

Create ==
  /\ ctl = "create" /\ box' = "created" /\ kept' = kept \union {"container-id"}
  /\ ctl' = "start"
  /\ UNCHANGED <<runner, world, selected, watchdog, seen, result, calls>>

Start ==
  /\ ctl = "start" /\ box' = "running" /\ ctl' = "inspect"
  /\ UNCHANGED <<runner, world, selected, watchdog, seen, kept, result, calls>>

\* One round of the loop: the container has stopped, or the ceiling or the
\* disk reserve is reached, or it sleeps and inspects again.
Inspect ==
  /\ ctl = "inspect" /\ seen' = box
  /\ \/ box # "running" /\ ctl' = "logs" /\ UNCHANGED watchdog
     \/ box = "running" /\ watchdog' = TRUE /\ ctl' = "stop"
     \/ box = "running" /\ UNCHANGED <<watchdog, ctl>>
  /\ UNCHANGED <<runner, world, selected, box, kept, result, calls>>

\* docker stop gives ten seconds and kills.
Stop ==
  /\ ctl = "stop" /\ box' \in {box, "stopped"} /\ ctl' = "reinspect"
  /\ UNCHANGED <<runner, world, selected, watchdog, seen, kept, result, calls>>

Reinspect ==
  /\ ctl = "reinspect" /\ seen' = box /\ ctl' = "logs"
  /\ UNCHANGED <<runner, world, selected, box, watchdog, kept, result, calls>>

Logs ==
  /\ ctl = "logs" /\ kept' = kept \union {"logs", "container-final", "controller-final"}
  /\ IF seen = "running" THEN ControllerEnds("2") ELSE ctl' = "rm" /\ UNCHANGED result
  /\ UNCHANGED <<runner, world, selected, box, watchdog, seen, calls>>

\* A runner that was killed before it ended exits with a signal's status.
ExitCode == IF exit = "none" THEN "killed" ELSE exit

RemoveContainer ==
  /\ ctl = "rm" /\ box' = "removed"
  /\ ControllerEnds(IF watchdog THEN "2" ELSE ExitCode)
  /\ UNCHANGED <<runner, world, selected, watchdog, seen, kept, calls>>

\* The container stops when its process has ended.
ContainerExits ==
  /\ box = "running" /\ exit # "none" /\ box' = "stopped"
  /\ UNCHANGED <<runner, world, selected, controller>>

Run ==
  \/ Open \/ Skip \/ StartSide \/ ParsePhase \/ ExportPhase \/ ExportMissing \/ Retain
  \/ Map \/ Locate \/ Fingerprint \/ SideFailed \/ CompleteSide \/ Pair \/ Checkpoint
  \/ Validate \/ Publish \/ Gate

Control == Prepare \/ Create \/ Start \/ Inspect \/ Stop \/ Reinspect \/ Logs \/ RemoveContainer

Next == Change \/ Lose \/ LoseInside \/ Run \/ CallFails \/ Control \/ ContainerExits

Spec == Init /\ [][Next]_vars

(***************************************************************************)
(* Properties.                                                             *)
(***************************************************************************)

\* The runner and the checker agree: however the sides ended, the report that
\* run_campaign built is one that validate_report accepts, and a side says
\* that it failed in the parser only if the parse command itself failed.
ReportIsAccepted ==
  /\ Running /\ pc = "side" /\ at > Len(Order) => ReportOk(Report, Cases, store)
  /\ pc = "complete" /\ cur.error = "parse" =>
       Last(events) = [phase |-> "parse", error |-> TRUE]

\* A campaign that exits with 0 lost no evidence, wrote a report and its gates,
\* attempted both sides of every selected case on the locked sources and kept
\* every file that its records name; and the controller exits with 0 only for
\* such a campaign, with its logs kept and its container removed.
CampaignIsTruthful ==
  /\ exit = "0" =>
       /\ losses = 0 /\ {Global("report"), Global("gates")} \subseteq store
       /\ \A c \in selected : Attempted(rec[c])
       /\ \A c \in selected, s \in Sides :
            /\ parsed[c][s] = "locked"
            /\ ToSet(rec[c].side[s].evidence) \subseteq store
  /\ result = "0" =>
       /\ exit = "0" /\ box = "removed"
       /\ {"controller-context", "container-id", "logs", "controller-final"} \subseteq kept
=============================================================================
