---------------------------- MODULE RefactorChecks ----------------------------
(***************************************************************************)
(* The refactoring report gate (scripts/check_refactor_report.py) and the  *)
(* comparison harness that preceded it                                     *)
(* (scripts/validate_refactor_fingerprints.py), as operators.              *)
(*                                                                         *)
(* A digest, a path and an identifier are compared for equality only, so   *)
(* they are members of small sets; an optional value that is absent is     *)
(* "none".  An evidence file is its name, and the files under the evidence *)
(* root whose bytes still have their recorded digest are a set of names.   *)
(***************************************************************************)
EXTENDS Integers, Sequences, FiniteSets, SequencesExt, FiniteSetsExt

Sides == {"before", "after"}
Statuses == {"completed", "failed", "not_run"}
EvidenceTypes == {"structural_comparison", "finding_removal", "analysis_failure"}
ErrorStages == {"parse", "locate", "fingerprint", "detect", "timeout"}

(***************************************************************************)
(* The policy and the corpus.                                              *)
(***************************************************************************)

\* Acceptance demands a fresh, uncached execution; the baseline is not also
\* an accepted improvement, and no improvement is named twice.
ValidatePolicy(p) ==
  /\ p.required # {} /\ p.namespaces # {} /\ p.kinds # {} /\ p.roles # {}
  /\ p.kinds \subseteq {"real_joern", "controlled_fixture", "historical"}
  /\ p.freshness = "fresh" /\ p.cache = "disabled"
  /\ IsInjective(p.improvements)
  /\ p.baseline \notin ToSet(p.improvements)

\* What the manifest may demand of a case of each evidence type.
ContractOk(c) ==
  /\ c.kind \in EvidenceTypes
  /\ c.language \in {"java", "python"}
  /\ {"fixture_syntax", "transformation_validation"} \subseteq DOMAIN c.demands
  /\ \/ /\ c.kind = "structural_comparison"
        /\ c.outcome \in {"stay", "flip"}
        /\ c.located["after"]
     \/ /\ c.kind = "finding_removal"
        /\ c.outcome = "absent"
        /\ ~c.located["after"]
     \/ /\ c.kind = "analysis_failure"
        /\ c.outcome = "failure"
        /\ ~c.located["after"]

\* The lock, the manifest, the annotations and every source tree still have
\* the digests that the policy binds, and the manifest has the policy's cases.
LoadCorpus(policy, cases, lock, trees) ==
  /\ lock = "locked"
  /\ DOMAIN cases = policy.required
  /\ \A c \in DOMAIN cases :
       /\ ContractOk(cases[c])
       /\ \A s \in Sides : trees[c][s] = "locked"

(***************************************************************************)
(* One report: its run, its case sides and its cases.                      *)
(***************************************************************************)

\* Every reference is to a file that is there with its digest, once.
EvidenceOk(refs, store) ==
  /\ IsInjective(refs)
  /\ ToSet(refs) \subseteq store

\* The run is well formed, eligible under the policy, and has an environment
\* with every role the policy asks for.
RunOk(run, store) ==
  /\ run.started <= run.completed /\ run.completed <= run.now
  /\ \/ run.manifest = "none" /\ run.roles = {}
     \/ run.manifest \in store /\ run.digestOk

RunEligible(run, policy, historical) ==
  /\ run.kind \in policy.kinds
  /\ run.freshness = policy.freshness
  /\ run.cache = policy.cache
  /\ historical \/ run.now - run.completed <= policy.maxAge

EnvironmentEligible(run, policy) ==
  /\ run.manifest # "none"
  /\ policy.roles \subseteq run.roles

NoFingerprint == [hash |-> "none", class |-> "none", namespace |-> "none"]
NoFinding == [status |-> "not_run", id |-> "none", rule |-> "none"]
NoScan == [status |-> "not_run", id |-> "none", files |-> {}, rules |-> {},
           skipped |-> {}, failed |-> {}]

SideOk_EvidenceOptional(r, case, side, store) ==
  /\ r.digest = "locked" /\ r.status \in Statuses
  /\ r.status = "completed" \/ r.reason
  /\ r.fingerprint # NoFingerprint => r.status = "completed" /\ r.locator = "matched"
  /\ r.finding.status \in {"present", "absent"} =>
       r.scan.status = "completed" /\ r.status = "completed"
  /\ EvidenceOk(r.evidence, store)

\* A recorded side: what it may claim follows from how far it came, and what
\* it claims needs evidence that is still there.
SideOk(r, case, side, store) ==
  /\ r.digest = "locked"
  /\ r.status \in Statuses
  /\ r.status = "completed" \/ r.reason
  /\ r.locator \in {"matched", "not_found", "ambiguous", "not_run"}
  /\ r.locator = "matched" => case.located[side]
  /\ r.fingerprint # NoFingerprint =>
       /\ r.fingerprint.class \in {"strong", "weak"}
       /\ r.status = "completed" /\ r.locator = "matched"
  /\ IF r.finding.status = "present"
     THEN r.finding.id # "none" /\ r.finding.rule # "none"
     ELSE r.finding.id = "none"
  /\ r.scan.status \in Statuses
  /\ (r.scan.status = "not_run") = (r.scan.id = "none")
  /\ r.finding.status \in {"present", "absent"} =>
       r.scan.status = "completed" /\ r.status = "completed"
  /\ r.error # "none" => r.error \in ErrorStages /\ r.status = "failed"
  /\ EvidenceOk(r.evidence, store)
  /\ \/ r.evidence # << >>
     \/ /\ r.fingerprint = NoFingerprint /\ r.finding.status = "not_run"
        /\ r.scan.status = "not_run" /\ r.error = "none"

\* A lifecycle decision links the two observations it was taken from.
LifecycleOk(rec, store) ==
  rec.lifecycle.state = "none"
    \/ /\ rec.lifecycle.state \in {"resolved", "open"}
       /\ rec.lifecycle.reason \in {"fixed", "analysis_failed"}
       /\ rec.lifecycle.finding # "none" /\ rec.lifecycle.scan # "none"
       /\ rec.lifecycle.finding = rec.side["before"].finding.id
       /\ rec.lifecycle.scan = rec.side["after"].scan.id
       /\ rec.lifecycle.evidence # << >>
       /\ EvidenceOk(rec.lifecycle.evidence, store)

CaseOk(rec, case, store) ==
  /\ rec.kind = case.kind
  /\ \A s \in Sides : SideOk(rec.side[s], case, s, store)
  /\ DOMAIN rec.observed = DOMAIN case.demands
  /\ \A d \in DOMAIN rec.observed :
       /\ EvidenceOk(rec.observed[d].evidence, store)
       /\ (rec.observed[d].status = "not_run") = (rec.observed[d].evidence = << >>)
  /\ rec.correspondence.status \in {"established", "ambiguous", "not_run"}
  /\ EvidenceOk(rec.correspondence.evidence, store)
  /\ rec.correspondence.status = "established" => rec.correspondence.evidence # << >>
  /\ LifecycleOk(rec, store)

\* stay or flip, when both sides have a strong identity of one accepted
\* namespace; "none" otherwise.
StructuralOutcome(rec, policy) ==
  LET left == rec.side["before"].fingerprint
      right == rec.side["after"].fingerprint
  IN IF /\ left # NoFingerprint /\ right # NoFingerprint
        /\ left.class = "strong" /\ right.class = "strong"
        /\ left.namespace = right.namespace
        /\ left.namespace \in policy.namespaces
     THEN IF left.hash = right.hash THEN "stay" ELSE "flip"
     ELSE "none"

\* The finding was there before, at its place, in a scan that covered it.
PreviouslyFound(b, case) ==
  /\ b.status = "completed" /\ b.finding.status = "present"
  /\ b.scan.status = "completed" /\ b.locator = "matched"
  /\ case.file \in b.scan.files \ (b.scan.skipped \union b.scan.failed)
  /\ b.finding.rule \in b.scan.rules

RemovalObserved(rec, case) ==
  LET b == rec.side["before"]  a == rec.side["after"]
  IN /\ PreviouslyFound(b, case)
     /\ a.scan.status = "completed"
     /\ a.scan.files = case.afterFiles
     /\ b.finding.rule \in a.scan.rules
     /\ a.scan.skipped = {} /\ a.scan.failed = {}
     /\ a.status = "completed" /\ a.finding.status = "absent"
     /\ a.finding.rule = b.finding.rule
     /\ rec.lifecycle.state = "resolved" /\ rec.lifecycle.reason = "fixed"
     /\ ~rec.lifecycle.inherited

FailureObserved(rec, case) ==
  LET a == rec.side["after"]
  IN /\ PreviouslyFound(rec.side["before"], case)
     /\ a.status = "failed" /\ a.scan.status = "failed" /\ a.error = "parse"
     /\ rec.lifecycle.state = "open" /\ rec.lifecycle.reason = "analysis_failed"
     /\ ~rec.lifecycle.inherited

PreconditionsOk(rec, case) ==
  \A d \in DOMAIN case.demands : rec.observed[d].status = case.demands[d]

Passed(rec, case, policy, eligible) ==
  /\ CASE case.kind = "structural_comparison" ->
            /\ StructuralOutcome(rec, policy) = case.outcome
            /\ rec.correspondence.status = "established"
       [] case.kind = "finding_removal" -> RemovalObserved(rec, case)
       [] OTHER -> FailureObserved(rec, case)
  /\ PreconditionsOk(rec, case)
  /\ eligible

Attempted(rec) ==
  \A s \in Sides : /\ rec.side[s].status \in {"completed", "failed"}
                   /\ rec.side[s].evidence # << >>

Cell(case) == <<case.language, case.kind, case.outcome>>

\* The verdict of one case: it passed, and it may belong to a baseline.
Verdict(rec, case, policy, eligible, baseline) ==
  [passed |-> Passed(rec, case, policy, eligible),
   cell |-> Cell(case),
   baseline |-> baseline /\ (Attempted(rec) \/ ~policy.requiresAttempts)]

\* What validate_report demands of a whole report before it gives verdicts.
ReportOk(report, cases, store) ==
  /\ report.policyDigest = "current"
  /\ DOMAIN report.cases = DOMAIN cases
  /\ RunOk(report.run, store)
  /\ \A c \in DOMAIN cases : CaseOk(report.cases[c], cases[c], store)

Verdicts(report, policy, cases, historical) ==
  LET run == RunEligible(report.run, policy, historical)
      env == EnvironmentEligible(report.run, policy)
  IN [c \in DOMAIN cases |->
        Verdict(report.cases[c], cases[c], policy, run /\ env, run)]

(***************************************************************************)
(* The gate.  A verdict list is a function from cases to verdicts.         *)
(***************************************************************************)

PassedCases(v) == {c \in DOMAIN v : v[c].passed}
PassedIn(v, cell) == Cardinality({c \in PassedCases(v) : v[c].cell = cell})
CellsOf(v) == {v[c].cell : c \in DOMAIN v}

RegressedCases_Baseline(current, references) ==
  {c \in DOMAIN current : references # << >> /\ references[1][c].passed /\ ~current[c].passed}

\* Cases that some protected report passed, and cells with fewer passes than
\* in one of them.
RegressedCases(current, references) ==
  {c \in DOMAIN current :
     \E r \in ToSet(references) : r[c].passed /\ ~current[c].passed}

RegressedCells(current, references) ==
  {cell \in UNION {CellsOf(r) : r \in ToSet(references)} :
     \E r \in ToSet(references) : PassedIn(current, cell) < PassedIn(r, cell)}

\* Every protected report has the current inventory and no cell of its own.
HistoryOk(current, references) ==
  \A r \in ToSet(references) :
    /\ DOMAIN r = DOMAIN current
    /\ \A c \in PassedCases(r) : r[c].cell \in CellsOf(current)

\* The gate of one mode over verdicts that validated.
Evaluate(mode, current, references) ==
  LET eligible == \A c \in DOMAIN current : current[c].baseline
      all == PassedCases(current) = DOMAIN current
  IN /\ eligible
     /\ \/ mode = "baseline"
        \/ /\ RegressedCases(current, references) = {}
           /\ RegressedCells(current, references) = {}
           /\ mode = "nonregression" \/ all

\* check_files for a gate that protects history: the improvements supplied are
\* the pinned ones, and every protected report could have been a baseline.
CheckFiles(mode, policy, candidate, expected, current, supplied, references) ==
  /\ mode # "baseline" => expected # "none"
  /\ expected # "none" => candidate.run.revision = expected
  /\ IF mode = "baseline" THEN supplied = << >>
     ELSE /\ policy.baseline # "none" /\ Len(supplied) > 0
          /\ supplied[1] = policy.baseline
          /\ IsInjective(Tail(supplied))
          /\ ToSet(Tail(supplied)) = ToSet(policy.improvements)
          /\ \A r \in ToSet(references) : \A c \in DOMAIN r : r[c].baseline
  /\ HistoryOk(current, references)
  /\ Evaluate(mode, current, references)

(***************************************************************************)
(* The earlier harness.  Trees are parsed through a cache keyed by tree    *)
(* and language; a scratch directory is named after the cache's size, so   *)
(* an attempt that failed leaves its export for the next one.  A parse     *)
(* result is: the front end fails before or after it writes the export, or *)
(* it succeeds, and then the mapper may refuse the export.                 *)
(***************************************************************************)

\* The front end writes the export of the tree it was given, or fails.
EmptyHarness == [cache |-> << >>, export |-> << >>]

ParseTree(h, key, result) ==
  LET dir == Cardinality(DOMAIN h.cache)
      wrote == [d \in DOMAIN h.export \union {dir} |->
                  IF d = dir THEN key ELSE h.export[d]]
  IN CASE key \in DOMAIN h.cache -> [harness |-> h, cpg |-> h.cache[key], ok |-> TRUE]
       [] key \notin DOMAIN h.cache /\ result = "fails" ->
            [harness |-> h, cpg |-> key, ok |-> FALSE]
       [] key \notin DOMAIN h.cache /\ result = "unmapped" ->
            [harness |-> [h EXCEPT !.export = wrote], cpg |-> key, ok |-> FALSE]
       [] OTHER ->
            [harness |-> [cache |-> [k \in DOMAIN h.cache \union {key} |->
                                       IF k = key THEN wrote[dir] ELSE h.cache[k]],
                          export |-> wrote],
             cpg |-> wrote[dir], ok |-> TRUE]

\* The declared file, or the only file of the directory when it was renamed;
\* a locator that names the file is no hint, and has no fallback.
ResolveSourceFile(files, declared, explicit) ==
  CASE declared \in files -> declared
    [] declared \notin files /\ ~explicit /\ Cardinality(files) = 1 ->
         CHOOSE f \in files : TRUE
    [] OTHER -> "none"

ExpectedOutcome(label) == IF label = "should-stay" THEN "stayed" ELSE "flipped"

\* evaluate_pair: two fingerprints that were computed, or no verdict and the
\* first reason why not.  fp is the fingerprinter on a parsed tree: an
\* identity, NoFingerprint where it finds no sink, or one of class "error".
EvaluatePair(pair, h, fp) ==
  LET before == ParseTree(h, pair.before, pair.parses["before"])
      after == ParseTree(before.harness, pair.after, pair.parses["after"])
      left == fp[before.cpg]
      right == fp[after.cpg]
      checks == <<
        <<ResolveSourceFile(pair.beforeFiles, pair.declared, FALSE) = "none",
          "before-source-missing", h>>,
        <<ResolveSourceFile(pair.afterFiles, pair.declared, pair.explicit) = "none",
          "after-source-missing", h>>,
        <<~pair.tokenDerived, "sink-token-underivable", h>>,
        <<pair.candidates # 1, "sink-not-located", h>>,
        <<~before.ok \/ left.class = "error", "before-fingerprint-error", before.harness>>,
        <<~after.ok \/ right.class = "error", "after-fingerprint-error", after.harness>>,
        <<left = NoFingerprint, "no-fingerprint-before", after.harness>>,
        <<right = NoFingerprint, "no-fingerprint-after", after.harness>> >>
      failing == {i \in DOMAIN checks : checks[i][1]}
  IN IF failing # {}
     THEN [harness |-> checks[Min(failing)][3], outcome |-> "unevaluated",
           why |-> checks[Min(failing)][2], of |-> << >>, validity |-> "none",
           expected |-> ExpectedOutcome(pair.label)]
     ELSE [harness |-> after.harness,
           outcome |-> IF left.hash = right.hash THEN "stayed" ELSE "flipped",
           why |-> "none", of |-> <<before.cpg, after.cpg>>,
           validity |-> IF left.class = "strong" /\ right.class = "strong"
                        THEN "strong" ELSE "weak",
           expected |-> ExpectedOutcome(pair.label)]

\* evaluate_pairs: in order, with one harness; a failing pair stops nothing.
EvaluatePairs(pairs, fp) ==
  LET step(results, pair) ==
        Append(results,
               EvaluatePair(pair, IF results = << >> THEN EmptyHarness
                                  ELSE Last(results).harness, fp))
  IN FoldLeft(step, << >>, pairs)

\* build_report's totals.
Tally(results) ==
  LET count(P(_)) == Cardinality({i \in DOMAIN results : P(results[i])})
  IN [pairs |-> Len(results),
      unevaluated |-> count(LAMBDA r : r.outcome = "unevaluated"),
      stayed |-> count(LAMBDA r : r.outcome = "stayed"),
      flipped |-> count(LAMBDA r : r.outcome = "flipped"),
      asExpected |-> count(LAMBDA r : r.outcome = r.expected),
      contrary |-> count(LAMBDA r : r.outcome \notin {"unevaluated", r.expected}),
      strong |-> count(LAMBDA r : r.validity = "strong")]

(***************************************************************************)
(* Properties of the pure parts.                                           *)
(***************************************************************************)

\* The gate is a ratchet (evaluate): a report that passes it still passes
\* every case that any protected report passed, acceptance implies
\* non-regression implies the baseline, and a report that passed goes on
\* passing once it is itself part of the protected history.
GateIsARatchet(current, references) ==
  LET gate(mode, refs) == Evaluate(mode, current, refs)
  IN /\ gate("nonregression", references) =>
          /\ \A r \in ToSet(references) : PassedCases(r) \subseteq PassedCases(current)
          /\ gate("nonregression", Append(references, current))
     /\ gate("acceptance", references) => gate("nonregression", references)
     /\ gate("nonregression", references) => gate("baseline", references)

\* A case that passes in a valid report rests on evidence for both of its
\* sides, for every precondition and for what links them, and on each of those
\* files: without any one of them the report is no longer valid
\* (_side, _case, _evidence).
PassIsTraceable(r, case, policy, store) ==
  CaseOk(r, case, store) /\ Passed(r, case, policy, TRUE) =>
    LET lists == {r.side[s].evidence : s \in Sides}
                   \union {r.observed[d].evidence : d \in DOMAIN case.demands}
                   \union {IF case.kind = "structural_comparison"
                           THEN r.correspondence.evidence ELSE r.lifecycle.evidence}
    IN \A list \in lists :
         /\ list # << >>
         /\ \A file \in ToSet(list) : ~CaseOk(r, case, store \ {file})

\* Whatever fails on the way and whatever a failed attempt leaves in a scratch
\* directory that is used again, a stayed or flipped verdict of the harness is
\* of two fingerprints computed from the pair's own trees, a pair without two
\* of them is tallied as no result, and the totals add up
\* (evaluate_pair, RealFingerprinter._parse, build_report).
VerdictsAreComputed(pairs, fp) ==
  LET results == EvaluatePairs(pairs, fp)
      t == Tally(results)
  IN /\ \A i \in DOMAIN results :
          results[i].outcome # "unevaluated" =>
            /\ results[i].of = <<pairs[i].before, pairs[i].after>>
            /\ NoFingerprint \notin {fp[pairs[i].before], fp[pairs[i].after]}
     /\ t.pairs = t.unevaluated + t.stayed + t.flipped
     /\ t.stayed + t.flipped = t.asExpected + t.contrary
     /\ t.strong <= t.stayed + t.flipped
=============================================================================
