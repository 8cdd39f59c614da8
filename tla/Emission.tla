------------------------------ MODULE Emission ------------------------------
(***************************************************************************)
(* From a detector's run to an attested SARIF log: the worker stamps the   *)
(* findings of a core solver or of an oracle adapter, the Semgrep adapter  *)
(* maps a report to findings, the emitter validates, projects, sorts and   *)
(* re-validates them, and the attestor compares two runs.                  *)
(*                                                                         *)
(* A function that may raise yields Raises(kind) or Yields(value).  A      *)
(* digest, a rule, a URI, a line and a text are numbers: 0 is a null or    *)
(* blank one.  A null name is "none" and a blank one "".                   *)
(***************************************************************************)
EXTENDS Integers, Sequences, FiniteSets, SequencesExt

CONSTANT Bytes(_)          \* the rank of a result's canonical serialisation, which is injective

Raises(kind) == [raised |-> kind, value |-> <<>>]
Yields(value) == [raised |-> "nothing", value |-> value]
Returned(outcome) == outcome.raised = "nothing"

-----------------------------------------------------------------------------
(* Artifact identities (artifact_identity.py).                             *)

MalformedDigest == 9
GRAPH_V2 == "scanipy-canonical-graph/2"
SLICE_V2 == "scanipy-slice-normal-form/2"
STATES == {"completed", "pending", "running", "failed", "not-applicable", "legacy-ambiguous"}
Identity(status, digest, class, namespace) ==
    [status |-> status, digest |-> digest, class |-> class, namespace |-> namespace]
Legacy(digest) == Identity("legacy-ambiguous", digest, "none", "none")

IdentityOk(i) ==
    /\ i.status \in STATES
    /\ i.digest # MalformedDigest
    /\ IF i.status = "completed"
       THEN i.digest # 0 /\ i.class \in {"strong", "weak"} /\ i.namespace \notin {"none", ""}
       ELSE /\ i.class = "none" /\ i.namespace = "none"
            /\ i.status = "legacy-ambiguous" \/ i.digest = 0

\* The graph's identity and the slice's; a version-1 finding asserts no class of its own.
IdentitiesOf(f) == IF f.version = 1 THEN <<Legacy(f.graph.digest), Legacy(f.slice.digest)>> ELSE <<f.graph, f.slice>>
IdentitiesOk(f) == f.version \in {1, 2} /\ \A i \in 1 .. 2 : IdentityOk(IdentitiesOf(f)[i])

BothStrong(ids) ==
    /\ \A i \in 1 .. 2 : ids[i].status = "completed" /\ ids[i].class = "strong"
    /\ ids[1].namespace = GRAPH_V2 /\ ids[2].namespace = SLICE_V2
HasStrongIdentities(f) == IdentitiesOk(f) /\ BothStrong(IdentitiesOf(f))

-----------------------------------------------------------------------------
(* Validation and projection of one finding (canonical_emit.py).           *)

Core == "deterministic-core"
Oracle == "oracle-passthrough"
ORIGINS == {Core, Oracle}
ENGINES == {"ifds", "ide", "semgrep", "cpg-query", "external"}
CORE_ENGINES == {"ifds", "ide"}
SEVERITIES == {"info", "low", "medium", "high", "critical"}
STATUSES == {"open", "suppressed", "fixed"}
PRECONDITIONS == {"closed-world", "degraded", "full-reparse"}
Blank(s) == s \in {"", "none"}

ValidIdentities(f) ==
    IF f.version = 1 THEN f.graph.digest # 0 /\ f.shared \in {"strong", "weak"} /\ f.slice.digest # 0
    ELSE /\ IdentitiesOk(f)
         /\ f.origin = Core => \A i \in 1 .. 2 : IdentitiesOf(f)[i].status = "completed"

ValidateFinding(f) ==
    /\ f.origin \in ORIGINS /\ f.partition \in ORIGINS /\ f.engine \in ENGINES
    /\ ~Blank(f.S_version) /\ ~Blank(f.env_digest)
    /\ ValidIdentities(f)
    /\ f.rule # 0 /\ f.severity \in SEVERITIES /\ ~Blank(f.class) /\ f.status \in STATUSES
    /\ f.precondition \in PRECONDITIONS \/ (f.version = 2 /\ f.origin = Oracle /\ Blank(f.precondition))

LevelOf(severity) ==
    CASE severity \in {"info", "low"} -> "note" [] severity = "medium" -> "warning" [] severity \in {"high", "critical"} -> "error"

NoFingerprints == [version |-> 0, graph |-> 0, slice |-> 0]

\* Both versions of the projection: version 2 drops the shared class and its annotation, and publishes
\* fingerprints only when both identities are strong.
ToResult(f) ==
    LET v2 == f.version = 2
        ids == IdentitiesOf(f)
        absent == v2 /\ Blank(f.precondition)
    IN  [rule |-> f.rule, level |-> LevelOf(f.severity), text |-> f.text, uri |-> f.uri, line |-> f.line,
         origin |-> f.origin, partition |-> f.partition, engine |-> f.engine, S_version |-> f.S_version,
         env_digest |-> f.env_digest, class |-> f.class, severity |-> f.severity, status |-> f.status,
         oracle |-> f.oracle, graph |-> f.graph.digest, slice |-> f.slice.digest, annotated |-> ~v2,
         shared |-> IF v2 THEN "none" ELSE f.shared,
         identity |-> IF v2 THEN ids ELSE <<>>,
         classes |-> IF v2 THEN <<ids[1].class, ids[2].class>> ELSE <<>>,
         precondition |-> IF absent THEN "none" ELSE f.precondition,
         applicability |-> IF ~v2 THEN "none" ELSE IF absent THEN "not-applicable" ELSE "computed",
         fingerprints |-> IF ~v2 THEN [version |-> 1, graph |-> f.graph.digest, slice |-> f.slice.digest]
                          ELSE IF HasStrongIdentities(f) THEN [version |-> 2, graph |-> f.graph.digest, slice |-> f.slice.digest]
                          ELSE NoFingerprints]

-----------------------------------------------------------------------------
(* The canonical order and the two runs.  str(None) is "None", which sorts *)
(* after the digests that start with a digit (1 to 4) and before those     *)
(* that start with a letter (6 and above).                                 *)

DigestKey(digest) == IF digest = 0 THEN 5 ELSE digest

ResultSortKey_NoTiebreak(r) == <<DigestKey(r.graph), r.rule, r.uri, r.line, DigestKey(r.slice)>>

ResultSortKey(r) == <<DigestKey(r.graph), r.rule, r.uri, r.line, DigestKey(r.slice), Bytes(r)>>

KeyBefore(a, b) == \E k \in DOMAIN a : a[k] < b[k] /\ \A j \in 1 .. k - 1 : a[j] = b[j]
ResultBefore(r, q) == KeyBefore(ResultSortKey(r), ResultSortKey(q))

\* Python's stable sort.
SortResults(results) ==
    LET order == SetToSortSeq(DOMAIN results,
                     LAMBDA i, j : ResultBefore(results[i], results[j]) \/ (~ResultBefore(results[j], results[i]) /\ i < j))
    IN  [k \in DOMAIN results |-> results[order[k]]]

SelectOrigin(findings, origin) == SelectSeq(findings, LAMBDA f : f.origin = origin)
Projected(findings) == [k \in DOMAIN findings |-> ToResult(findings[k])]

\* findings: a frozenset, in the order it is iterated.
SortedResults(findings, origin) ==
    LET selected == SelectOrigin(findings, origin)
    IN  IF \A k \in DOMAIN selected : ValidateFinding(selected[k])
        THEN Yields(SortResults(Projected(selected)))
        ELSE Raises("InvariantViolation")

\* meta: the identifiers of the scan, and the versioned parameters.
BuildRun(partition, results, meta) ==
    [partition |-> partition, rules |-> {results[k].rule : k \in DOMAIN results}, meta |-> meta, results |-> results,
     applicability |-> IF meta.precondition = "none" THEN "not-applicable" ELSE "none"]

-----------------------------------------------------------------------------
(* The validator of the serialised log.                                    *)

IdentityShapeOk(r) ==
    /\ \A i \in 1 .. 2 : IdentityOk(r.identity[i])
    /\ r.graph = r.identity[1].digest /\ r.slice = r.identity[2].digest
    /\ r.classes = <<r.identity[1].class, r.identity[2].class>>
    /\ r.shared = "none"
    /\ r.fingerprints = IF BothStrong(r.identity)
                        THEN [version |-> 2, graph |-> r.graph, slice |-> r.slice] ELSE NoFingerprints
    /\ IF r.precondition = "none"
       THEN r.origin = Oracle /\ r.applicability = "not-applicable"
       ELSE r.precondition \in PRECONDITIONS /\ r.applicability = "computed"
    /\ r.origin = Core => \A i \in 1 .. 2 : r.identity[i].status = "completed"

LegacyShapeOk(r) ==
    /\ r.fingerprints.version = 1 /\ r.fingerprints.graph # 0 /\ r.fingerprints.slice # 0
    /\ r.graph # 0 /\ r.slice # 0 /\ ~Blank(r.shared) /\ ~Blank(r.precondition) /\ r.annotated

ResultShapeOk(r) ==
    /\ r.rule # 0 /\ r.level \in {"none", "note", "warning", "error"} /\ r.text # 0 /\ r.uri # 0
    /\ IF r.identity # <<>> THEN IdentityShapeOk(r) ELSE LegacyShapeOk(r)
    /\ ~Blank(r.S_version) /\ ~Blank(r.env_digest) /\ ~Blank(r.partition) /\ ~Blank(r.engine)
    /\ ~Blank(r.class) /\ ~Blank(r.severity) /\ ~Blank(r.status)
    /\ r.origin \in ORIGINS

RunShapeOk(run, partition) ==
    /\ run.partition = partition
    /\ ~Blank(run.meta.commit) /\ ~Blank(run.meta.S_version) /\ ~Blank(run.meta.env_digest)
    /\ ~Blank(run.meta.precondition) \/ (run.meta.precondition = "none" /\ run.applicability = "not-applicable")
    /\ \A k \in DOMAIN run.results : ResultShapeOk(run.results[k]) /\ run.results[k].rule \in run.rules

ValidateSarif210(runs) == Len(runs) = 2 /\ RunShapeOk(runs[1], "core") /\ RunShapeOk(runs[2], "oracle")

CanonicalOrder(run) == \A i, j \in DOMAIN run.results : i < j => ~ResultBefore(run.results[j], run.results[i])

-----------------------------------------------------------------------------
(* The two emitters.                                                       *)

Normalize(findings, meta) ==
    LET core == SortedResults(findings, Core)
        oracle == SortedResults(findings, Oracle)
        runs == <<BuildRun("core", core.value, meta), BuildRun("oracle", oracle.value, meta)>>
    IN  IF Blank(meta.commit) \/ Blank(meta.S_version) \/ Blank(meta.env_digest) THEN Raises("InvariantViolation")
        ELSE IF ~Returned(core) \/ ~Returned(oracle) THEN Raises("InvariantViolation")
        ELSE IF ~ValidateSarif210(runs) THEN Raises("SARIFSchemaViolation")
        ELSE IF \E k \in 1 .. 2 : ~CanonicalOrder(runs[k]) THEN Raises("CanonicalEmissionFailure")
        ELSE Yields(runs)

OneFile(findings, partition, origin, meta) ==
    LET results == SortedResults(findings, origin)
        run == BuildRun(partition, results.value, meta)
    IN  IF ~Returned(results) THEN results
        ELSE IF ~CanonicalOrder(run) THEN Raises("CanonicalEmissionFailure")
        ELSE IF ~RunShapeOk(run, partition) THEN Raises("SARIFSchemaViolation")
        ELSE Yields(run)

NormalizeSplit(findings, meta) ==
    LET core == OneFile(findings, "core", Core, meta)
        oracle == OneFile(findings, "oracle", Oracle, meta)
    IN  IF ~Returned(core) THEN core ELSE IF ~Returned(oracle) THEN oracle ELSE Yields(<<core.value, oracle.value>>)

-----------------------------------------------------------------------------
(* The detector worker (worker.py).                                        *)

Finding(engine, rule, uri, line, text, severity, class, precondition) ==
    [origin |-> Core, partition |-> Core, engine |-> engine, S_version |-> "", env_digest |-> "", version |-> 1,
     graph |-> Legacy(0), slice |-> Legacy(0), shared |-> "", rule |-> rule, uri |-> uri, line |-> line, text |-> text,
     severity |-> severity, class |-> class, status |-> "open", precondition |-> precondition, oracle |-> 0, fromCore |-> "none"]

RequireVersionedParams(job) == ~Blank(job.S_version) /\ job.env_digest \notin {"", "none", "malformed"}

StampOrigin(f, detector) ==
    LET origin == IF IF detector.mixed THEN f.fromCore = "yes" ELSE detector.engine \in CORE_ENGINES THEN Core ELSE Oracle
    IN  IF detector.engine \notin ENGINES \/ (detector.mixed /\ f.fromCore = "none") THEN Raises("InvariantViolation")
        ELSE Yields([f EXCEPT !.origin = origin, !.partition = origin])

\* solved: the solver's findings, each with the sink and the outcome of its slice fingerprint.  A finding's
\* place is its sink's node id.
FindingsFromCore(detector, solved, job) ==
    LET One(sf) ==
            [Finding(IF detector.engine = "ifds" THEN "ifds" ELSE "ide", sf.spec, sf.sink + 1, sf.sink + 1, 1,
                     detector.severity, detector.class, job.precondition)
                EXCEPT !.version = 2, !.slice = sf.slice.value]
    IN  IF ~detector.spec \/ detector.severity \notin SEVERITIES THEN Raises("InvariantViolation")
        ELSE IF \E k \in DOMAIN solved : ~Returned(solved[k].slice) THEN Raises("EmptyWitness")
        ELSE Yields([k \in DOMAIN solved |-> One(solved[k])])

Threaded(f, order, job, port) ==
    [f EXCEPT !.S_version = job.S_version, !.env_digest = job.env_digest, !.shared = order.class, !.version = 2,
              !.graph = Identity("completed", order.digest, order.class, order.namespace),
              !.slice.digest = IF @ = 0 THEN port ELSE @]

\* order: what canonical_order returns; adapter: what the oracle adapter returns or raises; port: the digest
\* the fallback fingerprinter answers, 0 when it fails closed.
RunDetector(detector, order, solved, adapter, port, job) ==
    LET raw == IF detector.engine \in CORE_ENGINES THEN FindingsFromCore(detector, solved, job) ELSE adapter
        stamped == [k \in DOMAIN raw.value |-> StampOrigin(raw.value[k], detector)]
    IN  IF ~RequireVersionedParams(job) \/ detector.engine \notin ENGINES THEN Raises("InvariantViolation")
        ELSE IF ~Returned(raw) THEN raw
        ELSE IF \E k \in DOMAIN stamped : ~Returned(stamped[k]) THEN Raises("InvariantViolation")
        ELSE IF port = 0 /\ \E k \in DOMAIN raw.value : raw.value[k].slice.digest = 0 THEN Raises("NotImplementedError")
        ELSE Yields([k \in DOMAIN stamped |-> Threaded(stamped[k].value, order, job, port)])

JobMeta(job) == [commit |-> job.commit, S_version |-> job.S_version, env_digest |-> job.env_digest,
                 precondition |-> job.precondition, triage |-> FALSE]
EmitSarif(findings, job) == Normalize(findings, JobMeta(job))

-----------------------------------------------------------------------------
(* The Semgrep adapter (oracle_attestor.py).                               *)

ProvenanceOk(p) ==
    /\ ~Blank(p.commit) /\ ~Blank(p.S_version) /\ ~Blank(p.env_digest)
    /\ p.hash # MalformedDigest
    /\ p.precondition \in PRECONDITIONS \cup {"none"}
    /\ p.class # "none" \/ p.namespace # "none" => IdentityOk(Identity("completed", p.hash, p.class, p.namespace))

\* process: how the Semgrep process ended.  Exit 1 means that there are findings.
Invoke(process) ==
    IF process.started /\ ~process.timedOut /\ process.json /\ process.exit \in {0, 1}
    THEN Yields(process.report) ELSE Raises("SemgrepInvocationError")

MapSeverity(raw) ==
    CASE raw = "ERROR" -> "critical" [] raw = "WARNING" -> "medium" [] raw = "INFO" -> "low" [] OTHER -> "none"

\* A path is a root directory and a file under it; a path outside the checkout keeps its root.
RelativeUri(path, source) == IF path.root = source THEN path.file ELSE 10 * path.root + path.file

OracleFinding(m, source, p) ==
    LET uri == RelativeUri(m.path, source)
        hashed == p.hash # 0
    IN  [Finding("semgrep", m.rule, uri, m.line, IF m.text = 0 THEN m.rule ELSE m.text, MapSeverity(m.severity), "mapped", p.precondition)
            EXCEPT !.origin = Oracle, !.partition = Oracle, !.S_version = p.S_version, !.env_digest = p.env_digest,
                   !.version = 2, !.shared = "weak", !.slice = Identity("not-applicable", 0, "none", "none"),
                   !.graph = Identity(IF p.class # "none" THEN "completed" ELSE IF hashed THEN "legacy-ambiguous" ELSE "not-applicable",
                                      p.hash, p.class, p.namespace),
                   !.oracle = 100 * m.rule + 10 * uri + m.line]

MapSemgrepReport(report, source, p) ==
    IF \E k \in DOMAIN report : ~report[k].shaped \/ report[k].rule = 0 \/ MapSeverity(report[k].severity) = "none"
    THEN Raises("SemgrepInvocationError")
    ELSE IF \E k \in DOMAIN report : report[k].rule \notin p.classes THEN Raises("OracleProvenanceUnavailable")
    ELSE Yields([k \in DOMAIN report |-> OracleFinding(report[k], source, p)])

RunSemgrep(process, source, p) ==
    LET invoked == Invoke(process)
        mapped == MapSemgrepReport(invoked.value, source, p)
    IN  IF ~Returned(invoked) THEN invoked ELSE IF ~Returned(mapped) THEN mapped
        ELSE Normalize(mapped.value, [commit |-> p.commit, S_version |-> p.S_version, env_digest |-> p.env_digest,
                                      precondition |-> p.precondition, triage |-> FALSE])

-----------------------------------------------------------------------------
(* The attestor (attestor.py): two runs of the same scan.                  *)

ResultSet(run) == {run.results[k] : k \in DOMAIN run.results}

\* Rounded to four places, half to even.
Quantised(n, d) ==
    LET q == (10000 * n) \div d
        rest == 2 * ((10000 * n) % d)
    IN  IF rest > d \/ (rest = d /\ q % 2 = 1) THEN q + 1 ELSE q

ReproductionRate(log1, log2) ==
    LET one == ResultSet(log1[2])
    IN  IF one = {} THEN 10000 ELSE Quantised(Cardinality(one \cap ResultSet(log2[2])), Cardinality(one))

AttestCore(log1, log2) ==
    [result |-> IF log1[1] = log2[1] THEN "pass" ELSE "fail", hash |-> log1[1], rate |-> 0]

AttestOracle(log1, log2) == [result |-> "rate-only", hash |-> log1[2], rate |-> ReproductionRate(log1, log2)]

\* run1, run2: what the two runs of the scan return or raise.
AttestScan(partition, triage, run1, run2) ==
    IF partition = "core" /\ triage # "off" THEN Raises("AttestorConfigurationError")
    ELSE IF ~Returned(run1) THEN run1
    ELSE IF ~Returned(run2) THEN run2
    ELSE Yields(IF partition = "core" THEN AttestCore(run1.value, run2.value) ELSE AttestOracle(run1.value, run2.value))
AttestOracleScan(triage, run1, run2) == AttestScan("oracle", triage, run1, run2)

-----------------------------------------------------------------------------
(* Properties.                                                             *)

\* findings and again: the same findings in two orders.
Reordered(findings, again) ==
    \E p \in {g \in [DOMAIN findings -> DOMAIN findings] : \A i, j \in DOMAIN findings : g[i] = g[j] => i = j} :
        again = [k \in DOMAIN findings |-> findings[p[k]]]
Occurrences(s, x) == Cardinality({k \in DOMAIN s : s[k] = x})

\* The log does not depend on the order in which the set of findings is iterated: any two orders give the
\* same runs or both raise (normalize's "same inputs, byte-identical").  Every valid finding of a partition
\* is one result of its run, and the two single-run files hold the runs of the two-run log.
EmissionIsCanonical(findings, again, meta) ==
    LET log == Normalize(findings, meta)
        split == NormalizeSplit(findings, meta)
    IN  /\ Reordered(findings, again) => Normalize(again, meta) = log
        /\ Returned(log) <=> Returned(split)
        /\ Returned(log) =>
              /\ split.value = log.value
              /\ \A k \in 1 .. 2 :
                    LET kept == Projected(SelectOrigin(findings, IF k = 1 THEN Core ELSE Oracle))
                    IN  \A r \in ResultSet(log.value[k]) \cup {kept[i] : i \in DOMAIN kept} :
                            Occurrences(log.value[k].results, r) = Occurrences(kept, r)

\* The validation of findings is as strong as the validation of the log: findings it accepts, with a text and
\* a URI, are never refused by the shape check of the serialised log, and a native fingerprint is published
\* only for two strong identities of the current algorithms.
ValidatedIsValid(findings, meta) ==
    LET log == Normalize(findings, meta)
        ready == /\ \A k \in DOMAIN findings : ValidateFinding(findings[k]) /\ findings[k].text # 0 /\ findings[k].uri # 0
                 /\ ~Blank(meta.commit) /\ ~Blank(meta.S_version) /\ ~Blank(meta.env_digest) /\ meta.precondition # ""
    IN  /\ ready => Returned(log)
        /\ Returned(log) => \A k \in 1 .. 2 : \A r \in ResultSet(log.value[k]) :
               r.fingerprints.version = 2 => r.classes = <<"strong", "strong">> /\ r.graph # 0 /\ r.slice # 0

\* What an oracle adapter may return: content the emitter accepts, and a slice identity that a digest completes.
AdapterOk(f) ==
    /\ f.engine \in ENGINES /\ f.rule # 0 /\ f.uri # 0 /\ f.text # 0 /\ f.severity \in SEVERITIES
    /\ ~Blank(f.class) /\ f.status \in STATUSES /\ f.precondition \in PRECONDITIONS /\ IdentityOk(f.slice)
    /\ f.slice.status \in {"completed", "legacy-ambiguous"}

\* A job whose detector returns is emitted: for a detector that is not mixed the emitter accepts every finding
\* the worker returns, in the partition of the detector's engine and in that one only, and each result carries
\* the job's versioned parameters and the graph identity computed once for the job.
WorkerIsEmitted(detector, order, solved, adapter, port, job) ==
    LET run == RunDetector(detector, order, solved, adapter, port, job)
        log == EmitSarif(run.value, job)
        mine == IF detector.engine \in CORE_ENGINES THEN 1 ELSE 2
    IN  (/\ Returned(run) /\ ~detector.mixed /\ job.commit # "" /\ job.precondition \in PRECONDITIONS
         /\ \A k \in DOMAIN adapter.value : AdapterOk(adapter.value[k])
         /\ order.digest \in 1 .. 8 /\ order.class \in {"strong", "weak"})
        => /\ Returned(log)
           /\ Len(log.value[mine].results) = Len(run.value) /\ log.value[3 - mine].results = <<>>
           /\ \A r \in ResultSet(log.value[mine]) :
                 r.S_version = job.S_version /\ r.env_digest = job.env_digest /\ r.graph = order.digest

\* A Semgrep report that is mapped is emitted, the core run of its log is empty, and the log does not depend on
\* where the checkout lies: the same matches under another root give the same log.
OracleIsEmitted(process, moved, source, other, p) ==
    LET log == RunSemgrep(process, source, p)
    IN  ProvenanceOk(p) =>
            /\ log.raised \in {"nothing", "SemgrepInvocationError", "OracleProvenanceUnavailable"}
            /\ Returned(log) => log.value[1].results = <<>> /\ Len(log.value[2].results) = Len(process.report)
            /\ RunSemgrep(moved, other, p) = log

\* A verdict says what was compared: the core verdict is a pass exactly when the two runs hold the same core
\* findings, in whatever order they were iterated and whatever the oracle findings are, and with triage off;
\* the oracle's is a rate, of the first run's distinct findings, and never a pass or a failure.
VerdictIsExact(findings, again, meta, triage) ==
    LET one == Normalize(findings, meta)
        two == Normalize(again, meta)
        core == AttestScan("core", triage, one, two)
        oracle == AttestOracleScan(triage, one, two)
        Kept(s, origin) == Projected(SelectOrigin(s, origin))
        Distinct(s) == {s[k] : k \in DOMAIN s}
        same == LET a == Kept(findings, Core) b == Kept(again, Core)
                IN  \A r \in Distinct(a) \cup Distinct(b) : Occurrences(a, r) = Occurrences(b, r)
        first == Distinct(Kept(findings, Oracle))
    IN  (Returned(one) /\ Returned(two)) =>
            /\ Returned(core) <=> triage = "off"
            /\ Returned(core) => (core.value.result = "pass" <=> same)
            /\ Returned(oracle) /\ oracle.value.result = "rate-only"
            /\ oracle.value.rate = 10000 <=> first \subseteq Distinct(Kept(again, Oracle))
            /\ oracle.value.rate = 0 <=> first # {} /\ first \cap Distinct(Kept(again, Oracle)) = {}
=============================================================================
