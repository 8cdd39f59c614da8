---------------------------- MODULE MCAlgorithms ----------------------------
(***************************************************************************)
(* The sequential algorithms, each over every input of a small set: a      *)
(* behaviour picks one input of its topic, and the topic's invariant       *)
(* compares what the code computes with what it should.                    *)
(***************************************************************************)
EXTENDS Integers, Sequences, FiniteSets

VARIABLES topic, input
vars == <<topic, input>>
At(t) == topic = t /\ input = <<>> /\ UNCHANGED topic
On(t) == topic = t /\ input # <<>>

-----------------------------------------------------------------------------
(***************************************************************************)
(* GitObjects: directories of a commit, one or two trees and a blob.  Git  *)
(* orders a file "a" before "a.b" and a directory "a" after it.            *)
(***************************************************************************)
GitKey(name, mode) == CASE name = "a" /\ mode # "40000" -> 1 [] name = "a.b" /\ mode # "40000" -> 2 [] name = "a.b" -> 3 [] name = "a" -> 4
Git == INSTANCE GitObjects WITH Key <- GitKey, BadNames <- {".git"}, MaxDepth <- 2, MaxEntries <- 3, MaxFiles <- 2,
           MaxParents <- 1, MaxFileSize <- 1, MaxTreeSize <- 2, MaxTotalTree <- 2, MaxTotalFiles <- 2
GitNames == {"a", "a.b"}
GitEntries == UNION {[1 .. n -> [name : GitNames, mode : {"40000", "100644"}, oid : {"t1", "t2", "b1"}]] : n \in 0 .. 2}
GitFile(oid, kind, entries) == [hash |-> oid, kind |-> kind, size |-> 1, trees |-> <<"t1">>, parents |-> 1, entries |-> entries]
PickGit ==
    /\ At("git")
    /\ \E e, g \in GitEntries, h \in {"b1", "changed"} :
          LET one == [c |-> GitFile("c", "commit", <<>>), t1 |-> GitFile("t1", "tree", e), b1 |-> GitFile(h, "blob", <<>>)]
              two == [c |-> one.c, t1 |-> one.t1, t2 |-> GitFile("t2", "tree", g), b1 |-> one.b1]
          IN  input' \in {<<one>>, <<two>>}

-----------------------------------------------------------------------------
(***************************************************************************)
(* CaptureProof: two captures that differ in any of their parts, and which *)
(* files of the second are put in place of the first's.                    *)
(***************************************************************************)
Row(path, blob) == [path |-> path, size |-> 1, blob |-> blob]
ProofTree(commit) == IF commit = "c1" THEN <<Row(1, "b1")>> ELSE <<Row(1, "b1"), Row(2, "b2")>>
ProofBefore(p, q) == p < q
ProofCode(code) == IF code = "v1" THEN 1 ELSE 2
Capture == INSTANCE CaptureProof WITH TreeOf <- ProofTree, Before <- ProofBefore, CodeSize <- ProofCode,
               MaxFiles <- 2, MaxBytes <- 2
Captures == [binding : [org : {"o1", "o2"}, commit : {"c1", "c2"}], claim : {"none", "owner/repository"},
             limits : [files : {2}, bytes : {2}, proof : {9, 10}], object : {"x"}, id : {"p"},
             interpreter : {"cpython", "relative"}, code : {"v1", "v2"}]
PickCapture ==
    /\ At("capture")
    /\ \E c \in Captures, other \in {o \in Captures : o.limits.proof = 10 /\ o.interpreter = "cpython"},
          taken \in SUBSET Capture!Artifacts, foreign \in BOOLEAN :
          /\ Cardinality(taken) <= 2
          /\ input' = <<c, other, taken, foreign>>

-----------------------------------------------------------------------------
(***************************************************************************)
(* RefactorChecks: verdicts of three cases in two cells against two        *)
(* protected reports; and two pairs of trees, the second of which may      *)
(* share the first's, with every way to fail.                              *)
(***************************************************************************)
Refactor == INSTANCE RefactorChecks
VerdictLists == [1 .. 3 -> [passed : BOOLEAN, baseline : {TRUE}, cell : {"x"}]]
    \cup {[c \in 1 .. 3 |-> [passed |-> p[c], baseline |-> b, cell |-> IF c = 3 THEN "y" ELSE "x"]]
             : p \in [1 .. 3 -> BOOLEAN], b \in BOOLEAN}
SameCells(v, w) == \A c \in 1 .. 3 : v[c].cell = w[c].cell
PickGate ==
    /\ At("gate")
    /\ \E current, r1, r2 \in VerdictLists :
          SameCells(current, r1) /\ SameCells(r1, r2) /\ r1[1].baseline /\ r2[1].baseline /\ input' = <<current, <<r1, r2>>>>
Demand == [fixture_syntax |-> "valid", transformation_validation |-> "valid"]
CaseOf(kind) ==
    [kind |-> kind, language |-> "java", demands |-> Demand, file |-> "f", afterFiles |-> {"f"},
     outcome |-> CASE kind = "structural_comparison" -> "stay" [] kind = "finding_removal" -> "absent" [] OTHER -> "failure",
     located |-> [before |-> TRUE, after |-> kind = "structural_comparison"]]
SideRecords ==
    [digest : {"locked"}, status : {"completed", "failed"}, reason : {TRUE}, locator : {"matched", "not_run"},
     fingerprint : {Refactor!NoFingerprint, [hash |-> "h", class |-> "strong", namespace |-> "v2"]},
     finding : {Refactor!NoFinding, [status |-> "present", id |-> "n", rule |-> "r"], [status |-> "absent", id |-> "none", rule |-> "r"]},
     scan : {Refactor!NoScan} \cup {[Refactor!NoScan EXCEPT !.status = s, !.id = "scan", !.files = {"f"}, !.rules = {"r"}]
                                      : s \in {"completed", "failed"}},
     error : {"none", "parse"}, evidence : {<<>>, <<"side">>}]
SideCandidates(kind, side) == {r \in SideRecords : Refactor!SideOk_EvidenceOptional(r, CaseOf(kind), side, {"side"})}
CaseRecords(kind) ==
    [kind : {kind}, side : {[before |-> b, after |-> a] : b \in SideCandidates(kind, "before"), a \in SideCandidates(kind, "after")},
     observed : {[d \in DOMAIN Demand |-> [status |-> "valid", evidence |-> <<"syntax">>]]},
     correspondence : {[status |-> "not_run", evidence |-> <<>>], [status |-> "established", evidence |-> <<"pair">>]},
     lifecycle : {[state |-> s, reason |-> IF s = "open" THEN "analysis_failed" ELSE "fixed", finding |-> "n", scan |-> "scan",
                   inherited |-> FALSE, evidence |-> e] : s \in {"open", "resolved"}, e \in {<<"decision">>}}
                 \cup {[state |-> s, reason |-> "fixed", finding |-> "n", scan |-> "scan", inherited |-> FALSE, evidence |-> <<>>]
                         : s \in {"none", "resolved"}}]
PickCase == At("case") /\ \E kind \in Refactor!EvidenceTypes : \E r \in CaseRecords(kind) :
    input' = <<r, CaseOf(kind)>>
Trees == {"t1", "t2", "t3"}
ParseResults == {"ok", "fails", "unmapped"}
Pair(b, a, pb, pa, n) ==
    [before |-> b, after |-> a, parses |-> [before |-> pb, after |-> pa], candidates |-> n, tokenDerived |-> TRUE,
     beforeFiles |-> {"f"}, afterFiles |-> {"g"}, declared |-> "f", explicit |-> FALSE, label |-> "should-stay"]
Pairs == {Pair(b, a, pb, pa, n) : b \in Trees, a \in Trees, pb \in ParseResults, pa \in ParseResults, n \in {1}}
         \cup {Pair("t1", "t2", "ok", "ok", 2), [Pair("t1", "t2", "ok", "ok", 1) EXCEPT !.explicit = TRUE]}
HarnessPrints == [tree \in Trees |->
    CASE tree = "t1" -> [hash |-> "h1", class |-> "strong", namespace |-> "v2"]
      [] tree = "t2" -> [hash |-> "h1", class |-> "weak", namespace |-> "v2"]
      [] OTHER -> Refactor!NoFingerprint]
PickPairs == At("pairs") /\ \E p, q \in Pairs : input' = <<<<p, q>>>>

-----------------------------------------------------------------------------
(***************************************************************************)
(* SpecLanguage: two calls of the registry, over manifests with one flaw   *)
(* or none and detectors built in memory; specifications of up to two      *)
(* clauses, and sets of up to three clauses over four facts.               *)
(***************************************************************************)
Language == INSTANCE SpecLanguage
\* The boot guard's own check, over the facts its obligations name.
ASSUME ObligationsHold == Language!AllObligationsDischarged(0 .. 6)
Line(kind, key, value, head) ==
    [kind |-> kind, key |-> key, value |-> value, words |-> {}, shaped |-> TRUE, head |-> head, hatches |-> {},
     arrow |-> TRUE, src |-> "arg", tgt |-> "ret"]
Header == <<Line("header", "engine", "ifds", ""), Line("header", "class", "known", ""), Line("header", "languages", "known", "")>>
Clause(head) == Line("clause", "", "", head)
Clauses ==
    {Clause(h) : h \in Language!PrimitiveHeads \cup {"join"}}
    \cup {[Clause(h) EXCEPT !.hatches = x] : h \in {"source", "propagate"}, x \in SUBSET {"semgrep", "query", "callable", "regex"}}
    \cup {[Clause("propagate") EXCEPT !.src = a, !.tgt = b] : a, b \in {"arg", "ret", "field", "other"}}
    \cup {[Clause("sink") EXCEPT !.words = w] : w \in SUBSET {"conditional", "sequencing", "fixpoint"}}
    \cup {[Clause("propagate") EXCEPT !.arrow = FALSE], [Clause("sink") EXCEPT !.shaped = FALSE]}
Files == {Header \o <<c>> : c \in Clauses} \cup {Header \o <<c, Clause("sink")>> : c \in Clauses}
         \cup {Header, <<Header[1], Header[2], Clause("sink")>>, <<Line("header", "engine", "semgrep", ""), Clause("sink")>>}
FlowClauses == {Language!FlowClause(h, g, k, f, t) : h \in Language!PrimitiveHeads, g \in {0, 3}, k \in {{}, {1, 2}}, f \in {0, 3}, t \in {1}}
PickGrammar ==
    At("grammar") /\ input' \in {[lines |-> f, clauses |-> {}] : f \in Files}
                               \cup {[lines |-> <<>>, clauses |-> {a, b}] : a, b \in FlowClauses}
Manifest(id, engine) ==
    [present |-> TRUE, mapping |-> TRUE, missing |-> FALSE, engine |-> engine, id |-> id, lines |-> Header \o <<Clause("source")>>,
     file |-> TRUE, readiness |-> TRUE, odd |-> FALSE]
Manifests ==
    LET good == Manifest("a", "ifds")
    IN  {good, Manifest("b", "ide"), Manifest("b", "semgrep"), Manifest("b", "unknown"), [good EXCEPT !.present = FALSE],
         [good EXCEPT !.mapping = FALSE], [good EXCEPT !.missing = TRUE], [good EXCEPT !.file = FALSE], [good EXCEPT !.odd = TRUE],
         [good EXCEPT !.readiness = FALSE], [Manifest("c", "semgrep") EXCEPT !.file = FALSE]}
        \cup {[good EXCEPT !.lines = f] : f \in {Header, Header \o <<[Clause("source") EXCEPT !.hatches = {"regex"}]>>}}
Detectors ==
    {[id |-> i, engine |-> e, partition |-> Language!DerivePartition(e), query |-> q,
      spec |-> [present |-> p, engine |-> "ifds", clauses |-> <<[head |-> h, hatches |-> x, src |-> "arg", tgt |-> t]>>]]
        : i \in {"a", "d"}, e \in {"ifds", "semgrep", "unknown"}, q \in BOOLEAN, p \in BOOLEAN,
          h \in {"source", "propagate"}, x \in {{}, {"callable"}}, t \in {"ret", "other"}}
Calls == {[op |-> "load", dirs |-> d, detector |-> <<>>] : d \in {<<>>} \cup {<<m>> : m \in Manifests} \cup {<<m, n>> : m, n \in Manifests}}
         \cup {[op |-> "register", dirs |-> <<>>, detector |-> d] : d \in Detectors}
LaterCalls == {c \in Calls : Len(c.dirs) <= 1 /\ (c.op = "register" => c.detector.id = "a")}
PickCalls == At("registry") /\ \E c \in Calls, d \in LaterCalls : input' = <<c, d>>

-----------------------------------------------------------------------------
(***************************************************************************)
(* SpecGate: streams of four labels against rational rates, two            *)
(* evaluations over up to two rows, four sweeps over two specifications;   *)
(* three findings; corpora around each threshold (200 files for the parse  *)
(* rate); two roll-overs of a registry with up to two rows.                *)
(***************************************************************************)
Gate == INSTANCE SpecGate
Half == <<1, 2>>
Rates == {<<0, 1>>, <<1, 4>>, Half, <<3, 4>>, <<1, 1>>}
PickStream == At("stream") /\ \E pi0, p \in Rates, alpha \in {Half, <<1, 3>>, <<1, 5>>} :
    input' = [pi0 |-> pi0, alpha |-> alpha, p |-> p]
VersionRows == [class : {"a", "b"}, version : {<<1, m, t>> : m, t \in 0 .. 1}, spec : {"x"}, wealth : {<<2, 1>>}, threshold : {<<2, 1>>}]
Evaluations ==
    [spec : {[id |-> "x", class |-> "a"], [id |-> "y", class |-> "b"]}, raises : {"insert", "sign", "mark", "nothing"},
     state : {[Gate!InitialState(<<1, 4>>, Half) EXCEPT !.wealth = w] : w \in {<<2, 1>>, <<3, 2>>}}]
PickAcceptance == At("acceptance") /\ \E n \in 0 .. 2 : \E rows \in [1 .. n -> VersionRows], calls \in [1 .. 2 -> Evaluations] :
    input' = [rows |-> rows, calls |-> calls]
PickSweeps == At("sweeps") /\ input' \in [1 .. 4 -> [{"s", "t"} -> {<<0, 1>>, Half, <<1, 1>>}]]
Found == <<[id |-> "f", window |-> 2], [id |-> "g", window |-> 3], [id |-> "h", window |-> 4]>>
PickTriage == At("triage") /\ input' \in
    [on : BOOLEAN, store : {<<>>, <<[finding |-> "f", score |-> 1, freeText |-> 0, window |-> 0]>>},
     verdicts : [{"f", "g", "h"} -> [exploitable : {-1, 0, 10000, 10001}, testCode : {0}, fp : {10000}, freeText : 1 .. 3]]]
Item(parsed) == [parsed |-> parsed, ceTp |-> 1, ceFp |-> 0, ceFn |-> 0, pdgTp |-> 1, pdgFn |-> 0]
Corpora ==
    {<<>>} \cup {<<i>> : i \in [parsed : 0 .. 1, ceTp : {0, 9, 17}, ceFp : 0 .. 2, ceFn : {0, 3, 4}, pdgTp : {0, 4}, pdgFn : 0 .. 1]}
    \cup {[i \in 1 .. 200 |-> Item(IF i <= bad THEN 0 ELSE 1)] : bad \in 0 .. 2}
PickCorpus == At("corpus") /\ input' \in [strong : BOOLEAN, items : Corpora]
Entry(image, digest, tag, status, note, shaped) ==
    [image |-> image, digest |-> digest, tag |-> tag, status |-> status, note |-> note, shaped |-> shaped]
Entries == {Entry(m, d, 0, s, n, TRUE) : m \in Gate!Images, d \in 0 .. 2, s \in {"active", "superseded", "void"}, n \in BOOLEAN}
Rollovers == {Entry(m, d, 1, "active", FALSE, s) : m \in Gate!Images, d \in 0 .. 3, s \in BOOLEAN}
PickRollover == At("rollover") /\ \E n \in 0 .. 2 : \E e \in {x \in [1 .. n -> Entries] : Gate!RegistryValid(x)}, c, d \in Rollovers :
    input' = [entries |-> e, calls |-> <<c, d>>]

-----------------------------------------------------------------------------
(***************************************************************************)
(* Emission: up to three findings that differ in what the emitter tells    *)
(* apart, in two orders; detectors of every kind over one job; a report of *)
(* two matches under two roots; two runs of a scan.                        *)
(***************************************************************************)
Rank(x, words) == CHOOSE k \in DOMAIN words : words[k] = x
IdentityRank(i) ==
    Rank(i.class, <<"none", "strong", "weak">>) + 4 * Rank(i.status, <<"completed", "legacy-ambiguous", "not-applicable", "pending", "running", "failed">>)
    + 32 * Rank(i.namespace, <<"none", "", "scanipy-canonical-graph/2", "scanipy-slice-normal-form/2">>)
ResultRank(r) ==
    r.text + 4 * Rank(r.severity, <<"low", "medium", "high", "critical">>)
    + IF r.identity = <<>> THEN 0 ELSE 32 * (IdentityRank(r.identity[1]) + 256 * IdentityRank(r.identity[2]))
Emit == INSTANCE Emission WITH Bytes <- ResultRank
Meta == [commit |-> "c", S_version |-> "1", env_digest |-> "e", precondition |-> "degraded", triage |-> FALSE]
Done(digest, class, namespace) == Emit!Identity("completed", digest, class, namespace)
Sample ==
    [Emit!Finding("ifds", 1, 1, 1, 1, "low", "c", "degraded") EXCEPT
        !.S_version = "1", !.env_digest = "e", !.version = 2, !.graph = Done(1, "strong", Emit!GRAPH_V2),
        !.slice = Done(2, "strong", Emit!SLICE_V2)]
OracleSample ==
    [Sample EXCEPT !.origin = Emit!Oracle, !.partition = Emit!Oracle, !.engine = "semgrep", !.graph = Emit!Legacy(6), !.slice = Emit!Legacy(0)]
Flaws ==
    LET f == Sample
    IN  {[f EXCEPT !.origin = "mixed"], [f EXCEPT !.engine = "codeql"], [f EXCEPT !.S_version = ""], [f EXCEPT !.severity = "none"],
         [f EXCEPT !.version = 3], [f EXCEPT !.precondition = ""], [f EXCEPT !.rule = 0], [f EXCEPT !.text = 0], [f EXCEPT !.uri = 0],
         [f EXCEPT !.status = "closed"], [f EXCEPT !.version = 1], [f EXCEPT !.version = 1, !.shared = "weak"],
         [OracleSample EXCEPT !.precondition = "", !.graph = Emit!Legacy(0)], [OracleSample EXCEPT !.version = 1, !.shared = "weak"]}
Identities == {Emit!Identity(s, d, c, n) : s \in Emit!STATES, d \in {0, 2, Emit!MalformedDigest}, c \in {"none", "strong", "weak"},
                  n \in {"none", "", Emit!GRAPH_V2, Emit!SLICE_V2}}
Identified == {[f EXCEPT !.graph = g] : f \in {Sample, OracleSample}, g \in Identities}
              \cup {[f EXCEPT !.slice = s] : f \in {Sample, OracleSample}, s \in Identities}
Placed == {[Sample EXCEPT !.line = l, !.text = t, !.slice.digest = d] : l \in 1 .. 2, t \in 1 .. 2, d \in 1 .. 2}
          \cup {[OracleSample EXCEPT !.graph = Emit!Legacy(d), !.text = t] : d \in {0, 1, 6}, t \in 1 .. 2}
Metas == {Meta, [Meta EXCEPT !.commit = ""], [Meta EXCEPT !.precondition = "none"], [Meta EXCEPT !.precondition = ""]}
PickEmission ==
    /\ At("emission")
    /\ \/ \E f \in Identified \cup Flaws, g \in {Sample, OracleSample}, m \in {Meta} : input' = <<<<f, g>>, <<g, f>>, m>>
       \/ \E f, g, h \in Placed : \E s \in {<<g, f, h>>, <<h, f, g>>} : input' = <<<<f, g, h>>, s, Meta>>
       \/ \E m \in Metas : input' = <<<<Sample>>, <<>>, m>>
Job == [commit |-> "c", S_version |-> "1", env_digest |-> "e", precondition |-> "closed-world"]
Jobs == {Job, [Job EXCEPT !.S_version = ""], [Job EXCEPT !.env_digest = "malformed"], [Job EXCEPT !.precondition = "degraded"]}
Hits == {Emit!Finding("semgrep", 1, 1, l, 1, "low", "c", "degraded") : l \in 1 .. 2}
AdapterHits ==
    {[h EXCEPT !.fromCore = c, !.slice = s] : h \in Hits, c \in {"none", "yes", "no"},
        s \in {Emit!Legacy(0), Emit!Legacy(3), Done(3, "weak", Emit!SLICE_V2)}}
Adapters == {Emit!Raises("NotImplementedError"), Emit!Yields(<<>>)} \cup {Emit!Yields(<<f, g>>) : f, g \in AdapterHits}
Solutions ==
    UNION {[1 .. n -> [spec : {1}, sink : 0 .. 1, slice : {Emit!Yields(Done(3, c, Emit!SLICE_V2)) : c \in {"strong", "weak"}}
                                                          \cup {Emit!Raises("EmptyWitness")}]] : n \in 0 .. 2}
WorkerDetectors == [engine : {"ifds", "ide", "semgrep", "unknown"}, mixed : BOOLEAN, spec : BOOLEAN, severity : {"high", "none"}, class : {"c"}]
Orders == {[digest |-> 4, class |-> c, namespace |-> Emit!GRAPH_V2] : c \in {"strong", "weak"}}
PickWorker ==
    /\ At("worker")
    /\ \E d \in WorkerDetectors, o \in Orders, port \in {0, 7}, j \in Jobs :
          \E s \in IF d.engine = "semgrep" THEN {<<>>} ELSE Solutions, a \in IF d.engine = "semgrep" THEN Adapters ELSE {Emit!Yields(<<>>)} :
              input' = [detector |-> d, order |-> o, port |-> port, job |-> j, solved |-> s, adapter |-> a]
Match(root, file, rule, line, text, severity, shaped) ==
    [path |-> [root |-> root, file |-> file], rule |-> rule, line |-> line, text |-> text, severity |-> severity, shaped |-> shaped]
Matches == {Match(1, f, r, l, t, "ERROR", TRUE) : f \in 1 .. 2, r \in 1 .. 2, l \in 1 .. 2, t \in 0 .. 1}
           \cup {Match(1, 1, r, 1, 1, s, b) : r \in 0 .. 3, s \in {"INFO", "WARNING", "OTHER"}, b \in BOOLEAN}
Moved(report, root) == [k \in DOMAIN report |-> [report[k] EXCEPT !.path.root = root]]
Process(report, exit, json) == [started |-> TRUE, timedOut |-> FALSE, json |-> json, exit |-> exit, report |-> report]
Bundles ==
    [commit : {"c"}, S_version : {"1", ""}, env_digest : {"e"}, hash : {0, 4, Emit!MalformedDigest}, precondition : {"none", "degraded", "odd"},
     classes : {{1, 2}}, class : {"none", "weak"}, namespace : {"none", Emit!GRAPH_V2}]
PickSemgrep ==
    /\ At("semgrep")
    /\ \/ \E p \in Bundles, m \in Matches, exit \in 0 .. 2, json \in BOOLEAN : input' = [bundle |-> p, process |-> Process(<<m>>, exit, json)]
       \/ \E p \in {b \in Bundles : Emit!ProvenanceOk(b)}, m, n \in Matches : input' = [bundle |-> p, process |-> Process(<<m, n>>, 1, TRUE)]
Compared == {f \in Placed : f.text = 1}
Seen == {<<>>} \cup {<<f>> : f \in Compared} \cup {<<f, g>> : f, g \in Compared}
PickAttest == At("attest") /\ \E f, g \in Seen, triage \in {"off", "on"} : input' = <<f, g, triage>>

-----------------------------------------------------------------------------
(***************************************************************************)
(* SnapshotRecords: trees of up to two files; pairs of key builders; two   *)
(* completions of the same commit or of two organisations.                 *)
(***************************************************************************)
Snap == INSTANCE SnapshotRecords
TreeFiles ==
    [name : {"f"}, lang : {"python", "go", "inert", "other"}, readable : BOOLEAN, breaks : BOOLEAN,
     lines : {<<>>, <<{}, {"python-getattr"}>>, <<{"go-reflect-call"}>>}]
PickTree == At("tree") /\ input' \in
    [exists : BOOLEAN, language_mix : {<<>>, <<"go">>, <<"python", "cobol">>}, cached : {<<>>, <<Snap!Site("g", 1, "ruby-send")>>},
     files : {<<>>} \cup {<<f>> : f \in TreeFiles} \cup {<<f, g>> : f, g \in TreeFiles}]
Components == {<<>>, <<"a">>, <<"b">>, <<"..">>, <<"a", "/", "b">>, <<"a", "/", "codebases", "/", "b">>}
Builders == [org : Components, codebase : Components, commit : {<<"a">>}, env : {<<"a">>, <<"b">>, <<"none">>}]
PickKeys == At("keys") /\ \E b, c \in Builders : input' = <<b, c>>
Produced == {[t \in {"cpg_tarball", "reverse_symbol_index", "dynamic_call_graph", "delta_graph", "precondition_status"} |->
                 IF t \in lost THEN "none" ELSE "x"] : lost \in SUBSET {"cpg_tarball", "dynamic_call_graph", "delta_graph", "precondition_status"}}
Completions ==
    [b : {[org |-> o, codebase |-> <<"a">>, commit |-> <<"a">>, env |-> e] : o \in {<<"a">>, <<"b">>}, e \in {<<"none">>, <<"e">>, <<"malformed">>}},
     provided : {<<"none">>, <<"e">>}, status : {"degraded", "unknown"}, bodies : Produced]
Repeats == {c \in Completions : \A s, t \in {"cpg_tarball", "dynamic_call_graph", "delta_graph", "precondition_status"} : c.bodies[s] = c.bodies[t]}
PickCompletions == At("completions") /\ \E c \in Completions, d \in Repeats : input' = <<c, d>>

-----------------------------------------------------------------------------
Graphs == INSTANCE MCGraphs
Topics == Graphs!Topics \cup
          {"git", "capture", "gate", "case", "pairs", "grammar", "registry", "stream", "acceptance", "sweeps", "triage", "corpus",
           "rollover", "emission", "worker", "semgrep", "attest", "tree", "keys", "completions"}
Init == topic \in Topics /\ input = <<>>
Next == PickGit \/ PickCapture \/ PickGate \/ PickCase \/ PickPairs \/ PickGrammar \/ PickCalls
        \/ PickStream \/ PickAcceptance \/ PickSweeps \/ PickTriage \/ PickCorpus \/ PickRollover
        \/ PickEmission \/ PickWorker \/ PickSemgrep \/ PickAttest \/ PickTree \/ PickKeys \/ PickCompletions
        \/ Graphs!Next
Spec == Init /\ [][Next]_vars

\* A directory of Git objects that loads is the checkout of its commit, and a
\* replay accepts what was published and nothing mixed with it; a closed-world
\* verdict is earned, keys are an organisation's own and rows name stored
\* objects (GitObjects, CaptureProof, SnapshotRecords).
SourceIsBound ==
    /\ On("git") => Git!ExpansionIsTheCheckout("c", input[1], GitNames)
    /\ On("capture") => Capture!ReplayBindsEverything(input[1], input[2], input[3], input[4])
    /\ On("tree") => Snap!ClosedWorldIsProven(input)
    /\ On("keys") => Snap!KeysAreScoped(input[1], input[2])
    /\ On("completions") => Snap!RowIsBacked(input)

\* The report gate never accepts the loss of what was protected, a pass rests
\* on every file it cites, and a verdict of the harness was computed from the
\* pair's own trees; the error of the acceptance and drift gates is bounded,
\* accepted versions are new, quarantined ones stay out and triage only adds
\* rows; the fidelity gate passes what reached its thresholds in the
\* registered environment (RefactorChecks, SpecGate).
GatesAreExact ==
    /\ On("gate") => Refactor!GateIsARatchet(input[1], input[2])
    /\ On("case") => Refactor!PassIsTraceable(input[1], input[2], [namespaces |-> {"v2"}], {"side", "syntax", "pair", "decision"})
    /\ On("pairs") => Refactor!VerdictsAreComputed(input[1], HarnessPrints)
    /\ On("stream") => Gate!FalseAcceptanceIsBounded(input.pi0, input.alpha, input.p, 4)
    /\ On("acceptance") => Gate!AcceptanceIsFresh(input.rows, input.calls)
    /\ On("sweeps") => Gate!QuarantineIsKept(<<"s", "t">>, Half, Half, input)
    /\ On("triage") => Gate!TriageIsAdditive(input.on, Found, input.verdicts, input.store)
    /\ On("corpus") => Gate!PassIsEarned(input, "production")
    /\ On("rollover") => Gate!RolloverIsAppendOnly(input.entries, input.calls)

\* A registry holds closed specifications only, and what the grammar admits is
\* distributive, as the solver assumes (SpecLanguage).
LanguageIsClosed ==
    [][/\ On("registry")' => Language!RegistryIsClosed(input')
       /\ On("grammar")' => Language!GrammarIsDistributive(input'.lines, input'.clauses, 0 .. 3)]_vars

\* A log depends on its findings only, whatever their order, a verdict of the
\* attestor says what was compared, and what the worker, the Semgrep adapter
\* and the validation of findings accept is emitted (Emission).
EmissionIsExact ==
    /\ On("emission") => Emit!EmissionIsCanonical(input[1], input[2], input[3]) /\ Emit!ValidatedIsValid(input[1], input[3])
    /\ On("attest") => Emit!VerdictIsExact(input[1], input[2], Meta, input[3])
    /\ On("worker") => Emit!WorkerIsEmitted(input.detector, input.order, input.solved, input.adapter, input.port, input.job)
    /\ On("semgrep") => Emit!OracleIsEmitted(input.process, [input.process EXCEPT !.report = Moved(@, 2)], 1, 2, input.bundle)

\* Canonical ids, fingerprints and slices are of the graph, not of the order or
\* the ids it was given in (MCGraphs).
IdentityIsOfTheGraph == [][\A x \in {input'} : Graphs!IdentityIsOfTheGraph(x)]_vars

\* Findings, incremental graphs and bounded solves are exact (MCGraphs).
AnalysisIsExact == [][\A x \in {input'} : Graphs!AnalysisIsExact(x)]_vars
=============================================================================
