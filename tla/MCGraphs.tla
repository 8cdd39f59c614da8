------------------------------ MODULE MCGraphs ------------------------------
(***************************************************************************)
(* The graph algorithms of the analysis core, each over every input of a   *)
(* small set: a behaviour picks one input x of its topic, and the topic's  *)
(* invariant compares what the code computes with what it should.  The run *)
(* is MCAlgorithms'.                                                       *)
(***************************************************************************)
EXTENDS Integers, Sequences, FiniteSets, TLC

VARIABLES topic, input
Pick(t, S) == topic = t /\ input = <<>> /\ UNCHANGED topic /\ input' \in S

-----------------------------------------------------------------------------
(***************************************************************************)
(* CanonicalGraph: graphs of three nodes with up to three edges of two     *)
(* kinds, and of four unlabelled nodes with three edges; the budgets       *)
(* are around the number of states these searches take.                    *)
(***************************************************************************)
Graph == INSTANCE CanonicalGraph
SortedSeqs(S, n) == {s \in [1 .. n -> S] : \A i \in 1 .. n - 1 : s[i] <= s[i + 1]}
EdgeCode(k, n) == [kind |-> IF k % 2 = 0 THEN Graph!CFG ELSE Graph!AST, src |-> (k \div 2) \div n, dst |-> (k \div 2) % n]
EdgeLists(n, m) == {[i \in DOMAIN s |-> EdgeCode(s[i], n)] : s \in SortedSeqs(0 .. 2 * n * n - 1, m)}
Labelled(n, labels, edges) ==
    [nodes |-> [i \in 1 .. n |-> i - 1], label |-> [i \in 0 .. n - 1 |-> labels[i + 1]],
     path |-> [i \in 0 .. n - 1 |-> <<>>], edges |-> edges]
Plain == <<Graph!CallKind, 1, 0, 0, 0, 0>>
Other == <<Graph!CallKind, 2, 0, 0, 0, 0>>
Local(name) == <<Graph!IdentifierKind, name, 0, 0, 1, 1>>
PickCanon == Pick("canon",
    {<<Labelled(3, <<Plain, Plain, Plain>>, e), b>> : e \in UNION {EdgeLists(3, m) : m \in 0 .. 3}, b \in {4, 40}}
    \cup {<<Labelled(3, <<Plain, Plain, Other>>, e), b>> : e \in UNION {EdgeLists(3, m) : m \in 0 .. 2}, b \in {4, 40}}
    \cup {<<Labelled(4, <<Plain, Plain, Plain, Plain>>, e), 60>> :
             e \in {[i \in DOMAIN s |-> EdgeCode(2 * s[i], 4)] : s \in SortedSeqs(1 .. 15, 3)}})
PickSlice == Pick("slice",
    {<<Labelled(3, l, e), w, b>> : l \in {<<Local(1), Local(2), Plain>>, <<Plain, Local(1), Other>>},
                                   e \in UNION {EdgeLists(3, m) : m \in 0 .. 2},
                                   w \in {<<1, 2>>, <<0, 1, 2>>}, b \in {2, 60}})

(* Exports of three nodes: a method and two others, in a tree or apart. *)
Raw(id, label, full, file, line) ==
    [id |-> id, label |-> label, op |-> id, call |-> <<1, 2>>, full |-> full, file |-> file, line |-> line, col |-> 0]
RawEdges == [kind : {"AST", "CFG", "CDG"}, src : 1 .. 3, dst : 1 .. 3]
PickExport == Pick("export",
    {<<[nodes |-> <<Raw(1, Graph!MethodKind, <<1, 1>>, 1, a), Raw(2, l, <<1, 2>>, f, b), Raw(3, Graph!CallKind, <<0, 0>>, 0, c)>>,
        edges |-> e]>> :
        l \in {Graph!MethodKind, Graph!LiteralKind}, f \in 0 .. 2, a \in 0 .. 1, b \in {1}, c \in {1},
        e \in {<<x, y, [kind |-> "CFG", src |-> 2, dst |-> 3]>> :
                  x \in {r \in RawEdges : r.kind = "AST" => r.src < r.dst}, y \in {r \in RawEdges : r.kind = "AST" /\ r.src < r.dst}}})

(* Requests over three declarations of two types, two nodes in the first. *)
D(i) == <<1, i>>
Decls == {D(1), D(2), D(3)}
Parent(l) == [nodes |-> <<0, 1, 2, 3>>, path |-> [i \in 0 .. 3 |-> <<>>],
              label |-> [i \in 0 .. 3 |-> <<Graph!CallKind, 1, 0, 0>> \o D(l[i + 1])],
              edges |-> <<Graph!Edge(Graph!CFG, 0, 1), Graph!Edge(Graph!CALL, 1, 2), Graph!Edge(Graph!CFG, 2, 3)>>]
Mints == [Decls -> {<<0, 1>>, <<>>, <<2>>}] \cup {[d \in Decls |-> <<-2>>]}
PickRequest == Pick("delta",
    {<<[parent |-> Parent(l), parentEnv |-> "e", workerEnv |-> v, verdict |-> w, changed |-> {D(1)}, types |-> t,
        references |-> [d \in Decls |-> IF d = D(1) THEN r1 ELSE IF d = D(2) THEN r2 ELSE {}],
        calls |-> [d \in Decls |-> IF d = D(3) THEN c ELSE {}], subtypes |-> (1 :> {2} @@ 2 :> {}),
        typeOf |-> [d \in Decls |-> IF d = D(3) THEN 2 ELSE 3], files |-> 5, changedFiles |-> f, mint |-> m]>> :
        l \in {<<1, 1, 2, 3>>, <<2, 2, 3, 3>>, <<3, 2, 1, 2>>}, v \in {"e"}, w \in {"closed-world", "degraded", "full-reparse"},
        t \in {{}, {1}}, r1 \in SUBSET {D(2)}, r2 \in SUBSET {D(3)}, c \in SUBSET {D(1)}, f \in {1, 3}, m \in Mints})

-----------------------------------------------------------------------------
Taint == INSTANCE TaintSolver
(* TaintSolver: three methods 0, 1 and 2, a node in each of the first two  *)
(* and a node 5 in one of the three or in none; control flow stays         *)
(* in a method; operators are 1 (a source), 2 (a sanitizer), 3 (a sink).   *)
Owners == {<<1, 1>>, <<1, 2>>, <<1, 3>>, <<0, 0>>}
Flow(s, d) == Taint!Edge(Taint!CFG, s, d)
Call(s, d) == Taint!Edge(Taint!CALL, s, d)
BaseFlow(owner) == <<Flow(0, 3), Flow(1, 4)>> \o CASE owner = <<1, 1>> -> <<Flow(3, 5)>>
                                                   [] owner = <<1, 2>> -> <<Flow(4, 5)>>
                                                   [] owner = <<1, 3>> -> <<Flow(2, 5)>>
                                                   [] OTHER -> <<>>
MoreEdges(owner) == {Call(s, d) : s \in 3 .. 5, d \in 0 .. 2} \cup {Flow(3, 0), Flow(4, 4)} \cup (IF owner = <<1, 1>> THEN {Flow(5, 3)} ELSE {})
Program(owner, ops, more) ==
    [nodes |-> <<0, 1, 2, 3, 4, 5>>, path |-> [i \in 0 .. 5 |-> <<>>],
     label |-> [i \in 0 .. 5 |-> CASE i < 3 -> <<Taint!MethodKind, 0, 1, i + 1, 0, 0>>
                                   [] i = 5 -> <<Taint!CallKind, ops[3], 0, 0>> \o owner
                                   [] OTHER -> <<Taint!CallKind, ops[i - 2], 0, 0, 1, i - 2>>],
     edges |-> BaseFlow(owner) \o more]
UpTo(S, n) == {<<>>} \cup UNION {[1 .. k -> S] : k \in 1 .. n}
Code(e) == 100 * e.kind + 10 * e.src + e.dst
EdgeSets(S, n) == {s \in UpTo(S, n) : \A i \in 1 .. Len(s) - 1 : Code(s[i]) < Code(s[i + 1])}
Rules == [engine |-> "ifds", clauses |-> <<[role |-> "source", pattern |-> 1], [role |-> "sink", pattern |-> 3], [role |-> "sanitize", pattern |-> 2]>>]
Both == [engine |-> "ide", clauses |-> <<[role |-> "source", pattern |-> 1], [role |-> "sink", pattern |-> 3], [role |-> "source", pattern |-> 3]>>]
Ops == {<<1, 3, 3>>, <<1, 2, 3>>, <<3, 1, 3>>, <<2, 1, 3>>, <<1, 1, 3>>}
Order == [order |-> <<3, 0, 5, 4, 1, 2>>, class |-> "strong", hash |-> <<>>]
PickProgram == Pick("solve",
    UNION {{<<Program(o, ops, m), r>> : ops \in Ops, m \in EdgeSets(MoreEdges(o), 2), r \in {Rules, Both}} : o \in Owners})
PickEdit == Pick("bounded",
    UNION {{<<Program(o, before, m), Program(o, after, m), a>> :
              before \in {<<1, 3, 3>>, <<1, 2, 3>>}, after \in {<<1, 2, 3>>, <<3, 1, 3>>},
              a \in {{0}, {1}, {2}}, m \in EdgeSets(MoreEdges(o), 2)} : o \in Owners})

-----------------------------------------------------------------------------
Topics == {"canon", "slice", "export", "delta", "solve", "bounded"}
Next == PickCanon \/ PickSlice \/ PickExport \/ PickRequest \/ PickProgram \/ PickEdit

\* Canonical ids and fingerprints are of the graph, not of how it was given:
\* they do not depend on node ids or on the order of the export's arrays, a
\* strong fingerprint survives the refactorings it claims, and a slice is the
\* whole cone of its sink (CanonicalGraph).
IdentityIsOfTheGraph(x) ==
    /\ topic = "canon" => Graph!CanonicalIsInvariant(x[1], x[2])
    /\ topic = "slice" => Graph!FingerprintIsStable(x[1], x[2], x[3]) /\ Graph!SliceIsTheCone(x[1], x[2])
    /\ topic = "export" => Graph!MapIsOrderFree(x[1])

\* The findings are the sinks that sources reach, with a path each; an
\* incremental graph is what its delta says, and a bounded solve is exact on
\* what it visits (CanonicalGraph, TaintSolver).
AnalysisIsExact(x) ==
    /\ topic = "delta" => Graph!DeltaIsExact(x[1])
    /\ topic = "solve" => Taint!SolverIsReachability(x[1], x[2], Order)
    /\ topic = "bounded" => Taint!IncrementalAgrees(x[1], x[2], Rules, x[3], Order)
=============================================================================
