---------------------------- MODULE TaintSolver ----------------------------
(***************************************************************************)
(* The taint solver of the analysis core: the interprocedural skeleton of  *)
(* a graph (analysis/ifds/supergraph.py) and the tabulation over it, whole *)
(* or bounded to the callers of a change (analysis/ifds/solver.py).        *)
(*                                                                         *)
(* Graphs are those of CanonicalGraph.  A specification is a record: its   *)
(* engine and the sequence of its clauses, each a role and a pattern.  A   *)
(* pattern matches a node when it is the node's operator or literal.  A    *)
(* fact is the number of a (source node, source clause) pair.  The result  *)
(* of canonical_order is an input here, and may be any order.              *)
(***************************************************************************)
EXTENDS CanonicalGraph, Functions, TLC

NoProc == -1

(* The skeleton's own reading of a label. *)
Op(g, n) == g.label[n][2]
IsMethod(g, n) == g.label[n][1] = MethodKind
FqnOf(g, n) == IF SubSeq(g.label[n], 3, 4) # <<0, 0>> THEN SubSeq(g.label[n], 3, 4) ELSE DeclOf(g, n)

IndexIn(order) == [n \in ToSet(order) |-> CHOOSE i \in DOMAIN order : order[i] = n]
SortedBy(index, s) == SortSeq(s, LAMBDA a, b : index[a] < index[b])

(* The procedure of a node: a method is its own; any other node belongs to *)
(* the last method, in canonical order, with the name of its enclosing     *)
(* declaration, if there is one.                                           *)
ProcOf(g, index) ==
  LET named(f) == {m \in ToSet(g.nodes) : IsMethod(g, m) /\ FqnOf(g, m) = f /\ f # <<0, 0>>}
      Owner(n) == IF IsMethod(g, n) THEN n
                  ELSE LET ms == named(DeclOf(g, n))
                       IN  IF ms = {} THEN NoProc
                           ELSE CHOOSE m \in ms : \A o \in ms : index[o] <= index[m]
  IN  [n \in ToSet(g.nodes) |-> Owner(n)]

(* build_supergraph: control-flow successors and called procedures of each *)
(* node, both in canonical order, and the callers of each procedure.       *)
Supergraph(g, order) ==
  LET index == IndexIn(order)
      procOf == ProcOf(g, index)
      Targets(n, kind, Keep(_)) ==
        LET es == SelectSeq(g.edges, LAMBDA e : e.kind = kind /\ e.src = n /\ Keep(e.dst))
        IN  SortedBy(index, [i \in DOMAIN es |-> es[i].dst])
      procs == {n \in ToSet(g.nodes) : IsMethod(g, n)}
  IN  [index |-> index, procOf |-> procOf, procs |-> procs,
       cfgSucc |-> [n \in ToSet(g.nodes) |-> Targets(n, CFG, LAMBDA d : TRUE)],
       callSucc |-> [n \in ToSet(g.nodes) |-> Targets(n, CALL, LAMBDA d : IsMethod(g, d))],
       callers |-> [p \in procs |-> {procOf[e.src] : e \in {f \in ToSet(g.edges) : f.kind = CALL /\ f.dst = p}} \ {NoProc}]]

(* A plausible slip: callers are followed one level only. *)
TransitiveCallers_Direct(sg, seed) == UNION {sg.callers[p] : p \in seed \cap sg.procs}

(* transitive_callers: everything that can reach a procedure of the seed. *)
TransitiveCallers(sg, seed) ==
  LET RECURSIVE Up(_, _)
      Up(stack, out) ==
        IF stack = <<>> THEN out
        ELSE LET p == Last(stack)
                 new == (IF p \in sg.procs THEN sg.callers[p] ELSE {}) \ out
             IN  Up(Front(stack) \o SetToSeq(new), out \cup new)
  IN  Up(SetToSeq(seed), {})

-----------------------------------------------------------------------------
(* solver.py                                                               *)

Matches(pattern, g, n) == pattern = Op(g, n) /\ Op(g, n) # 0
SanitizedAt(g, spec, n) == \E c \in ToSet(spec.clauses) : c.role = "sanitize" /\ Matches(c.pattern, g, n)
IsSink(g, spec, n) == \E c \in ToSet(spec.clauses) : c.role = "sink" /\ Matches(c.pattern, g, n)

(* _seed_sources: facts are numbered from 0 over the nodes by id and, at   *)
(* each, the source clauses in order.                                      *)
SeedSources(g, spec) ==
  LET sources == SelectSeq(spec.clauses, LAMBDA c : c.role = "source")
      At(n) == LET hits == SelectSeq(sources, LAMBDA c : Matches(c.pattern, g, n))
               IN  [i \in DOMAIN hits |-> n]
      all == FlattenSeq([i \in DOMAIN g.nodes |-> At(SortSeq(g.nodes, <)[i])])
  IN  [i \in DOMAIN all |-> <<all[i], i - 1>>]

(* add: a fact that is new at a node is recorded with its discoverer, once,*)
(* and put on the worklist.                                                *)
Add(acc, item, from) ==
  IF item \in acc.facts THEN acc
  ELSE [facts |-> acc.facts \cup {item}, pred |-> acc.pred @@ (item :> from), work |-> acc.work \cup {item}]

(* What the callee's summary adds at the return sites of a call. *)
Splice(sg, summaries, acc, item, callee) ==
  LET exits == IF callee \in DOMAIN summaries /\ item[2] \in DOMAIN summaries[callee]
               THEN SetToSortSeq(summaries[callee][item[2]], <) ELSE <<>>
      Returns(a, exit) == FoldLeft(LAMBDA b, ret : Add(b, <<ret, exit>>, item), a, sg.cfgSucc[item[1]])
  IN  FoldLeft(Returns, acc, exits)

(* The body of the worklist loop: a sanitizer stops the fact; otherwise it *)
(* moves to the control-flow successors and into the procedures called     *)
(* that are in scope.                                                      *)
Propagate(g, spec, sg, scope, summaries, acc, item) ==
  LET flowed == FoldLeft(LAMBDA a, s : Add(a, <<s, item[2]>>, item), acc, sg.cfgSucc[item[1]])
      Enter(a, p) == IF p \notin scope THEN a
                     ELSE Splice(sg, summaries, Add(a, <<p, item[2]>>, item), item, p)
  IN  IF SanitizedAt(g, spec, item[1]) THEN acc ELSE FoldLeft(Enter, flowed, sg.callSucc[item[1]])

(* The summaries of the visited procedures: each entry fact leads to every *)
(* fact of the body.                                                       *)
Summaries(sg, facts, visited, prior) ==
  LET At(n) == {i[2] : i \in {j \in facts : j[1] = n}}
      Whole(p) == {i[2] : i \in {j \in facts : sg.procOf[j[1]] = p}}
  IN  [p \in visited |-> [f \in At(p) |-> Whole(p)]] @@ prior

(* _tabulate: seeds in scope, then the least item of the worklist by       *)
(* canonical order and fact until none is left.                            *)
Tabulate(g, spec, sg, scope, prior) ==
  LET Seed(acc, item) == IF sg.procOf[item[1]] \in scope THEN Add(acc, item, <<>>) ELSE acc
      Before(a, b) == sg.index[a[1]] < sg.index[b[1]] \/ (a[1] = b[1] /\ a[2] <= b[2])
      RECURSIVE Loop(_)
      Loop(acc) ==
        IF acc.work = {} THEN acc
        ELSE LET item == CHOOSE i \in acc.work : \A j \in acc.work : i = j \/ Before(i, j)
             IN  Loop(Propagate(g, spec, sg, scope, prior, [acc EXCEPT !.work = @ \ {item}], item))
      done == Loop(FoldLeft(Seed, [facts |-> {}, pred |-> <<>>, work |-> {}], SeedSources(g, spec)))
      visited == {sg.procOf[i[1]] : i \in done.facts} \ {NoProc}
  IN  [facts |-> done.facts, pred |-> done.pred, visited |-> visited,
       summaries |-> Summaries(sg, done.facts, visited, prior)]

(* _witness: back along the discoverers to a seed, never twice the same. *)
Witness(pred, sink, fact) ==
  LET RECURSIVE Back(_, _)
      Back(item, seen) ==
        IF item = <<>> \/ item \in seen THEN <<>>
        ELSE Append(Back(pred[item], seen \cup {item}), item[1])
  IN  Back(<<sink, fact>>, {})

(* _build_findings: one for every fact at a sink, stamped with the pinned  *)
(* parameters and the order's hash.                                        *)
BuildFindings(g, spec, tab, pins, order) ==
  {[sink |-> i[1], fact |-> i[2], witness |-> Witness(tab.pred, i[1], i[2]), pins |-> pins,
    engine |-> spec.engine, orderHash |-> order.hash, class |-> order.class] :
      i \in {j \in tab.facts : IsSink(g, spec, j[1])}}

(* _hash_solution: the digest of the (sink, fact, witness) rows, by        *)
(* canonical index (nodes that are gone last) and fact.  It is the set of  *)
(* rows as long as no two have the same index and fact.                    *)
HashSolution(findings) == {<<f.sink, f.fact, f.witness>> : f \in findings}

RefusedRun(why) == [error |-> why, findings |-> {}, hash |-> {}, visited |-> {},
                    summaries |-> [header |-> <<>>, procs |-> <<>>]]

(* _require and the engine guard. *)
Unpinned(pins) == "" \in ToSet(pins)
BadEngine(spec) == spec.engine \notin {"ifds", "ide"}

(* solve: full tabulation. *)
Solve(g, spec, pins, order) ==
  IF Unpinned(pins) THEN RefusedRun("unpinned")
  ELSE IF BadEngine(spec) THEN RefusedRun("non-distributive")
  ELSE LET sg == Supergraph(g, order.order)
           tab == Tabulate(g, spec, sg, sg.procs, <<>>)
           findings == BuildFindings(g, spec, tab, pins, order)
       IN  [error |-> "", findings |-> findings, hash |-> HashSolution(findings), visited |-> tab.visited,
            summaries |-> [header |-> pins, procs |-> tab.summaries]]

(* SummaryCache.copy and invalidate. *)
Invalidated(summaries, procs) == [p \in DOMAIN summaries \ procs |-> summaries[p]]

(* The prior findings whose sink is in no procedure of the closure, a sink *)
(* that no longer exists included.                                         *)
Preserved(sg, priorFindings, closure) ==
  {f \in priorFindings : f.sink \notin DOMAIN sg.procOf \/ sg.procOf[f.sink] \notin closure}

(* incremental_solve: the affected procedures and their callers are        *)
(* tabulated again; prior findings elsewhere stand.                        *)
IncrementalSolve(g, spec, affected, prior, pins, order) ==
  IF Unpinned(pins) THEN RefusedRun("unpinned")
  ELSE IF BadEngine(spec) THEN RefusedRun("non-distributive")
  ELSE IF prior.summaries.header # pins THEN RefusedRun("summary-version")
  ELSE LET sg == Supergraph(g, order.order)
           closure == affected \cup TransitiveCallers(sg, affected)
           tab == Tabulate(g, spec, sg, closure, Invalidated(prior.summaries.procs, closure))
           findings == BuildFindings(g, spec, tab, pins, order) \cup Preserved(sg, prior.findings, closure)
       IN  IF \E f \in prior.findings : f.pins # pins THEN RefusedRun("finding-version")
           ELSE [error |-> "", findings |-> findings, hash |-> HashSolution(findings), visited |-> tab.visited,
                 summaries |-> [header |-> pins, procs |-> tab.summaries]]

-----------------------------------------------------------------------------
(* Properties                                                              *)

(* A step a fact can take: along control flow or into a called procedure.  *)
FlowsTo(g, m, n) == \E e \in ToSet(g.edges) : e.src = m /\ e.dst = n /\ (e.kind = CFG \/ (e.kind = CALL /\ IsMethod(g, n)))

(* The seeds of a full run: sources that belong to a procedure. *)
Seeds(g, spec, sg) == {i \in ToSet(SeedSources(g, spec)) : sg.procOf[i[1]] # NoProc}

\* A full run (solve, _tabulate, _witness) reports exactly the sinks that a
\* source reaches without passing through a sanitizer, and the witness of
\* each finding is such a path: it starts at a source of that fact, ends at
\* the sink, takes one flow step at a time, repeats no node and has no
\* sanitized node before its end.
SolverIsReachability(g, spec, order) ==
  LET sg == Supergraph(g, order.order)
      seeds == Seeds(g, spec, sg)
      result == Solve(g, spec, <<"s", "e">>, order)
      found == {<<f.sink, f.fact>> : f \in result.findings}
      Closed(S, fact) == /\ \A i \in seeds : i[2] = fact => i[1] \in S
                         /\ \A m \in S, n \in ToSet(g.nodes) : FlowsTo(g, m, n) /\ ~SanitizedAt(g, spec, m) => n \in S
      Reaches(fact, n) == \A S \in SUBSET ToSet(g.nodes) : Closed(S, fact) => n \in S
  IN  /\ found = {<<n, f>> \in ToSet(g.nodes) \X {i[2] : i \in seeds} : IsSink(g, spec, n) /\ Reaches(f, n)}
      /\ \A f \in result.findings :
            /\ <<f.witness[1], f.fact>> \in seeds
            /\ Last(f.witness) = f.sink
            /\ IsInjective(f.witness)
            /\ \A i \in 1 .. Len(f.witness) - 1 :
                  FlowsTo(g, f.witness[i], f.witness[i + 1]) /\ ~SanitizedAt(g, spec, f.witness[i])

\* A bounded run (incremental_solve) visits only the affected procedures and
\* their transitive callers, and says of the sinks of those procedures exactly
\* what a full run over the new graph says, whatever the prior run was.  Over
\* an unchanged graph it agrees with the full run on every finding, witness
\* and on the solution hash, whatever is declared affected.
IncrementalAgrees(old, new, spec, affected, order) ==
  LET pins == <<"s", "e">>
      full == Solve(new, spec, pins, order)
      bounded == IncrementalSolve(new, spec, affected, Solve(old, spec, pins, order), pins, order)
      sg == Supergraph(new, order.order)
      closure == affected \cup {p \in sg.procs : \A S \in SUBSET sg.procs :
                    (\A q \in affected \cup S : q \in sg.procs => sg.callers[q] \subseteq S) => p \in S}
      Within(fs) == {f \in fs : f.sink \in DOMAIN sg.procOf /\ sg.procOf[f.sink] \in closure}
  IN  /\ bounded.visited \subseteq closure
      /\ Within(bounded.findings) = Within(full.findings)
      /\ old = new => bounded.findings = full.findings /\ bounded.hash = full.hash
=============================================================================
