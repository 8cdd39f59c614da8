--------------------------- MODULE CanonicalGraph ---------------------------
(***************************************************************************)
(* The graph identities of the analysis core: the export mapper            *)
(* (analysis/cpg_ingest/mapper.py), the canonical order and its encoding   *)
(* (analysis/ordering.py), the slice fingerprint (analysis/fingerprint.py),*)
(* the fingerprint of a located oracle finding                             *)
(* (services/scan/oracle_fingerprint.py) and the incremental graph         *)
(* maintenance (analysis/cpg_delta.py), as operators.                      *)
(*                                                                         *)
(* A code property graph is a record: nodes, the list of its node ids;     *)
(* label, the framed label of each node; path, its structural path; edges, *)
(* the list of its directed typed edges.  Text is a number, and the order  *)
(* of two byte strings the order of the numbers, which is as good as any:  *)
(* the code only needs the order to be total.  A label is the flat         *)
(* sequence <<kind, operator or literal, package and name of the resolved  *)
(* declaration, package and name of the enclosing one>>; 0 is the empty    *)
(* text.  SHA-256 is the identity on the framed sequence it is given.      *)
(***************************************************************************)
EXTENDS Integers, Sequences, FiniteSets, SequencesExt

AST == 1
CFG == 2
CALL == 3
PDG == 4

CallKind == 1
IdentifierKind == 2
MethodKind == 3
LiteralKind == 4

(* Framed byte strings compare as flat sequences. *)
LexLess(a, b) ==
  \/ \E i \in 1 .. Min({Len(a), Len(b)}) :
        /\ a[i] < b[i]
        /\ \A j \in 1 .. i - 1 : a[j] = b[j]
  \/ Len(a) < Len(b) /\ \A j \in 1 .. Len(a) : a[j] = b[j]

(* Tuples of byte strings compare component by component. *)
TupleLess(a, b) ==
  \E i \in DOMAIN a : LexLess(a[i], b[i]) /\ \A j \in 1 .. i - 1 : a[j] = b[j]

Edge(k, s, d) == [kind |-> k, src |-> s, dst |-> d]

-----------------------------------------------------------------------------
(* ordering.py                                                             *)

(* validate_cpg: ids are unique, edges end at nodes and have a kind.       *)
Valid(g) ==
  /\ IsInjective(g.nodes)
  /\ \A e \in ToSet(g.edges) : {e.src, e.dst} \subseteq ToSet(g.nodes) /\ e.kind # 0

(* encode_graph: the labels in the given order and the sorted edge ranks,  *)
(* with multiplicity and no node id.                                       *)
Encode(g, order) ==
  LET rank == [n \in ToSet(order) |-> CHOOSE i \in DOMAIN order : order[i] = n]
      rows == [i \in DOMAIN g.edges |->
                 <<g.edges[i].kind, rank[g.edges[i].src], rank[g.edges[i].dst]>>]
  IN  <<Len(order)>>
        \o FlattenSeq([i \in DOMAIN order |-> g.label[order[i]]])
        \o <<Len(rows)>>
        \o FlattenSeq(SortSeq(rows, LexLess))

(* _intern: the rank of each signature among the distinct ones. *)
Intern(signature) ==
  LET distinct == {signature[n] : n \in DOMAIN signature}
      rank == [s \in distinct |-> Cardinality({t \in distinct : LexLess(t, s)})]
  IN  [n \in DOMAIN signature |-> rank[signature[n]]]

(* The kinds of the edges from a to b, sorted. *)
Pairs(g, a, b) ==
  LET between == SelectSeq(g.edges, LAMBDA e : e.src = a /\ e.dst = b)
  IN  SortSeq([i \in DOMAIN between |-> between[i].kind], <)

(* One round of vertex refinement: a node's colour, then the sorted        *)
(* (kind, colour) rows of its incoming and of its outgoing edges.          *)
Round(g, colors) ==
  LET Rows(es, End(_)) ==
        LET rows == [i \in DOMAIN es |-> <<es[i].kind, colors[End(es[i])]>>]
        IN  <<Len(rows)>> \o FlattenSeq(SortSeq(rows, LexLess))
      Incoming(n) == Rows(SelectSeq(g.edges, LAMBDA e : e.dst = n), LAMBDA e : e.src)
      Outgoing(n) == Rows(SelectSeq(g.edges, LAMBDA e : e.src = n), LAMBDA e : e.dst)
  IN  Intern([n \in DOMAIN colors |-> <<colors[n]>> \o Incoming(n) \o Outgoing(n)])

Colours(colors) == Cardinality({colors[n] : n \in DOMAIN colors})

RECURSIVE Stabilise(_, _)
Stabilise(g, colors) ==
  LET refined == Round(g, colors)
  IN  IF Colours(refined) = Colours(colors) THEN refined ELSE Stabilise(g, refined)

(* _GraphIndex.refine: markers individualise the nodes chosen so far. *)
Refine(g, markers) ==
  Stabilise(g, Intern([n \in ToSet(g.nodes) |->
                         Append(g.label[n], IF n \in DOMAIN markers THEN markers[n] ELSE 0)]))

(* A plausible slip: nodes refinement cannot tell apart are taken to be    *)
(* symmetric.                                                              *)
SwapIsAutomorphism_Heuristic(g, a, b) == g.label[a] = g.label[b]

(* swap_is_automorphism: exchanging a and b and fixing every other node    *)
(* maps the graph to itself.                                               *)
SwapIsAutomorphism(g, a, b) ==
  /\ g.label[a] = g.label[b]
  /\ Pairs(g, a, a) = Pairs(g, b, b)
  /\ Pairs(g, a, b) = Pairs(g, b, a)
  /\ \A o \in ToSet(g.nodes) \ {a, b} :
        Pairs(g, a, o) = Pairs(g, b, o) /\ Pairs(g, o, a) = Pairs(g, o, b)

(* The cell that is split next: the smallest ambiguous one, the lowest     *)
(* colour among those.                                                     *)
TargetCell(colors) ==
  LET Cell(c) == {n \in DOMAIN colors : colors[n] = c}
      sizes == {<<Cardinality(Cell(c)), c>> :
                  c \in {d \in {colors[n] : n \in DOMAIN colors} : Cardinality(Cell(d)) > 1}}
  IN  IF sizes = {} THEN {}
      ELSE Cell((CHOOSE s \in sizes : \A t \in sizes : s = t \/ LexLess(s, t))[2])

(* The members of a cell, in id order, that no certified swap maps to an   *)
(* earlier one.                                                            *)
Representatives(g, cell) ==
  FoldLeft(LAMBDA reps, n :
             IF \E o \in ToSet(reps) : SwapIsAutomorphism(g, n, o) THEN reps ELSE Append(reps, n),
           <<>>, SetToSortSeq(cell, <))

Exhausted == [done |-> FALSE, order |-> <<>>, encoded |-> <<>>, states |-> 0]

(* _canonical_search: depth first over the individualised markings, at     *)
(* most limit of them in all; the least (encoding, order) leaf wins.       *)
RECURSIVE Search(_, _, _, _, _)
Search(g, limit, pending, best, states) ==
  IF pending = <<>> THEN [best EXCEPT !.states = states]
  ELSE IF states = limit THEN [Exhausted EXCEPT !.states = states]
  ELSE
    LET markers == Last(pending)
        rest == Front(pending)
        colors == Refine(g, markers)
        cell == TargetCell(colors)
    IN  IF cell = {}
        THEN LET order == SortSeq(g.nodes, LAMBDA m, n : colors[m] < colors[n])
                 encoded == Encode(g, order)
                 better == \/ ~best.done
                           \/ TupleLess(<<encoded, order>>, <<best.encoded, best.order>>)
             IN  Search(g, limit, rest,
                        IF better
                        THEN [done |-> TRUE, order |-> order, encoded |-> encoded, states |-> 0]
                        ELSE best,
                        states + 1)
        ELSE LET reps == Reverse(Representatives(g, cell))
                 marked == Cardinality(DOMAIN markers) + 1
             IN  Search(g, limit,
                        rest \o [i \in DOMAIN reps |->
                                   [n \in DOMAIN markers \cup {reps[i]} |->
                                      IF n \in DOMAIN markers THEN markers[n] ELSE marked]],
                        best, states + 1)

(* _stable_order_fallback: the order of a weak identity, from the input. *)
StableOrder(g) ==
  LET Incident(n) ==
        SortSeq(FlattenSeq([i \in DOMAIN g.edges |->
                  (IF g.edges[i].src = n THEN <<g.edges[i].kind>> ELSE <<>>)
                  \o (IF g.edges[i].dst = n THEN <<g.edges[i].kind>> ELSE <<>>)]), <)
      Key(n) == <<SubSeq(g.label[n], 5, 6), g.path[n], Incident(n), g.label[n], <<n>>>>
  IN  SortSeq(g.nodes, LAMBDA m, n : TupleLess(Key(m), Key(n)))

(* canonical_order, on a budget of which `used` search states are spent    *)
(* (normalisation and the final order share one).  The deadline of the     *)
(* budget is not in the result: a late call raises and identifies nothing. *)
CanonicalOrder(g, limit, used) ==
  LET found == Search(g, limit, <<[n \in {} |-> 0]>>, Exhausted, used)
      order == IF found.done THEN found.order ELSE StableOrder(g)
  IN  [class |-> IF found.done THEN "strong" ELSE "weak",
       order |-> order,
       hash |-> <<IF found.done THEN "strong" ELSE "weak", Encode(g, order)>>,
       states |-> found.states]

-----------------------------------------------------------------------------
(* fingerprint.py                                                          *)

Dataflow == {CFG, CALL, PDG}

(* A graph without node ids of its own: nodes are renumbered from 0 in the *)
(* order of `keep`, as CPG.add_node numbers them.                          *)
Rebuild(g, keep, edges, label) ==
  LET New(n) == (CHOOSE i \in DOMAIN keep : keep[i] = n) - 1
      Old(i) == keep[i + 1]
      ids == 0 .. Len(keep) - 1
  IN  [nodes |-> [i \in DOMAIN keep |-> i - 1],
       label |-> [i \in ids |-> label[Old(i)]],
       path |-> [i \in ids |-> g.path[Old(i)]],
       edges |-> [i \in DOMAIN edges |->
                    Edge(edges[i].kind, New(edges[i].src), New(edges[i].dst))]]

Preds(g, n) == {e.src : e \in {f \in ToSet(g.edges) : f.kind \in Dataflow /\ f.dst = n}}

(* The walk as it once was: a node that is on the slice already is not     *)
(* visited, so dependencies of intermediate witness nodes are lost.        *)
RECURSIVE Cone_SkipMembers(_, _, _, _)
Cone_SkipMembers(g, stack, traversed, onSlice) ==
  IF stack = <<>> THEN onSlice
  ELSE LET cur == Last(stack)
           preds == Preds(g, cur)
       IN  Cone_SkipMembers(g, Front(stack) \o SetToSeq(preds \ onSlice),
                            traversed \cup {cur}, onSlice \cup preds)

(* The reverse walk from the sink over the dataflow edges. *)
RECURSIVE Cone(_, _, _, _)
Cone(g, stack, traversed, onSlice) ==
  IF stack = <<>> THEN onSlice
  ELSE LET cur == Last(stack)
           preds == Preds(g, cur)
       IN  IF cur \in traversed THEN Cone(g, Front(stack), traversed, onSlice)
           ELSE Cone(g, Front(stack) \o SetToSeq(preds \ (traversed \cup {cur})),
                     traversed \cup {cur}, onSlice \cup preds)

OnSlice(g, witness) == Cone(g, <<Last(witness)>>, {}, ToSet(witness))

(* _backward_interprocedural_slice: the subgraph the cone and the witness  *)
(* induce, with every edge kind, and the witness in its numbering.         *)
Slice(g, witness) ==
  LET keep == SetToSortSeq(OnSlice(g, witness), <)
      induced == SelectSeq(g.edges, LAMBDA e : {e.src, e.dst} \subseteq ToSet(keep))
  IN  [cpg |-> Rebuild(g, keep, induced, g.label),
       witness |-> [i \in DOMAIN witness |->
                      (CHOOSE j \in DOMAIN keep : keep[j] = witness[i]) - 1]]

Relabel(g, label) == Rebuild(g, g.nodes, g.edges, label)

IsLocal(g, n) == g.label[n][1] = IdentifierKind

(* The name %local<i>: outside the texts a program can spell. *)
LocalName(i) == 100 + i

(* The slice whose locals have no name, so that no name orders anything. *)
Anonymous(g) ==
  Relabel(g, [n \in ToSet(g.nodes) |->
               IF IsLocal(g, n) THEN [g.label[n] EXCEPT ![2] = 0] ELSE g.label[n]])

(* _alpha_rename_locals: locals are numbered in the canonical order of the *)
(* anonymous slice; a weak order gives up on the whole strong path.        *)
AlphaRename(g, limit) ==
  LET ordering == CanonicalOrder(Anonymous(g), limit, 0)
      locals == SelectSeq(ordering.order, LAMBDA n : IsLocal(g, n))
      Counter(n) == (CHOOSE i \in DOMAIN locals : locals[i] = n) - 1
  IN  IF \A n \in ToSet(g.nodes) : ~IsLocal(g, n)
      THEN [strong |-> TRUE, cpg |-> g, states |-> 0]
      ELSE [strong |-> ordering.class = "strong", states |-> ordering.states,
            cpg |-> Relabel(g, [n \in ToSet(g.nodes) |->
                                IF IsLocal(g, n) THEN [g.label[n] EXCEPT ![2] = LocalName(Counter(n))]
                                ELSE g.label[n]])]

(* The token a package prefix collapses to. *)
Pkg == 99

(* _fqn_normalise: of a qualified name only the last segment is kept. *)
FqnNormalise(g) ==
  Relabel(g, [n \in ToSet(g.nodes) |->
    [g.label[n] EXCEPT ![3] = IF g.label[n][4] = 0 THEN 0 ELSE Pkg,
                       ![5] = IF g.label[n][6] = 0 THEN 0 ELSE Pkg]])

(* _source_witness_hash, for a witness every step of which is an edge. *)
Connected(g, witness) ==
  \A i \in 1 .. Len(witness) - 1 : Pairs(g, witness[i], witness[i + 1]) # <<>>

SourceWitness(g, witness, digest) ==
  <<digest, witness, [i \in 1 .. Len(witness) - 1 |-> Pairs(g, witness[i], witness[i + 1])]>>

Refused(why) == [class |-> why, namespace |-> "none", states |-> 0, identity |-> <<>>]

(* _compute: the fingerprint of a witness; digest 0 is the call without a  *)
(* source tree digest.  The three middle passes return their argument.     *)
Fingerprint(g, witness, digest, limit) ==
  IF ~Valid(g) THEN Refused("invalid")
  ELSE IF witness = <<>> THEN Refused("EmptyWitness")
  ELSE IF ~(ToSet(witness) \subseteq ToSet(g.nodes)) THEN Refused("WitnessNotInCPG")
  ELSE IF digest # 0 /\ ~Connected(g, witness) THEN Refused("disconnected")
  ELSE
    LET slice == Slice(g, witness)
        renamed == AlphaRename(slice.cpg, limit)
        normal == FqnNormalise(renamed.cpg)
        ordering == CanonicalOrder(normal, limit, renamed.states)
        strong == renamed.strong /\ ordering.class = "strong"
    IN  [class |-> IF strong THEN "strong" ELSE "weak",
         namespace |-> IF strong THEN "slice-normal-form"
                       ELSE IF digest = 0 THEN "witness-edge-sequence" ELSE "source-witness",
         states |-> IF renamed.strong THEN ordering.states ELSE renamed.states,
         identity |-> IF strong THEN <<Encode(normal, ordering.order)>>
                      ELSE IF digest = 0 THEN <<slice.witness>>
                      ELSE SourceWitness(g, witness, digest)]

(* eligible_for_baseline_suppression *)
Eligible(result) == result.class = "strong" /\ result.namespace = "slice-normal-form"

-----------------------------------------------------------------------------
(* oracle_fingerprint.py: locations are a side table from node ids to      *)
(* [file, line, column], and only choose the node.                         *)

(* locate_sink_node: a call before any other node of the line, then the    *)
(* first known column, then the lowest id; {} when the line has no node.   *)
LocateSink(g, locations, file, line) ==
  LET Key(n) == <<IF g.label[n][1] = CallKind THEN 0 ELSE 1,
                  IF locations[n].column = 0 THEN 1 ELSE 0, locations[n].column, n>>
      candidates == {n \in DOMAIN locations \cap ToSet(g.nodes) :
                       locations[n].file = file /\ locations[n].line = line}
  IN  IF line <= 0 \/ file = 0 THEN {}
      ELSE {n \in candidates : \A m \in candidates : m = n \/ LexLess(Key(n), Key(m))}

(* fingerprint_oracle_finding *)
OracleFingerprint(g, locations, file, line, limit) ==
  LET sink == LocateSink(g, locations, file, line)
  IN  IF sink = {} THEN Refused("unresolved")
      ELSE Fingerprint(g, <<CHOOSE n \in sink : TRUE>>, 0, limit)
-----------------------------------------------------------------------------
(* cpg_ingest/mapper.py.  A raw node is a record [id, label, op, call,     *)
(* full, file, line, col]: call and full are qualified names <<package,    *)
(* name>>, 0 is a missing value.  A raw edge has one of the raw kinds.     *)

Declarations == {MethodKind}
Unmapped == 0
EdgeKind(raw) ==
  CASE raw = "AST" -> AST
    [] raw = "CFG" -> CFG
    [] raw \in {"CDG", "REACHING_DEF"} -> PDG
    [] OTHER -> Unmapped

RawNode(export, id) == export.nodes[CHOOSE i \in DOMAIN export.nodes : export.nodes[i].id = id]
RawIds(export) == {export.nodes[i].id : i \in DOMAIN export.nodes}

AstEdges(export) == SelectSeq(export.edges, LAMBDA e : e.kind = "AST")

(* _node_sort_key: siblings by place, the raw id last. *)
SiblingKey(export, id, inherited) ==
  LET n == RawNode(export, id)
  IN  <<IF n.file # 0 THEN n.file ELSE inherited, n.line, n.col, id>>

SiblingSort(export, ids, inherited) ==
  SortSeq(ids, LAMBDA a, b : LexLess(SiblingKey(export, a, inherited),
                                     SiblingKey(export, b, inherited)))

(* _walk_ast: a pre-order walk that numbers the nodes and hands down the   *)
(* enclosing declaration, the file name and the position path.             *)
RECURSIVE WalkAst(_, _, _, _)
WalkAst(export, stack, seen, counter) ==
  IF stack = <<>> THEN seen
  ELSE
    LET top == Last(stack)
        n == RawNode(export, top.id)
        isDecl == n.label \in Declarations
        decl == IF isDecl THEN n.full ELSE top.decl
        file == IF n.file # 0 THEN n.file ELSE top.file
        path == IF isDecl THEN <<>> ELSE top.path
        edges == SelectSeq(AstEdges(export), LAMBDA e : e.src = top.id)
        children == SiblingSort(export, [i \in DOMAIN edges |-> edges[i].dst], file)
        pushed == Reverse([i \in DOMAIN children |->
                    [id |-> children[i], decl |-> decl, file |-> file, path |-> Append(path, i - 1)]])
        row == [index |-> counter, path |-> path, decl |-> decl, file |-> file]
    IN  WalkAst(export, Front(stack) \o pushed,
                [m \in DOMAIN seen \cup {top.id} |-> IF m = top.id THEN row ELSE seen[m]],
                counter + 1)

(* The walk from the sorted roots.  Nodes it does not reach would need a   *)
(* cycle of AST edges, which the front end does not emit.                  *)
Walked(export) ==
  LET children == {e.dst : e \in ToSet(AstEdges(export))}
      roots == SiblingSort(export, SetToSeq(RawIds(export) \ children), 0)
      stack == Reverse([i \in DOMAIN roots |->
                 [id |-> roots[i], decl |-> <<0, 0>>, file |-> 0, path |-> <<>>]])
  IN  WalkAst(export, stack, [m \in {} |-> 0], 0)

(* _operator_or_literal and _resolved_fqn *)
RawLabel(n, decl) ==
  <<n.label, IF n.label \in {LiteralKind, CallKind} THEN n.op ELSE 0>>
    \o (CASE n.label = CallKind -> n.call
          [] n.label \in Declarations -> n.full
          [] OTHER -> <<0, 0>>)
    \o decl

EmissionOrder(export, seen) ==
  LET Key(id) == LET n == RawNode(export, id)
                 IN  <<seen[id].file, n.line, n.col, seen[id].index>>
  IN  SortSeq(SetToSeq(RawIds(export)), LAMBDA a, b : LexLess(Key(a), Key(b)))

(* map_export_with_locations *)
MapExport(export) ==
  LET ends == UNION {{e.src, e.dst} : e \in ToSet(export.edges)}
      seen == Walked(export)
      order == EmissionOrder(export, seen)
      New(id) == (CHOOSE i \in DOMAIN order : order[i] = id) - 1
      ids == 0 .. Len(order) - 1
      At(i) == RawNode(export, order[i + 1])
      rows == [i \in DOMAIN export.edges |->
                 <<EdgeKind(export.edges[i].kind), New(export.edges[i].src), New(export.edges[i].dst)>>]
      sorted == SortSeq(rows, LexLess)
  IN  IF ~(ends \subseteq RawIds(export)) THEN [outcome |-> "UnknownNodeReference"]
      ELSE IF \E e \in ToSet(export.edges) : EdgeKind(e.kind) = Unmapped
           THEN [outcome |-> "UnknownEdgeKind"]
      ELSE [outcome |-> "mapped",
            cpg |-> [nodes |-> [i \in DOMAIN order |-> i - 1],
                     label |-> [i \in ids |-> RawLabel(At(i), seen[order[i + 1]].decl)],
                     path |-> [i \in ids |-> seen[order[i + 1]].path],
                     edges |-> [i \in DOMAIN sorted |->
                                  Edge(sorted[i][1], sorted[i][2], sorted[i][3])]],
            locations |-> [i \in ids |-> [file |-> seen[order[i + 1]].file,
                                          line |-> At(i).line, column |-> At(i).col]]]

-----------------------------------------------------------------------------
(* cpg_delta.py.  A request names the declarations and types a commit      *)
(* changed; the views are functions from names to sets of names; mint is   *)
(* the injected reparser, the ids it gives a declaration's new nodes as    *)
(* offsets from the base it is told (a well-behaved one uses no negative). *)

DeclOf(g, n) == SubSeq(g.label[n], 5, 6)

RECURSIVE Reach(_, _, _)
Reach(view, stack, seen) ==
  IF stack = <<>> THEN seen
  ELSE LET next == view[Last(stack)] \ seen
       IN  Reach(view, Front(stack) \o SetToSeq(next), seen \cup next)

(* _transitive_closure *)
TransitiveClosureOf(view, seeds) == Reach(view, SetToSeq(seeds), seeds)

(* compute_affected *)
Affected(req) ==
  LET callers == {d \in DOMAIN req.calls : req.calls[d] \cap req.changed # {}}
      cone == TransitiveClosureOf(req.subtypes, req.types)
  IN  req.changed
        \cup TransitiveClosureOf(req.references, req.changed)
        \cup callers
        \cup {d \in DOMAIN req.typeOf : req.typeOf[d] \in cone}

(* theta_files = 0.4 and theta_cone = 0.25, as comparisons of products. *)
TooManyFiles(req) == 5 * req.changedFiles > 2 * Max({req.files, 1})
TooWide(req, affected) ==
  4 * Cardinality({n \in ToSet(req.parent.nodes) : DeclOf(req.parent, n) \in affected})
    > Max({Len(req.parent.nodes), 1})

(* _route_for: only a degraded verdict is measured. *)
Route(req, affected) ==
  IF req.verdict # "degraded" THEN req.verdict
  ELSE IF TooManyFiles(req) \/ TooWide(req, affected) THEN "full-reparse"
  ELSE "degraded"

Collision == [ok |-> FALSE, base |-> 0, cpg |-> [nodes |-> <<>>], added |-> {}, addedEdges |-> {}]

(* One declaration of the reparse loop: its nodes, in a chain of CFG       *)
(* edges, join the graph, and the next base lies above them.               *)
Reparse_SameBase(req, preserved, acc, d) ==
  LET ids == [i \in DOMAIN req.mint[d] |-> acc.base + req.mint[d][i]]
      edges == [i \in 1 .. Len(ids) - 1 |-> Edge(CFG, ids[i], ids[i + 1])]
      label == <<CallKind, 1, 0, 0>> \o d
      all == DOMAIN acc.cpg.label \cup ToSet(ids)
  IN  IF ~acc.ok THEN acc
      ELSE IF ToSet(ids) \cap preserved # {} THEN Collision
      ELSE [acc EXCEPT !.cpg = [nodes |-> @.nodes \o ids,
                                label |-> [n \in all |-> IF n \in ToSet(ids) THEN label
                                                         ELSE @.label[n]],
                                path |-> [n \in all |-> <<>>],
                                edges |-> @.edges \o edges],
                       !.added = @ \cup ToSet(ids), !.addedEdges = @ \cup ToSet(edges)]

Reparse(req, preserved, acc, d) ==
  LET next == Reparse_SameBase(req, preserved, acc, d)
      ids == {acc.base + req.mint[d][i] : i \in DOMAIN req.mint[d]}
  IN  IF next.ok /\ ids # {} THEN [next EXCEPT !.base = Max(ids) + 1] ELSE next

(* _build_preserving_new_cpg *)
BuildPreserving(req, affected) ==
  LET parent == req.parent
      kept == SelectSeq(parent.nodes, LAMBDA n : DeclOf(parent, n) \notin affected)
      preserved == ToSet(kept)
      start == [ok |-> TRUE, base |-> IF preserved = {} THEN 0 ELSE Max(preserved) + 1,
                cpg |-> [nodes |-> kept,
                         label |-> [n \in preserved |-> parent.label[n]],
                         path |-> [n \in preserved |-> parent.path[n]],
                         edges |-> SelectSeq(parent.edges,
                                     LAMBDA e : {e.src, e.dst} \subseteq preserved)],
                added |-> {}, addedEdges |-> {}]
      order == SetToSortSeq(affected, LexLess)
      built == FoldLeft(LAMBDA acc, d : Reparse(req, preserved, acc, d), start, order)
  IN  IF ~built.ok THEN [outcome |-> "NodeIdCollision"]
      ELSE [outcome |-> "built", cpg |-> built.cpg, affected |-> affected,
            addedNodes |-> built.added, addedEdges |-> built.addedEdges,
            removedNodes |-> ToSet(parent.nodes) \ ToSet(built.cpg.nodes),
            removedEdges |-> ToSet(parent.edges) \ ToSet(built.cpg.edges)]

(* compute_incremental_cpg *)
IncrementalCpg(req) ==
  LET found == Affected(req)
      route == Route(req, found)
      affected == IF route = "full-reparse"
                  THEN {DeclOf(req.parent, n) : n \in ToSet(req.parent.nodes)}
                  ELSE found
  IN  IF req.parentEnv # req.workerEnv THEN [outcome |-> "EnvDigestMismatch"]
      ELSE BuildPreserving(req, affected)
-----------------------------------------------------------------------------
(* Properties                                                              *)

Bijections(S) == {p \in [S -> S] : \A a, b \in S : p[a] = p[b] => a = b}

(* The same graph under other node ids, listed in another order. *)
Permuted(g, p) ==
  LET ids == ToSet(g.nodes)
      Inv(n) == CHOOSE m \in ids : p[m] = n
  IN  [nodes |-> Reverse([i \in DOMAIN g.nodes |-> p[g.nodes[i]]]),
       label |-> [n \in ids |-> g.label[Inv(n)]],
       path |-> [n \in ids |-> g.path[Inv(n)]],
       edges |-> Reverse([i \in DOMAIN g.edges |->
                   Edge(g.edges[i].kind, p[g.edges[i].src], p[g.edges[i].dst])])]

(* The canonical identity depends on the graph and not on its node ids or  *)
(* list orders: under every renumbering the search takes the same number   *)
(* of states, so the strong/weak class is the same at every budget, and a  *)
(* strong hash is the same hash (canonical_order; the swap certificates    *)
(* may prune the search but never change its result).                      *)
CanonicalIsInvariant(g, limit) ==
  LET r == CanonicalOrder(g, limit, 0)
  IN  \A p \in Bijections(ToSet(g.nodes)) :
        LET s == CanonicalOrder(Permuted(g, p), limit, 0)
        IN  /\ r.class = s.class /\ r.states = s.states
            /\ r.class = "strong" => r.hash = s.hash

(* A refactoring the fingerprint claims to survive: other node ids, other  *)
(* names of locals, other packages.                                        *)
Refactored(g, p, names, packages) ==
  LET h == Permuted(g, p)
      New(l) == [l EXCEPT ![2] = IF l[1] = IdentifierKind THEN names[l[2]] ELSE l[2],
                          ![3] = IF l[4] = 0 THEN 0 ELSE packages[l[3]],
                          ![5] = IF l[6] = 0 THEN 0 ELSE packages[l[5]]]
  IN  [h EXCEPT !.label = [n \in ToSet(h.nodes) |-> New(h.label[n])]]

(* The strong fingerprint of a finding survives renaming locals, moving    *)
(* declarations between packages and renumbering the graph, at every       *)
(* budget with the same class; an identity the baseline may be suppressed  *)
(* by is never a weak one (compute_slice_fingerprint and its passes).      *)
FingerprintIsStable(g, witness, limit) ==
  LET r == Fingerprint(g, witness, 0, limit)
  IN  \A p \in Bijections(ToSet(g.nodes)), names \in Bijections(1 .. 2),
         packages \in Bijections(1 .. 2) :
        LET h == Refactored(g, p, names, packages)
            s == Fingerprint(h, [i \in DOMAIN witness |-> p[witness[i]]], 0, limit)
        IN  /\ r.class = s.class
            /\ Eligible(r) => Eligible(s) /\ r.identity = s.identity

(* The slice is the whole dependence cone: exactly the nodes from which    *)
(* the sink is reachable over dataflow edges, and the witness; branches    *)
(* that enter an intermediate witness node are kept                        *)
(* (_backward_interprocedural_slice).                                      *)
SliceIsTheCone(g, witness) ==
  LET nodes == ToSet(g.nodes)
      Closed(S) == Last(witness) \in S /\ \A n \in S : Preds(g, n) \subseteq S
  IN  OnSlice(g, witness)
        = ToSet(witness) \cup {n \in nodes : \A S \in SUBSET nodes : Closed(S) => n \in S}

(* What the mapper emits depends on the export and not on the order of its *)
(* arrays: node numbering, paths, enclosing declarations, edge order and   *)
(* the location table are the same for every order of the nodes and edges  *)
(* (map_export_with_locations).                                            *)
MapIsOrderFree(export) ==
  LET Shuffle(s, p) == [i \in DOMAIN s |-> s[p[i]]]
  IN  \A p \in Bijections(DOMAIN export.nodes), q \in Bijections(DOMAIN export.edges) :
        MapExport([nodes |-> Shuffle(export.nodes, p), edges |-> Shuffle(export.edges, q)])
          = MapExport(export)

(* An incremental graph is what its delta says: nodes of declarations that *)
(* are not affected keep their id and label, nothing the change reaches is *)
(* preserved, applying the delta to the parent gives the new graph, and a  *)
(* reparser that keeps to its base yields a well-formed graph              *)
(* (compute_incremental_cpg, _build_preserving_new_cpg).                   *)
DeltaIsExact(req) ==
  LET r == IncrementalCpg(req)
      parent == req.parent
      kept == {n \in ToSet(parent.nodes) : DeclOf(parent, n) \notin r.affected}
  IN  r.outcome = "built" =>
        /\ {n \in ToSet(r.cpg.nodes) : DeclOf(r.cpg, n) \notin r.affected} = kept
        /\ \A n \in kept : r.cpg.label[n] = parent.label[n]
        /\ \A n \in kept :
              /\ \E S \in SUBSET DOMAIN req.references :
                    /\ req.changed \subseteq S /\ DeclOf(parent, n) \notin S
                    /\ \A d \in S : req.references[d] \subseteq S
              /\ req.calls[DeclOf(parent, n)] \cap req.changed = {}
              /\ \E S \in SUBSET DOMAIN req.subtypes :
                    /\ req.types \subseteq S /\ req.typeOf[DeclOf(parent, n)] \notin S
                    /\ \A t \in S : req.subtypes[t] \subseteq S
        /\ ToSet(r.cpg.nodes) = (ToSet(parent.nodes) \ r.removedNodes) \cup r.addedNodes
        /\ ToSet(r.cpg.edges) = (ToSet(parent.edges) \ r.removedEdges) \cup r.addedEdges
        /\ (\A d \in r.affected : \A i \in DOMAIN req.mint[d] : req.mint[d][i] >= 0)
              => Valid(r.cpg)

=============================================================================
