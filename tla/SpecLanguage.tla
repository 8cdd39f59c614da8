---------------------------- MODULE SpecLanguage ----------------------------
(***************************************************************************)
(* The specification language of the deterministic core and its registry:  *)
(* the parser and the re-validation gate (analysis/ifds/dsl/parser.py),    *)
(* the flow functions of the four primitives and their boot-time           *)
(* obligations (analysis/ifds/dsl/flow.py, proofs.py), and the detector    *)
(* registry that admits manifests (detectors/registry.py).                 *)
(*                                                                         *)
(* Text is what the parser asks of it: a line is a record with the set of  *)
(* combinator keywords among its words, whether it has the shape           *)
(* head(body), its head, the escape hatches found in its body and, for a   *)
(* propagate body, its arrow and the kinds of its two ends.                *)
(***************************************************************************)
EXTENDS Integers, Sequences, FiniteSets

PrimitiveHeads == {"source", "sink", "sanitize", "propagate"}
DslEngines == {"ifds", "ide"}
OracleEngines == {"semgrep", "cpg-query", "external"}

Parsed(c) == [error |-> "", clause |-> c]
NoClause == [head |-> "none", hatches |-> {}, src |-> "none", tgt |-> "none"]
Refused(code) == [error |-> code, clause |-> NoClause]

(* _check_composition_keywords: conditionals before sequencing. *)
CompositionError(words) ==
  CASE "conditional" \in words -> "E-DSL-006"
    [] "conditional" \notin words /\ "sequencing" \in words -> "E-DSL-005"
    [] words = {"fixpoint"} -> "E-DSL-007"
    [] OTHER -> ""

(* _check_escape_hatches: the first hatch, in this order. *)
HatchError(hatches) ==
  CASE "semgrep" \in hatches -> "E-DSL-002"
    [] "semgrep" \notin hatches /\ "query" \in hatches -> "E-DSL-003"
    [] hatches \cap {"semgrep", "query"} = {} /\ "callable" \in hatches -> "E-DSL-004"
    [] hatches = {"regex"} -> "E-DSL-001"
    [] OTHER -> ""

EndpointsOk(src, tgt) == src \in {"arg", "field"} /\ tgt \in {"ret", "field"}

(* _parse_clause with _parse_propagate. *)
ParseClause(l) ==
  IF CompositionError(l.words) # "" THEN Refused(CompositionError(l.words))
  ELSE IF ~l.shaped \/ l.head \notin PrimitiveHeads THEN Refused("E-DSL-008")
  ELSE IF HatchError(l.hatches) # "" THEN Refused(HatchError(l.hatches))
  ELSE IF l.head = "propagate" /\ ~(l.arrow /\ EndpointsOk(l.src, l.tgt)) THEN Refused("E-DSL-008")
  ELSE Parsed([head |-> l.head, hatches |-> l.hatches, src |-> l.src, tgt |-> l.tgt])

(* _parse_header: the last value of each key; absent keys are empty. *)
HeaderValue(lines, key) ==
  LET at == {i \in DOMAIN lines : lines[i].kind = "header" /\ lines[i].key = key}
  IN  IF at = {} THEN "" ELSE lines[CHOOSE i \in at : \A j \in at : j <= i].value
HeaderError(lines) ==
  IF HeaderValue(lines, "engine") \notin DslEngines THEN "E-DSL-009"
  ELSE IF HeaderValue(lines, "class") # "known" THEN "E-DSL-008"
  ELSE IF HeaderValue(lines, "languages") # "known" THEN "E-DSL-008"
  ELSE ""

NoSpec == [present |-> FALSE, engine |-> "", clauses |-> <<>>]

(* parse_spec: the first rejected clause line, then the header, then the   *)
(* need for a clause; blank and comment lines count for nothing.           *)
ParseSpec(lines) ==
  LET body == SelectSeq(lines, LAMBDA l : l.kind = "clause")
      bad == {i \in DOMAIN body : ParseClause(body[i]).error # ""}
      error == IF bad # {} THEN ParseClause(body[CHOOSE i \in bad : \A j \in bad : i <= j]).error
               ELSE IF HeaderError(lines) # "" THEN HeaderError(lines)
               ELSE IF body = <<>> THEN "E-DSL-008"
               ELSE ""
  IN  [error |-> error,
       spec |-> IF error # "" THEN NoSpec
                ELSE [present |-> TRUE, engine |-> HeaderValue(lines, "engine"),
                      clauses |-> [i \in DOMAIN body |-> ParseClause(body[i]).clause]]]

(* revalidate_spec: the hatch gate over patterns, the endpoint grammar     *)
(* over propagate clauses.                                                 *)
RevalidateClause(c) ==
  IF c.head = "propagate" THEN IF EndpointsOk(c.src, c.tgt) THEN "" ELSE "E-DSL-008"
  ELSE HatchError(c.hatches)
RevalidateSpec(spec) ==
  LET bad == {i \in DOMAIN spec.clauses : RevalidateClause(spec.clauses[i]) # ""}
  IN  IF bad = {} THEN "" ELSE RevalidateClause(spec.clauses[CHOOSE i \in bad : \A j \in bad : i <= j])

-----------------------------------------------------------------------------
(* flow.py: a transfer is a record of the facts its clause generates,      *)
(* kills and relates.                                                      *)

(* build_source, build_sink, build_sanitize, build_propagate. *)
Transfer(c, X) ==
  CASE c.head = "source" -> X \cup {c.gen}
    [] c.head = "sink" -> X
    [] c.head = "sanitize" -> X \ c.kill
    [] c.head = "propagate" -> IF c.from \in X THEN X \cup {c.to} ELSE X

(* union_flow: what a specification does to a set of facts. *)
UnionFlow(clauses, X) == UNION {Transfer(c, X) : c \in clauses}

(* is_distributive, over every pair of subsets of a finite domain. *)
IsDistributive(clauses, domain) ==
  \A X, Y \in SUBSET domain : UnionFlow(clauses, X \cup Y) = UnionFlow(clauses, X) \cup UnionFlow(clauses, Y)

(* The obligations of proofs.py: each primitive, each form of propagate,   *)
(* and one union, at fixed positions.                                      *)
FlowClause(h, g, k, f, t) == [head |-> h, gen |-> g, kill |-> k, from |-> f, to |-> t]
Obligations ==
  {{FlowClause("source", 0, {}, 0, 0)}, {FlowClause("sink", 0, {}, 0, 0)}, {FlowClause("sanitize", 0, {1, 2}, 0, 0)},
   {FlowClause("propagate", 0, {}, 3, 4)}, {FlowClause("propagate", 0, {}, 3, 5)},
   {FlowClause("propagate", 0, {}, 5, 4)}, {FlowClause("propagate", 0, {}, 5, 6)},
   {FlowClause("source", 0, {}, 0, 0), FlowClause("propagate", 0, {}, 3, 4), FlowClause("sanitize", 0, {1}, 0, 0)}}
AllObligationsDischarged(domain) == \A o \in Obligations : IsDistributive(o, domain)

-----------------------------------------------------------------------------
(* registry.py: a registry maps ids to detectors and is frozen or not.     *)

EmptyRegistry == [byId |-> <<>>, frozen |-> FALSE]

DerivePartition(engine) == IF engine \in DslEngines THEN "deterministic-core" ELSE "oracle-passthrough"

(* closure_check: the shape of a detector record. *)
ClosureCheck(d) ==
  IF d.engine \notin DslEngines \cup OracleEngines THEN "E-REG-002"
  ELSE IF d.engine \in DslEngines
       THEN IF ~d.spec.present \/ d.spec.engine \notin DslEngines \/ d.spec.clauses = <<>> THEN "E-REG-002" ELSE ""
  ELSE IF d.spec.present \/ ~d.query THEN "E-REG-004" ELSE ""

(* Both admission paths: shape, then the content of the carried spec. *)
AdmissionError(d) ==
  IF ClosureCheck(d) # "" THEN ClosureCheck(d)
  ELSE IF d.spec.present THEN RevalidateSpec(d.spec) ELSE ""

Answer(reg, error) == [reg |-> reg, error |-> error]
Added(byId, d) == [i \in DOMAIN byId \cup {d.id} |-> IF i = d.id THEN {d} ELSE byId[i]]

(* A plausible slip: only the shape is checked when one detector is added. *)
Register_ShapeOnly(reg, d) ==
  IF reg.frozen THEN Answer(reg, "E-REG-005")
  ELSE IF ClosureCheck(d) # "" THEN Answer(reg, ClosureCheck(d))
  ELSE IF d.id \in DOMAIN reg.byId THEN Answer(reg, "E-REG-003")
  ELSE Answer([reg EXCEPT !.byId = Added(reg.byId, d)], "")

(* register *)
Register(reg, d) ==
  IF reg.frozen THEN Answer(reg, "E-REG-005")
  ELSE IF AdmissionError(d) # "" THEN Answer(reg, AdmissionError(d))
  ELSE IF d.id \in DOMAIN reg.byId THEN Answer(reg, "E-REG-003")
  ELSE Answer([reg EXCEPT !.byId = Added(reg.byId, d)], "")

(* _build_detector and _load_core_spec: a manifest to a detector, or the   *)
(* first error.  "escapes" is a value that raises outside both error       *)
(* types (cwes that cannot be iterated).                                   *)
BuildDetector(m, staged) ==
  LET parse == ParseSpec(m.lines)
      error == IF ~m.mapping \/ m.missing THEN "E-REG-001"
               ELSE IF m.engine \notin DslEngines \cup OracleEngines THEN "E-REG-002"
               ELSE IF m.id \in DOMAIN staged THEN "E-REG-003"
               ELSE IF m.engine \in DslEngines /\ ~m.file THEN "E-REG-001"
               ELSE IF m.engine \in DslEngines /\ parse.error # "" THEN parse.error
               ELSE IF m.engine \in OracleEngines /\ ~m.file THEN "E-REG-004"
               ELSE IF ~m.readiness THEN "E-REG-001"
               ELSE IF m.odd THEN "escapes"
               ELSE ""
  IN  [error |-> error,
       detector |-> [id |-> m.id, engine |-> m.engine, partition |-> DerivePartition(m.engine),
                     spec |-> IF m.engine \in DslEngines THEN parse.spec ELSE NoSpec,
                     query |-> m.engine \in OracleEngines]]

(* One class directory of load_manifests; one without a manifest is        *)
(* passed over.                                                            *)
Stage(staged, m) ==
  LET built == BuildDetector(m, staged.byId)
      error == IF built.error # "" THEN built.error ELSE AdmissionError(built.detector)
  IN  IF staged.error # "" \/ ~m.present THEN staged
      ELSE IF error # "" THEN [staged EXCEPT !.error = error]
      ELSE [staged EXCEPT !.byId = Added(staged.byId, built.detector)]

(* load_manifests: all the directories or none; an error that escapes      *)
(* leaves the registry as it was.                                          *)
LoadManifests(reg, dirs) ==
  LET fold[i \in 0 .. Len(dirs)] ==
        IF i = 0 THEN [byId |-> EmptyRegistry.byId, error |-> ""] ELSE Stage(fold[i - 1], dirs[i])
      staged == fold[Len(dirs)]
  IN  IF reg.frozen THEN Answer(reg, "E-REG-005")
      ELSE IF staged.error = "escapes" THEN Answer(reg, "escapes")
      ELSE IF staged.error # "" THEN Answer(EmptyRegistry, staged.error)
      ELSE Answer([byId |-> staged.byId, frozen |-> TRUE], "")

Call(reg, c) == IF c.op = "load" THEN LoadManifests(reg, c.dirs) ELSE Register(reg, c.detector)

-----------------------------------------------------------------------------
(* Properties                                                              *)

\* After any calls of load_manifests and register, on a registry that starts
\* empty: a core detector carries a spec of a core engine, every clause of
\* which is one of the four primitives with no escape hatch and with the ends
\* the grammar allows, and an oracle detector carries none; a frozen registry
\* never changes again; a load that fails with a registry or language error
\* leaves it empty and open, and one that succeeds holds exactly its
\* manifests.
RegistryIsClosed(calls) ==
  LET after[i \in 0 .. Len(calls)] == IF i = 0 THEN Answer(EmptyRegistry, "") ELSE Call(after[i - 1].reg, calls[i])
      InGrammar(c) == /\ c.head \in PrimitiveHeads
                      /\ IF c.head = "propagate" THEN EndpointsOk(c.src, c.tgt) ELSE c.hatches = {}
      Sound(d) == IF d.engine \in DslEngines
                  THEN d.spec.present /\ \A k \in DOMAIN d.spec.clauses : InGrammar(d.spec.clauses[k])
                  ELSE d.engine \in OracleEngines /\ ~d.spec.present /\ d.query
      Manifests(dirs) == {dirs[k].id : k \in {j \in DOMAIN dirs : dirs[j].present}}
  IN  \A i \in 1 .. Len(calls) :
        LET was == after[i - 1].reg
            now == after[i].reg
        IN  /\ \A id \in DOMAIN now.byId : \A d \in now.byId[id] : d.id = id /\ Sound(d)
            /\ was.frozen => now = was
            /\ calls[i].op = "load" /\ ~was.frozen =>
                 IF after[i].error = "" THEN now.frozen /\ DOMAIN now.byId = Manifests(calls[i].dirs)
                 ELSE now = IF after[i].error = "escapes" THEN was ELSE EmptyRegistry

\* What parse_spec returns, revalidate_spec accepts, and the flow of any
\* clauses it can hold is distributive over every set of facts.
GrammarIsDistributive(lines, clauses, domain) ==
  /\ ParseSpec(lines).error = "" => RevalidateSpec(ParseSpec(lines).spec) = ""
  /\ IsDistributive(clauses, domain)
=============================================================================
