------------------------------ MODULE SpecGate ------------------------------
(***************************************************************************)
(* The gate ahead of the specification set, and what is read beside it:    *)
(* the anytime-valid acceptance of a proposed specification, its           *)
(* per-customer revalidation and drift monitor                             *)
(* (services/triage/spec_inference.py), the triage cycle that ranks        *)
(* findings (services/triage/triage.py) and the front-end fidelity gate    *)
(* (services/control_plane/fidelity.py).                                   *)
(*                                                                         *)
(* A number in [0, 1] or a wealth is a rational <<n, d>> in lowest terms.  *)
(* The code keeps the logarithm of the wealth in floating point; here it   *)
(* is exact, so what is shown holds up to that rounding.                   *)
(***************************************************************************)
EXTENDS Integers, Sequences, FiniteSets, SequencesExt

RECURSIVE Gcd(_, _)
Gcd(a, b) == IF b = 0 THEN a ELSE Gcd(b, a % b)
Abs(a) == IF a < 0 THEN -a ELSE a
Q(n, d) == LET g == Gcd(Abs(n), d) IN <<n \div g, d \div g>>
Plus(a, b) == Q(a[1] * b[2] + b[1] * a[2], a[2] * b[2])
Minus(a, b) == Plus(a, <<-b[1], b[2]>>)
Times(a, b) == Q(a[1] * b[1], a[2] * b[2])
Leq(a, b) == a[1] * b[2] <= b[1] * a[2]
One == <<1, 1>>
Zero == <<0, 1>>

-----------------------------------------------------------------------------
(* spec_inference.py: the e-process.                                       *)

BetC == <<1, 2>>
BetKappa == <<2, 1>>

(* initial_state: E_0 = 1 and no observation. *)
InitialState(pi0, alpha) == [pi0 |-> pi0, alpha |-> alpha, wealth |-> One, n |-> 0, sum |-> Zero]
Mean(st) == IF st.n = 0 THEN Zero ELSE Times(st.sum, <<1, st.n>>)
Threshold(st) == <<st.alpha[2], st.alpha[1]>>
Crossed(st) == Leq(Threshold(st), st.wealth)

(* _predictable_bet: from the state alone, never below zero, never so much *)
(* that the worst outcome takes all.                                       *)
Bet(st) ==
  LET raw == Times(BetKappa, Minus(Mean(st), st.pi0))
      upper == IF st.pi0[1] > 0 THEN Times(BetC, <<st.pi0[2], st.pi0[1]>>) ELSE Zero
  IN  IF raw[1] < 0 THEN Zero ELSE IF Leq(raw, upper) THEN raw ELSE upper

Folded(st, x) == [st EXCEPT !.n = @ + 1, !.sum = Plus(@, x)]

(* update_e_process: bet, then wealth, then the running mean. *)
Update(st, x) ==
  [Folded(st, x) EXCEPT !.wealth = Times(@, Plus(One, Times(Bet(st), Minus(x, st.pi0))))]

RECURSIVE Run(_, _)
Run(st, xs) == IF xs = <<>> THEN st ELSE Update(Run(st, Front(xs)), Last(xs))

(* update_customer_e_process: the same update on the customer's stream,    *)
(* and on its mirror (_drift_view) for the drift.                          *)
InitialCustomer(pi0, alpha) == [pi0 |-> pi0, alpha |-> alpha, reval |-> One, drift |-> One, n |-> 0, sum |-> Zero]
RevalView(c) == [pi0 |-> c.pi0, alpha |-> c.alpha, wealth |-> c.reval, n |-> c.n, sum |-> c.sum]
DriftView(c) == [pi0 |-> Minus(One, c.pi0), alpha |-> c.alpha, wealth |-> c.drift, n |-> c.n, sum |-> Minus(<<c.n, 1>>, c.sum)]
UpdateCustomer(c, x) ==
  [c EXCEPT !.reval = Update(RevalView(c), x).wealth,
            !.drift = Update(DriftView(c), Minus(One, x)).wealth,
            !.n = @ + 1, !.sum = Plus(@, x)]

(* _decide: a drift comes first. *)
Decide(c) == IF Crossed(DriftView(c)) THEN "quarantined" ELSE IF Crossed(RevalView(c)) THEN "revalidated" ELSE "pending"

(* revalidate_spec and monitor_drift: the decisions of an organisation's   *)
(* streams are recorded; a flag is never taken back.                       *)
Recorded(flags, spec, decision) ==
  [flags EXCEPT !.quarantined = IF decision = "quarantined" THEN @ \cup {spec} ELSE @,
                !.revalidated = IF decision = "revalidated" THEN @ \cup {spec} ELSE @]
MonitorDrift(flags, streams) ==
  FoldLeft(LAMBDA f, s : Recorded(f, s, Decide(streams[s])), flags, SetToSeq(DOMAIN streams))

(* pinned_global_specs_for_org *)
PinnedGlobalSpecs(candidates, flags) == SelectSeq(candidates, LAMBDA s : s \notin flags.quarantined)

-----------------------------------------------------------------------------
(* Acceptance.  A world is the rows of spec_versions (class and semver),   *)
(* the signed acceptance records and the decisions of the proposals.       *)

Later(v, w) == \E i \in 1 .. 3 : v[i] > w[i] /\ \A j \in 1 .. i - 1 : v[j] = w[j]

(* next_semver_for_class with _bump_patch. *)
NextSemver(class, rows) ==
  LET mine == {r.version : r \in {q \in ToSet(rows) : q.class = class}}
      highest == CHOOSE v \in mine : \A w \in mine : ~Later(w, v)
  IN  IF mine = {} THEN <<1, 0, 0>> ELSE [highest EXCEPT ![3] = @ + 1]

(* evaluate_proposed_spec: below the threshold, nothing; otherwise the     *)
(* row, the signed record and the decision, in that order, each of which   *)
(* may raise and leave what was written before it.                         *)
Evaluate(world, spec, st, raises) ==
  LET version == NextSemver(spec.class, world.rows)
      done == CASE raises = "insert" -> 0 [] raises = "sign" -> 1 [] raises = "mark" -> 2 [] OTHER -> 3
  IN  IF ~Crossed(st) THEN world
      ELSE [rows |-> IF done < 1 THEN world.rows
                     ELSE Append(world.rows, [class |-> spec.class, version |-> version, spec |-> spec.id,
                                              wealth |-> st.wealth, threshold |-> Threshold(st)]),
            signed |-> IF done < 2 THEN world.signed ELSE world.signed \cup {<<spec.id, version>>},
            accepted |-> IF done < 3 THEN world.accepted
                         ELSE [s \in DOMAIN world.accepted \cup {spec.id} |->
                                 IF s = spec.id THEN Len(world.rows) + 1 ELSE world.accepted[s]]]

-----------------------------------------------------------------------------
(* triage.py: a finding is an identifier and its context's length in       *)
(* bytes, a verdict the three likelihoods of the model in ten-thousandths  *)
(* (the precision of the stored score) and the length of its rationale.    *)

WindowBudget == 3
MaxFreeText == 2
Truncated(length, budget) == IF length <= budget THEN length ELSE budget
InUnit(v) == \A n \in {"exploitable", "testCode", "fp"} : v[n] \in 0 .. 10000

(* triage_finding: the row of a valid verdict. *)
TriageRow(finding, verdict) ==
  [finding |-> finding.id, score |-> verdict.exploitable, freeText |-> Truncated(verdict.freeText, MaxFreeText),
   window |-> Truncated(finding.window, WindowBudget)]

(* run_triage_cycle: in the order of the findings, up to the first verdict *)
(* that is refused, whose exception leaves the rows before it.             *)
TriageCycle(on, findings, verdicts, store) ==
  LET bad == {i \in DOMAIN findings : ~InUnit(verdicts[findings[i].id])}
      upto == IF bad = {} THEN Len(findings) ELSE (CHOOSE i \in bad : \A j \in bad : i <= j) - 1
      rows == [i \in 1 .. upto |-> TriageRow(findings[i], verdicts[findings[i].id])]
  IN  IF ~on THEN [store |-> store, raised |-> FALSE, calls |-> 0]
      ELSE [store |-> store \o rows, raised |-> bad # {}, calls |-> upto]

-----------------------------------------------------------------------------
(* fidelity.py: rates in millionths.                                       *)

Metrics == {"parse", "precision", "recall", "pdg"}
Thresholds == [parse |-> 995000, precision |-> 900000, recall |-> 850000, pdg |-> 800000]
Languages == {"java", "python", "js", "go", "ruby", "php"}
UngatedEnv == "placeholder"

(* _safe_ratio: six digits, half to even; nothing to find is all found. *)
SafeRatio(num, den) ==
  IF den = 0 THEN 1000000
  ELSE LET q == (num * 1000000) \div den
           r == (num * 1000000) % den
       IN  IF 2 * r > den \/ (2 * r = den /\ q % 2 = 1) THEN q + 1 ELSE q

Total(items, field) == Cardinality(UNION {{<<i, k>> : k \in 1 .. items[i][field]} : i \in DOMAIN items})

(* compute_metrics, over what the front end extracted for each item. *)
ComputeMetrics(items) ==
  [parse |-> SafeRatio(Total(items, "parsed"), Len(items)),
   precision |-> SafeRatio(Total(items, "ceTp"), Total(items, "ceTp") + Total(items, "ceFp")),
   recall |-> SafeRatio(Total(items, "ceTp"), Total(items, "ceTp") + Total(items, "ceFn")),
   pdg |-> SafeRatio(Total(items, "pdgTp"), Total(items, "pdgTp") + Total(items, "pdgFn"))]

(* A plausible slip: a corpus without the authority marker is scored too. *)
(* _verdict_from_metrics *)
VerdictFrom(strong, env, metrics) ==
  LET failing == {m \in Metrics : metrics[m] < Thresholds[m]}
  IN  [env |-> env, metrics |-> metrics, failing |-> failing, strong |-> strong,
       results |-> [m \in Metrics |-> m \notin failing],
       overall |-> IF ~strong THEN "ungated" ELSE IF failing # {} THEN "GATE-FAIL" ELSE "GATE-PASS"]

(* evaluate_fidelity: a corpus without authority is not even extracted. *)
EvaluateFidelity(corpus, env) ==
  IF ~corpus.strong THEN VerdictFrom(FALSE, UngatedEnv, [m \in Metrics |-> 0])
  ELSE VerdictFrom(TRUE, env, ComputeMetrics(corpus.items))

Label(v) == CASE v.overall = "GATE-PASS" -> "gate-pass" [] v.overall = "GATE-FAIL" -> "front-end-blocked"
              [] OTHER -> "corpus-not-authoritative"

(* benchmark_eligible_recall: a number for a passing language only. *)
EligibleRecall(v) == IF v.overall = "GATE-PASS" THEN {v.metrics.recall} ELSE {}

(* to_json_dict and from_json_dict: the threshold results are not written  *)
(* and are rebuilt from the failing metrics.                               *)
ToJson(v) == [env |-> v.env, metrics |-> v.metrics, failing |-> v.failing, strong |-> v.strong, overall |-> v.overall]
FromJson(d) ==
  [env |-> d.env, metrics |-> d.metrics, failing |-> d.failing, strong |-> d.strong,
   results |-> [m \in Metrics |-> m \notin d.failing], overall |-> d.overall]

-----------------------------------------------------------------------------
(* workers/build/env_digest_registry.py: a registry is the sequence of its *)
(* entries; what the field patterns check of a digest, a tag, a commit and *)
(* a date is the one flag shaped.                                          *)

Images == {"snapshot", "detector"}
Placeholder == 0
NoDigest == -1

(* check_registry: no violation. *)
RegistryValid(entries) ==
  /\ \A i \in DOMAIN entries :
       LET e == entries[i]
       IN  /\ e.shaped /\ e.digest # Placeholder
           /\ e.image \in Images /\ e.status \in {"active", "superseded", "void"}
           /\ e.status # "active" => e.note
           /\ \A j \in DOMAIN entries : entries[j].digest = e.digest => i = j
  /\ \A m \in Images : Cardinality({i \in DOMAIN entries : entries[i].image = m /\ entries[i].status = "active"}) <= 1

(* check_append_only: no violation.  Rows are found by image and digest. *)
AppendOnly(old, new) ==
  LET transitions == [active |-> {"active", "superseded"}, superseded |-> {"superseded"}, void |-> {"void", "superseded"}]
  IN  \A i \in DOMAIN old : \E j \in DOMAIN new :
        /\ new[j].image = old[i].image /\ new[j].digest = old[i].digest
        /\ new[j].tag = old[i].tag /\ new[j].status \in transitions[old[i].status]

(* find_active_digest: the first active row of the image. *)
FindActive(entries, image) ==
  LET rows == SelectSeq(entries, LAMBDA e : e.image = image /\ e.status = "active")
  IN  IF rows = <<>> THEN NoDigest ELSE rows[1].digest

(* register, with load_registry before it. *)
RegisterDigest(entries, e) ==
  IF ~RegistryValid(entries) THEN [entries |-> entries, ok |-> FALSE]
  ELSE IF FindActive(entries, e.image) = e.digest THEN [entries |-> entries, ok |-> TRUE]
  ELSE LET rolled == [i \in DOMAIN entries |->
                        IF entries[i].image = e.image /\ entries[i].status = "active"
                        THEN [entries[i] EXCEPT !.status = "superseded", !.note = TRUE] ELSE entries[i]]
           new == Append(rolled, [e EXCEPT !.status = "active", !.note = FALSE])
       IN  IF RegistryValid(new) THEN [entries |-> new, ok |-> TRUE] ELSE [entries |-> entries, ok |-> FALSE]

(* enforce_production_env: without an active row, warn and go on. *)
ProductionEnvOk(entries, env) ==
  LET want == FindActive(entries, "snapshot") IN want = NoDigest \/ want = env

-----------------------------------------------------------------------------
(* Properties *)

RECURSIVE Pow(_, _)
Pow(a, k) == IF k = 0 THEN One ELSE Times(a, Pow(a, k - 1))
Ones(xs) == Cardinality({i \in DOMAIN xs : xs[i] = One})
RECURSIVE SumQ(_)
SumQ(S) == IF S = {} THEN Zero ELSE LET e == CHOOSE e \in S : TRUE IN Plus(e.p, SumQ(S \ {e}))

(* The guarantee of the gate: a candidate whose labels are right with      *)
(* probability p at most pi0 is ever accepted, at whatever moment one      *)
(* looks, with probability at most alpha; a bet is never lost in full, and *)
(* the expected wealth never rises.  The same for the drift of a customer  *)
(* whose labels are right with probability at least pi0.  This is what     *)
(* makes a bet chosen after the label wrong.                               *)
FalseAcceptanceIsBounded(pi0, alpha, p, n) ==
  LET Labels(k) == [1 .. k -> {Zero, One}]
      start == InitialState(pi0, alpha)
      Prob(xs) == Times(Pow(p, Ones(xs)), Pow(Minus(One, p), Len(xs) - Ones(xs)))
      Ever(xs) == \E k \in 0 .. n : Crossed(Run(start, SubSeq(xs, 1, k)))
      cust == [xs \in UNION {Labels(k) : k \in 0 .. n} |->
                 FoldLeft(UpdateCustomer, InitialCustomer(pi0, alpha), xs)]
      Drifts(xs) == \E k \in 0 .. n : Crossed(DriftView(cust[SubSeq(xs, 1, k)]))
  IN  /\ \A xs \in Labels(n) : Run(start, xs).wealth[1] > 0
      /\ Leq(p, pi0) =>
           /\ Leq(SumQ({[xs |-> xs, p |-> Prob(xs)] : xs \in {ys \in Labels(n) : Ever(ys)}}), alpha)
           /\ \A k \in 0 .. n - 1 : \A xs \in Labels(k) :
                LET st == Run(start, xs)
                IN  Leq(Plus(Times(p, Update([st EXCEPT !.wealth = One], One).wealth),
                             Times(Minus(One, p), Update([st EXCEPT !.wealth = One], Zero).wealth)), One)
      /\ Leq(pi0, p) =>
           Leq(SumQ({[xs |-> xs, p |-> Prob(xs)] : xs \in {ys \in Labels(n) : Drifts(ys)}}), alpha)
      /\ \A xs \in Labels(n) : cust[xs].reval = Run(start, xs).wealth

(* Over any sequence of evaluations, any of which may raise at one of its  *)
(* writes: a version is never given twice within a class and is above all  *)
(* of the class before it, nothing is written below the threshold, and a   *)
(* proposal marked accepted names a row of its own, in its class, whose    *)
(* version was signed.                                                     *)
AcceptanceIsFresh(rows, calls) ==
  LET start == [rows |-> rows, signed |-> {}, accepted |-> <<>>]
      end == FoldLeft(LAMBDA w, c : Evaluate(w, c.spec, c.state, c.raises), start, calls)
  IN  /\ \A i \in DOMAIN end.rows : \A j \in DOMAIN end.rows :
           i < j /\ j > Len(rows) /\ end.rows[i].class = end.rows[j].class => Later(end.rows[j].version, end.rows[i].version)
      /\ \A s \in DOMAIN end.accepted :
           LET row == end.rows[end.accepted[s]] IN row.spec = s /\ <<s, row.version>> \in end.signed
      /\ \A i \in Len(rows) + 1 .. Len(end.rows) : Leq(end.rows[i].threshold, end.rows[i].wealth)

(* After any sequence of labels and drift sweeps, the global               *)
(* specifications an organisation is given are, in the same order, those   *)
(* whose drift had not crossed at any sweep: a recovery of the stream      *)
(* gives none back.                                                        *)
QuarantineIsKept(candidates, pi0, alpha, sweeps) ==
  LET streams == [i \in 0 .. Len(sweeps) |->
                    [s \in ToSet(candidates) |->
                       FoldLeft(LAMBDA c, sw : UpdateCustomer(c, sw[s]), InitialCustomer(pi0, alpha), SubSeq(sweeps, 1, i))]]
      flags == FoldLeft(LAMBDA f, i : MonitorDrift(f, streams[i]),
                        [quarantined |-> {}, revalidated |-> {}], [i \in 1 .. Len(sweeps) |-> i])
      drifted == {s \in ToSet(candidates) : \E i \in 1 .. Len(sweeps) : Crossed(DriftView(streams[i][s]))}
  IN  /\ ToSet(PinnedGlobalSpecs(candidates, flags)) = ToSet(candidates) \ drifted
      /\ \A s \in flags.revalidated : \E i \in 1 .. Len(sweeps) :
           Crossed(RevalView(streams[i][s])) /\ ~Crossed(DriftView(streams[i][s]))

(* A triage cycle is additive: rows already stored stay, the new ones are  *)
(* of the first findings in their order, all of them unless the cycle      *)
(* raised, and nothing happens when it is off.                             *)
TriageIsAdditive(on, findings, verdicts, store) ==
  LET r == TriageCycle(on, findings, verdicts, store)
      new == SubSeq(r.store, Len(store) + 1, Len(r.store))
  IN  /\ SubSeq(r.store, 1, Len(store)) = store
      /\ ~on => r.store = store /\ r.calls = 0
      /\ [i \in DOMAIN new |-> new[i].finding] = [i \in DOMAIN new |-> findings[i].id]
      /\ on /\ ~r.raised => Len(new) = Len(findings)
      /\ \A i \in DOMAIN new : new[i].score \in 0 .. 10000 /\ new[i].freeText <= MaxFreeText

(* A language's recall is given out only for a corpus with authority whose *)
(* every ratio, taken exactly, reaches its threshold, and the verdict read *)
(* back from its file is the verdict written.                              *)
PassIsEarned(corpus, env) ==
  LET v == EvaluateFidelity(corpus, env)
      Reaches(num, den, m) == den = 0 \/ num * 1000 >= (Thresholds[m] \div 1000) * den
      T(f) == Total(corpus.items, f)
  IN  /\ FromJson(ToJson(v)) = v
      /\ EligibleRecall(v) # {} <=>
           /\ corpus.strong
           /\ Reaches(T("parsed"), Len(corpus.items), "parse")
           /\ Reaches(T("ceTp"), T("ceTp") + T("ceFp"), "precision")
           /\ Reaches(T("ceTp"), T("ceTp") + T("ceFn"), "recall")
           /\ Reaches(T("pdgTp"), T("pdgTp") + T("pdgFn"), "pdg")
      /\ Label(v) = "front-end-blocked" <=> corpus.strong /\ EligibleRecall(v) = {}
      /\ v.env = UngatedEnv <=> ~corpus.strong

(* Whatever the order of the roll-overs, each leaves a valid registry its  *)
(* own append-only check accepts, changes the image it was given only, and *)
(* a digest once superseded or void never comes back: then a run of the    *)
(* gate in another environment is refused.                                 *)
RolloverIsAppendOnly(entries, calls) ==
  LET After(k) == FoldLeft(LAMBDA es, e : RegisterDigest(es, e).entries, entries, SubSeq(calls, 1, k))
  IN  RegistryValid(entries) =>
        \A k \in DOMAIN calls :
          LET old == After(k - 1)
              r == RegisterDigest(old, calls[k])
          IN  /\ RegistryValid(r.entries) /\ AppendOnly(old, r.entries)
              /\ \A m \in Images \ {calls[k].image} : FindActive(r.entries, m) = FindActive(old, m)
              /\ r.ok => FindActive(r.entries, calls[k].image) = calls[k].digest
              /\ \A i \in DOMAIN old : old[i].status # "active" /\ old[i].digest = calls[k].digest => ~r.ok
              /\ r.ok /\ calls[k].image = "snapshot" => \A d \in 1 .. 9 : ProductionEnvOk(r.entries, d) <=> d = calls[k].digest
=============================================================================
