-------------------------- MODULE ExecutionProofs --------------------------
(***************************************************************************)
(* Proofs of ExecutionStore: what a request's rows say of its work, and     *)
(* that every item is leased as LeasedWork says.                           *)
(*                                                                         *)
(* Proofs of DetectorWorker, for every set of jobs, workers and tenants    *)
(* and every number of findings and deliveries: the types are correct, the *)
(* tenant cache of the session is coherent, and a job deleted from the     *)
(* queue has its findings stored; and the flow of the specifications the   *)
(* detectors run is distributive (SpecLanguage).                           *)
(***************************************************************************)
EXTENDS ExecutionStore, DetectorWorker, SpecLanguage, TLAPS

\* Zenon proves what has no arithmetic; a step that needs SMT cites it.
USE Zenon

-----------------------------------------------------------------------------
(* The execution store.                                                    *)

ItemTypes ==
    /\ DOMAIN item = Items
    /\ \A i \in Items :
        /\ DOMAIN item[i] = {"state", "token", "active", "wait"}
        /\ item[i].state \in {"absent"} \cup Open \cup Ended
        /\ item[i].token \in 0..MaxAttempts
CaptureTypes ==
    /\ DOMAIN capture = {"state", "keep", "token", "left"}
    /\ capture.state \in {"none", "active", "retiring", "retired"}
AttemptTypes ==
    /\ DOMAIN attempt = Items
    /\ \A i \in Items :
        /\ DOMAIN attempt[i] = Attempts
        /\ \A t \in Attempts : DOMAIN attempt[i][t] = {"state", "left"}
RunTypes ==
    /\ DOMAIN run = Bindings
    /\ \A b \in Bindings :
        /\ DOMAIN run[b] = Ordinals
        /\ \A n \in Ordinals :
            /\ DOMAIN run[b][n] = {"state", "by", "count", "supersedes"}
            /\ run[b][n].count \in Nat
ExecutionTypes == ItemTypes /\ CaptureTypes /\ AttemptTypes /\ RunTypes /\ cancelled \in BOOLEAN

\* An item that is running is owned by its last attempt, which is running; no
\* other item is owned.
OwnedItem(i) ==
    /\ item[i].state = "running" =>
        item[i].active = item[i].token /\ item[i].token > 0 /\ attempt[i][item[i].token].state = "running"
    /\ item[i].state # "running" => item[i].active = 0
    /\ item[i].state = "pending" => item[i].token < MaxAttempts
    /\ item[i].state = "absent" => item[i].token = 0
Owned == \A i \in Items : OwnedItem(i)

\* A cancelled request and a capture that may be deleted have no open work.
Closed ==
    /\ cancelled => \A i \in Items : item[i].state \notin Open
    /\ RetiredIsUnused

\* The runs of a binding: one at a time and none after a completed one; its
\* identity item comes with the first result, when no other run can be unfinished.
RunsInTurn ==
    /\ \A b \in Bindings, n \in Ordinals :
        /\ run[b][n].state \in {"absent", "running"} => run[b][n].count = 0
        /\ run[b][n].state = "running" => item[b].state = "absent"
        /\ item[b].state = "absent" => run[b][n].count = 0
    /\ \A b \in Bindings :
        (\A n \in Ordinals : run[b][n].count = 0) => item[b].state = "absent"
    /\ \A b \in Bindings, m, n \in Ordinals :
        run[b][m].state \in {"completed", "running"} /\ run[b][n].state \in {"completed", "running"} => m = n

\* A detection item that completed has the whole inventory.
Whole ==
    item[Detection].state = "completed" =>
        /\ ~Partial(run)
        /\ \A b \in Bindings : \E n \in Ordinals : run[b][n].state = "completed"

ExecutionInv ==
    /\ ExecutionTypes /\ Owned /\ Closed /\ RunsInTurn /\ RunsHaveOwners /\ Whole
    /\ StagesAreCurrent


\* The sets of the store.
LEMMA ExecutionSets ==
    /\ Detection \in Items /\ Bindings \subseteq Items /\ Detection \notin Bindings
    /\ \A i \in Items : i = Detection \/ i \in Bindings
    /\ MaxAttempts \in Nat /\ MaxAttempts > 0 /\ MaxRuns \in Nat /\ MaxCleanups \in Nat
    /\ LeaseTicks \in Nat /\ RetainTicks \in Nat /\ CleanupTicks \in Nat
    /\ Attempts = 1..MaxAttempts /\ Ordinals = 1..MaxRuns
BY ExecutionStoreAssumption, SMT DEF Items, Attempts, Ordinals

\* The states of a request depend on the states of its items, on which failures
\* are made good, on the seal and on the cancellation.
LEMMA SameStages ==
    ASSUME NEW items1, NEW items2, NEW runs1, NEW runs2, NEW c1, NEW c2, NEW gone,
           \A i \in Items : items1[i].state = items2[i].state,
           Unsuperseded(runs1) <=> Unsuperseded(runs2),
           Sealed(c1) <=> Sealed(c2)
    PROVE  Stages(items1, runs1, c1, gone) = Stages(items2, runs2, c2, gone)
<1>1. items1[Detection].state = items2[Detection].state
  BY ExecutionSets
<1> DEFINE Some1(s) == \E b \in Bindings : items1[b].state = s
<1> DEFINE Some2(s) == \E b \in Bindings : items2[b].state = s
<1>2. \A s : Some1(s) = Some2(s)
  BY ExecutionSets
<1> HIDE DEF Some1, Some2
<1>3. /\ Some1("failed") = Some2("failed") /\ Some1("cancelled") = Some2("cancelled")
      /\ Some1("running") = Some2("running") /\ Some1("pending") = Some2("pending")
      /\ Some1("completed") = Some2("completed")
  BY <1>2
<1>4. Unsuperseded(runs1) = Unsuperseded(runs2) /\ Sealed(c1) = Sealed(c2)
  BY DEF Unsuperseded, Sealed
<1> QED BY ONLY <1>1, <1>3, <1>4, Zenon DEF Stages, Some1, Some2

\* What a step makes of an item: it hands it to a new owner, puts an owner out,
\* withdraws it or leaves it.
LeaseStep == \A i \in Items : [Lease(i)!Next]_(Lease(i)!vars)

LEMMA Unleased ==
    ASSUME NEW i \in Items, item'[i].active = item[i].active, item'[i].token = item[i].token,
           item'[i].state \in Ended <=> item[i].state \in Ended
    PROVE  [Lease(i)!Next]_(Lease(i)!vars)
BY SMT DEF Lease!vars
LEMMA Yielded ==
    ASSUME NEW i \in Items, item[i].active # 0, item'[i].active = 0, item'[i].token = item[i].token
    PROVE  [Lease(i)!Next]_(Lease(i)!vars)
BY SMT DEF Lease!Next, Lease!Yield
LEMMA Acquired ==
    ASSUME NEW i \in Items, item[i].active = 0, item[i].state \notin Ended,
           item'[i].token = item[i].token + 1, item'[i].active = item'[i].token,
           item'[i].state \notin Ended
    PROVE  [Lease(i)!Next]_(Lease(i)!vars)
BY SMT DEF Lease!Next, Lease!Acquire
LEMMA Withdrawn ==
    ASSUME NEW i \in Items, item[i].active = 0, item[i].state \notin Ended,
           item'[i].token = item[i].token, item'[i].active = 0, item'[i].state \in Ended
    PROVE  [Lease(i)!Next]_(Lease(i)!vars)
BY DEF Lease!Next, Lease!Withdraw

\* A step that moves no row to another state: a renewed or released lease, the
\* seal, a claim of the cleanup, its end, and the passing of time.
LEMMA QuietStep ==
    ASSUME ExecutionInv, ItemTypes',
           \A i \in Items : item'[i].state = item[i].state /\ item'[i].token = item[i].token
                                      /\ item'[i].active = item[i].active,
           AttemptTypes',
           \A i \in Items, t \in Attempts : attempt'[i][t].state = attempt[i][t].state,
           run' = run, cancelled' = cancelled,
           CaptureTypes',
           capture'.state \in {"retiring", "retired"} =>
               \A i \in Items : item[i].state \notin Open,
           StagesAreCurrent'
    PROVE  ExecutionInv' /\ LeaseStep
<1> USE ExecutionSets
<1>1. ExecutionTypes'
  BY SMT DEF ExecutionInv, ExecutionTypes, RunTypes
<1>2. Owned'
  <2> SUFFICES ASSUME NEW i \in Items PROVE OwnedItem(i)'
    BY DEF Owned
  <2>1. item[i].token \in 0..MaxAttempts /\ OwnedItem(i)
    BY DEF ExecutionInv, ExecutionTypes, ItemTypes, Owned
  <2>2. item[i].state = "running" => attempt'[i][item[i].token].state = attempt[i][item[i].token].state
    BY <2>1, SMT DEF OwnedItem
  <2>3. item'[i].state = item[i].state /\ item'[i].token = item[i].token /\ item'[i].active = item[i].active
    OBVIOUS
  <2> QED BY ONLY <2>1, <2>2, <2>3, Zenon DEF OwnedItem
<1>3. Closed'
  BY DEF ExecutionInv, Closed, RetiredIsUnused
<1>4. RunsInTurn'
  <2>1. run' = run /\ RunsInTurn /\ \A b \in Bindings : item'[b].state = item[b].state
    BY DEF ExecutionInv
  <2> QED BY ONLY <2>1 DEF RunsInTurn
<1>5. RunsHaveOwners'
  <2> SUFFICES ASSUME NEW b \in Bindings, NEW n \in Ordinals, run[b][n].state = "running"
               PROVE  /\ item'[Detection].state = "running" /\ item'[Detection].active = run[b][n].by
                      /\ attempt'[Detection][run[b][n].by].state = "running"
    BY SMT DEF RunsHaveOwners
  <2>1. item[Detection].state = "running" /\ item[Detection].active = run[b][n].by
        /\ attempt[Detection][run[b][n].by].state = "running"
    BY DEF ExecutionInv, RunsHaveOwners
  <2>2. run[b][n].by \in Attempts
    BY <2>1, SMT DEF ExecutionInv, ExecutionTypes, ItemTypes, Owned, OwnedItem
  <2> QED BY <2>1, <2>2
<1>6. Whole'
  BY DEF ExecutionInv, Whole, Partial
<1>7. LeaseStep
  BY Unleased DEF LeaseStep
<1> QED BY <1>1, <1>2, <1>3, <1>4, <1>5, <1>6, <1>7 DEF ExecutionInv


\* A renewed or released lease.
LEMMA RenewKeeps ==
    ASSUME ExecutionInv, NEW i \in Items, NEW t \in Attempts,
           Renew(i, t) \/ RenewCaptureLease(i, t) \/ ReleaseCaptureLease(i, t)
    PROVE  ExecutionInv' /\ LeaseStep
<1>1. UNCHANGED <<request, cancelled, capture, item, run>>
  BY DEF Renew, RenewCaptureLease, ReleaseCaptureLease
<1>2. attempt' = attempt \/ attempt' = [attempt EXCEPT ![i][t].left = LeaseTicks]
  BY DEF Renew, RenewCaptureLease, ReleaseCaptureLease
<1>3. AttemptTypes
  BY DEF ExecutionInv, ExecutionTypes
<1>4. /\ AttemptTypes'
      /\ \A j \in Items, u \in Attempts : attempt'[j][u].state = attempt[j][u].state
  <2>1. i \in Items /\ t \in Attempts
    OBVIOUS
  <2>2. CASE attempt' = [attempt EXCEPT ![i][t].left = LeaseTicks]
    BY ONLY <1>3, <2>1, <2>2 DEF AttemptTypes
  <2> QED BY <1>2, <1>3, <2>2, SMT DEF AttemptTypes
<1>5. ItemTypes' /\ CaptureTypes'
  BY <1>1 DEF ExecutionInv, ExecutionTypes, ItemTypes, CaptureTypes
<1>6. capture'.state \in {"retiring", "retired"} => \A j \in Items : item[j].state \notin Open
  BY <1>1 DEF ExecutionInv, Closed, RetiredIsUnused
<1>7. StagesAreCurrent'
  <2>1. StagesAreCurrent
    BY DEF ExecutionInv
  <2> QED BY ONLY <1>1, <2>1, Zenon DEF StagesAreCurrent
<1> QED BY <1>1, <1>4, <1>5, <1>6, <1>7, QuietStep

\* The seal of the capture, a claim of its cleanup and the end of it.
LEMMA CaptureKeeps ==
    ASSUME ExecutionInv,
           \/ \E t \in Attempts : RegisterCaptureAndSeal(t)
           \/ ClaimRetirement
           \/ \E token \in 1..MaxCleanups : FinishRetirement(token)
    PROVE  ExecutionInv' /\ LeaseStep
<1>1. UNCHANGED <<cancelled, item, attempt, run>>
  BY DEF RegisterCaptureAndSeal, ClaimRetirement, FinishRetirement
<1>2. CaptureTypes
  BY DEF ExecutionInv, ExecutionTypes
<1>3. \/ capture' = [state |-> "active", keep |-> RetainTicks, token |-> 0, left |-> 0]
      \/ capture' = [capture EXCEPT !.state = "retiring", !.token = @ + 1, !.left = CleanupTicks]
      \/ capture' = [capture EXCEPT !.state = "retired", !.left = 0]
  BY DEF RegisterCaptureAndSeal, ClaimRetirement, FinishRetirement
<1>4. CaptureTypes'
  <2>1. CASE capture' = [state |-> "active", keep |-> RetainTicks, token |-> 0, left |-> 0]
    BY ONLY <2>1, Zenon DEF CaptureTypes
  <2>2. CASE capture' = [capture EXCEPT !.state = "retiring", !.token = @ + 1, !.left = CleanupTicks]
    BY ONLY <1>2, <2>2, Zenon DEF CaptureTypes
  <2>3. CASE capture' = [capture EXCEPT !.state = "retired", !.left = 0]
    BY ONLY <1>2, <2>3, Zenon DEF CaptureTypes
  <2> QED BY <1>3, <2>1, <2>2, <2>3
<1>5. capture'.state \in {"retiring", "retired"} => \A i \in Items : item[i].state \notin Open
  <2>1. CASE \E t \in Attempts : RegisterCaptureAndSeal(t)
    BY <2>1, SMT DEF RegisterCaptureAndSeal
  <2>2. CASE ClaimRetirement
    BY <2>2 DEF ClaimRetirement, Unneeded, ExecutionInv, Closed, RetiredIsUnused
  <2>3. CASE \E token \in 1..MaxCleanups : FinishRetirement(token)
    BY <2>3 DEF FinishRetirement, ExecutionInv, Closed, RetiredIsUnused
  <2> QED BY <2>1, <2>2, <2>3
<1>6. StagesAreCurrent'
  <2>0. request = Stages(item, run, capture, cancelled)
    BY DEF ExecutionInv, StagesAreCurrent
  <2>1. CASE \E t \in Attempts : RegisterCaptureAndSeal(t)
    <3>1. request' = [request EXCEPT !.capture = "completed"] /\ Sealed(capture')
      BY <2>1, SMT DEF RegisterCaptureAndSeal, Sealed
    <3> QED BY <1>1, <2>0, <3>1 DEF StagesAreCurrent, Stages
  <2>2. CASE ClaimRetirement \/ \E token \in 1..MaxCleanups : FinishRetirement(token)
    <3>1. request' = request /\ Sealed(capture) /\ Sealed(capture')
      <4>1. /\ request' = request /\ capture.state \in {"active", "retiring"}
            /\ \/ capture' = [capture EXCEPT !.state = "retiring", !.token = @ + 1, !.left = CleanupTicks]
               \/ capture' = [capture EXCEPT !.state = "retired", !.left = 0]
        BY <2>2 DEF ClaimRetirement, FinishRetirement
      <4>2. CASE capture' = [capture EXCEPT !.state = "retiring", !.token = @ + 1, !.left = CleanupTicks]
        BY ONLY <1>2, <4>1, <4>2, Zenon DEF CaptureTypes, Sealed
      <4>3. CASE capture' = [capture EXCEPT !.state = "retired", !.left = 0]
        BY ONLY <1>2, <4>1, <4>3, Zenon DEF CaptureTypes, Sealed
      <4> QED BY <4>1, <4>2, <4>3
    <3>2. Stages(item, run, capture', cancelled) = Stages(item, run, capture, cancelled)
      BY <3>1, SameStages, SMT
    <3> QED BY <1>1, <2>0, <3>1, <3>2 DEF StagesAreCurrent
  <2> QED BY <2>1, <2>2
<1>7. ItemTypes' /\ AttemptTypes'
  BY <1>1 DEF ExecutionInv, ExecutionTypes, ItemTypes, AttemptTypes
<1> QED BY <1>1, <1>4, <1>5, <1>6, <1>7, QuietStep

\* Time passes.
LEMMA TickKeeps ==
    ASSUME ExecutionInv, Tick
    PROVE  ExecutionInv' /\ LeaseStep
<1>1. UNCHANGED <<request, cancelled, run>>
  BY DEF Tick
<1>2. CaptureTypes /\ AttemptTypes /\ ItemTypes
  BY DEF ExecutionInv, ExecutionTypes
<1>3. CaptureTypes' /\ capture'.state = capture.state
  <2>1. capture' = [capture EXCEPT !.keep = Less(@), !.left = Less(@)]
    BY DEF Tick
  <2> QED BY ONLY <1>2, <2>1, Zenon DEF CaptureTypes
<1>4. AttemptTypes' /\ \A i \in Items, t \in Attempts : attempt'[i][t].state = attempt[i][t].state
  <2>1. attempt' = [i \in Items |-> [t \in Attempts |->
                       [attempt[i][t] EXCEPT !.left = Less(@)]]]
    BY DEF Tick
  <2> QED BY ONLY <1>2, <2>1 DEF AttemptTypes
<1>5. ItemTypes' /\ \A i \in Items : item'[i].state = item[i].state /\ item'[i].token = item[i].token
                                               /\ item'[i].active = item[i].active
  <2>1. item' = [i \in Items |-> [item[i] EXCEPT !.wait = Less(@)]]
    BY DEF Tick
  <2> QED BY ONLY <1>2, <2>1, Zenon DEF ItemTypes
<1>6. StagesAreCurrent'
  <2>1. Stages(item', run, capture', cancelled) = Stages(item, run, capture, cancelled)
    BY <1>3, <1>5, SameStages, SMT DEF Sealed
  <2> QED BY <1>1, <2>1 DEF ExecutionInv, StagesAreCurrent
<1>7. capture'.state \in {"retiring", "retired"} => \A i \in Items : item[i].state \notin Open
  BY <1>3 DEF ExecutionInv, Closed, RetiredIsUnused
<1> QED BY <1>1, <1>3, <1>4, <1>5, <1>6, <1>7, QuietStep


\* A new attempt of a pending item.
LEMMA ClaimKeeps ==
    ASSUME ExecutionInv, NEW i \in Items, Claim(i)
    PROVE  ExecutionInv' /\ LeaseStep
<1> DEFINE t == item[i].token + 1
<1>1. /\ item[i].state = "pending" /\ ~cancelled /\ item[i].token < MaxAttempts /\ capture.state \in {"none", "active"}
      /\ item' = [item EXCEPT ![i] = Item("running", t, t, 0)]
      /\ attempt' = [attempt EXCEPT ![i][t] = Timed("running", LeaseTicks)]
      /\ UNCHANGED <<cancelled, capture, run>> /\ Restage
  BY DEF Claim, Claimable
<1>2. ItemTypes /\ AttemptTypes /\ i \in Items /\ MaxAttempts \in Nat /\ item[i].token \in 0..MaxAttempts
  BY ExecutionSets DEF ExecutionInv, ExecutionTypes, ItemTypes
<1>3. t \in Attempts /\ t \in 0..MaxAttempts /\ t > 0
  BY <1>1, <1>2, ExecutionSets, SMT
<1> HIDE DEF t
<1>4. /\ ItemTypes' /\ item'[i].state = "running" /\ item'[i].token = t /\ item'[i].active = t
      /\ \A j \in Items : j # i => item'[j] = item[j]
  BY ONLY <1>1, <1>2, <1>3, Zenon DEF ItemTypes, Item, Open
<1>5. /\ AttemptTypes' /\ attempt'[i][t].state = "running"
      /\ \A j \in Items : j # i => attempt'[j] = attempt[j]
  BY ONLY <1>1, <1>2, <1>3, Zenon DEF AttemptTypes, Timed
<1>6. ExecutionTypes'
  BY <1>1, <1>4, <1>5 DEF ExecutionInv, ExecutionTypes, CaptureTypes, RunTypes
<1>7. Owned'
  <2> SUFFICES ASSUME NEW j \in Items PROVE OwnedItem(j)'
    BY DEF Owned
  <2>1. CASE j = i
    BY ONLY <1>3, <1>4, <1>5, <2>1, Zenon DEF OwnedItem
  <2>2. CASE j # i
    <3>1. OwnedItem(j) /\ item'[j] = item[j] /\ attempt'[j] = attempt[j]
      BY <1>4, <1>5, <2>2 DEF ExecutionInv, Owned
    <3> QED BY ONLY <3>1, Zenon DEF OwnedItem
  <2> QED BY <2>1, <2>2
<1>8. Closed'
  BY <1>1 DEF Closed, RetiredIsUnused
<1>9. RunsInTurn'
  <2>1. run' = run /\ RunsInTurn /\ \A b \in Bindings : item'[b].state = "absent" <=> item[b].state = "absent"
    BY <1>1, <1>4, ExecutionSets DEF ExecutionInv
  <2> QED BY ONLY <2>1, Zenon DEF RunsInTurn
<1>10. RunsHaveOwners'
  <2>1. RunsHaveOwners /\ run' = run /\ (i # Detection => item'[Detection] = item[Detection]
                                         /\ attempt'[Detection] = attempt[Detection])
    BY <1>1, <1>4, <1>5, ExecutionSets DEF ExecutionInv
  <2> QED BY <1>1, <2>1 DEF RunsHaveOwners
<1>11. Whole'
  <2>1. Whole /\ run' = run /\ (item'[Detection].state = "completed" => item[Detection].state = "completed")
    BY <1>1, <1>4, ExecutionSets DEF ExecutionInv
  <2> QED BY ONLY <2>1, Zenon DEF Whole, Partial
<1>12. StagesAreCurrent'
  BY <1>1 DEF Restage, StagesAreCurrent
<1>13. LeaseStep
  <2> SUFFICES ASSUME NEW j \in Items PROVE [Lease(j)!Next]_(Lease(j)!vars)
    BY DEF LeaseStep
  <2>1. CASE j = i
    <3>1. item[i].active = 0 /\ item[i].state \notin Ended /\ item'[i].state \notin Ended
          /\ item'[i].token = item[i].token + 1 /\ item'[i].active = item'[i].token
      BY <1>1, <1>4 DEF ExecutionInv, Owned, OwnedItem, Ended, t
    <3> QED BY <2>1, <3>1, Acquired
  <2>2. CASE j # i
    BY <1>4, <2>2, Unleased
  <2> QED BY <2>1, <2>2
<1> QED BY <1>6, <1>7, <1>8, <1>9, <1>10, <1>11, <1>12, <1>13 DEF ExecutionInv


\* The end of an attempt: its item is done or goes back, and no run of it is left
\* unfinished.
LEMMA SettleKeeps ==
    ASSUME ExecutionInv, NEW i \in Items, NEW t \in Attempts, item[i].state = "running", item[i].active = t,
           NEW ending, NEW s \in {"completed", "failed", "pending"}, NEW wait, Settle(i, t, ending, s, wait), Restage,
           s = "pending" => t < MaxAttempts,
           run' = run \/ (i = Detection /\ s # "completed" /\ run' = Interrupt(run, t)),
           i = Detection /\ run' = run => \A b \in Bindings, n \in Ordinals : run[b][n].state # "running",
           i = Detection /\ s = "completed" => WholeInventory
    PROVE  ExecutionInv' /\ LeaseStep
<1>1. /\ item' = [item EXCEPT ![i] = Item(s, @.token, 0, wait)]
      /\ attempt' = [attempt EXCEPT ![i][t].state = ending]
      /\ UNCHANGED <<cancelled, capture>>
  BY DEF Settle
<1>2. ItemTypes /\ AttemptTypes /\ RunTypes /\ i \in Items /\ t \in Attempts
  BY DEF ExecutionInv, ExecutionTypes
<1>3. item[i].token = t /\ item[i].token \in 0..MaxAttempts /\ t # 0
  BY ExecutionSets, SMT DEF ExecutionInv, ExecutionTypes, ItemTypes, Owned, OwnedItem
<1>4. /\ ItemTypes' /\ item'[i].state = s /\ item'[i].token = t /\ item'[i].active = 0
      /\ \A j \in Items : j # i => item'[j] = item[j]
  <2>1. s \in {"completed", "failed", "pending"}
    OBVIOUS
  <2> QED BY ONLY <1>1, <1>2, <1>3, <2>1, Zenon DEF ItemTypes, Item, Open, Ended
<1>5. AttemptTypes' /\ \A j \in Items : j # i => attempt'[j] = attempt[j]
  BY ONLY <1>1, <1>2 DEF AttemptTypes
<1>6. /\ RunTypes'
      /\ \A b \in Bindings, n \in Ordinals :
            /\ run'[b][n].count = run[b][n].count /\ run'[b][n].by = run[b][n].by
            /\ \/ run'[b][n].state = run[b][n].state
               \/ run[b][n].state = "running" /\ run'[b][n].state = "interrupted"
  <2>1. CASE run' = run
    BY <1>2, <2>1 DEF RunTypes
  <2>2. CASE run' = Interrupt(run, t)
    BY ONLY <1>2, <2>2 DEF RunTypes, Interrupt
  <2> QED BY <2>1, <2>2
<1>7. i = Detection => \A b \in Bindings, n \in Ordinals : run'[b][n].state # "running"
  <2>1. CASE run' = run
    BY <2>1
  <2>2. CASE i = Detection /\ run' = Interrupt(run, t)
    <3>1. \A b \in Bindings, n \in Ordinals : run[b][n].state = "running" => run[b][n].by = t
      BY <2>2 DEF ExecutionInv, RunsHaveOwners
    <3> QED BY ONLY <1>2, <2>2, <3>1 DEF RunTypes, Interrupt
  <2> QED BY <2>1, <2>2
<1>8. ExecutionTypes'
  BY <1>1, <1>4, <1>5, <1>6 DEF ExecutionInv, ExecutionTypes, CaptureTypes
<1>9. Owned'
  <2> SUFFICES ASSUME NEW j \in Items PROVE OwnedItem(j)'
    BY DEF Owned
  <2>1. CASE j = i
    BY <1>4, <2>1 DEF OwnedItem
  <2>2. CASE j # i
    <3>1. OwnedItem(j) /\ item'[j] = item[j] /\ attempt'[j] = attempt[j]
      BY <1>4, <1>5, <2>2 DEF ExecutionInv, Owned
    <3> QED BY ONLY <3>1, Zenon DEF OwnedItem
  <2> QED BY <2>1, <2>2
<1>10. Closed'
  BY <1>1 DEF ExecutionInv, Closed, RetiredIsUnused, Open
<1>11. RunsInTurn'
  <2>1. RunsInTurn /\ \A b \in Bindings : item'[b].state = "absent" <=> item[b].state = "absent"
    BY <1>4, ExecutionSets DEF ExecutionInv
  <2> QED BY ONLY <1>6, <2>1 DEF RunsInTurn
<1>12. RunsHaveOwners'
  <2>1. CASE i = Detection
    BY <1>7, <2>1 DEF RunsHaveOwners
  <2>2. CASE i # Detection
    <3>1. RunsHaveOwners /\ item'[Detection] = item[Detection] /\ attempt'[Detection] = attempt[Detection]
      BY <1>4, <1>5, <2>2, ExecutionSets DEF ExecutionInv
    <3> QED BY ONLY <1>6, <3>1 DEF RunsHaveOwners
  <2> QED BY <2>1, <2>2
<1>13. Whole'
  <2> SUFFICES ASSUME item'[Detection].state = "completed"
               PROVE  ~Partial(run') /\ \A b \in Bindings : \E n \in Ordinals : run'[b][n].state = "completed"
    BY DEF Whole
  <2>1. CASE i = Detection
    <3>1. run' = run /\ WholeInventory
      BY <1>4, <2>1
    <3> QED BY <3>1 DEF WholeInventory
  <2>2. CASE i # Detection
    <3>1. run' = run /\ item[Detection].state = "completed"
      BY <1>4, <2>2, ExecutionSets
    <3> QED BY <3>1 DEF ExecutionInv, Whole
  <2> QED BY <2>1, <2>2
<1>14. StagesAreCurrent'
  BY DEF Restage, StagesAreCurrent
<1>15. LeaseStep
  <2> SUFFICES ASSUME NEW j \in Items PROVE [Lease(j)!Next]_(Lease(j)!vars)
    BY DEF LeaseStep
  <2>1. CASE j = i
    BY <1>3, <1>4, <2>1, Yielded
  <2>2. CASE j # i
    BY <1>4, <2>2, Unleased
  <2> QED BY <2>1, <2>2
<1> QED BY <1>8, <1>9, <1>10, <1>11, <1>12, <1>13, <1>14, <1>15 DEF ExecutionInv

\* A completed attempt, a failed one, and one whose lease expired.
LEMMA FinishKeeps ==
    ASSUME ExecutionInv, NEW i \in Items, NEW t \in Attempts,
           Complete(i, t) \/ \E retryable \in BOOLEAN : FinishWork(i, t, retryable) \/ Expire(i, t, retryable)
    PROVE  ExecutionInv' /\ LeaseStep
<1>1. item[i].state = "running" /\ item[i].active = t /\ Restage
  BY DEF Complete, FinishWork, Expire, FinishFailed, Live
<1>2. CASE Complete(i, t)
  <2>1. Settle(i, t, "completed", "completed", item[i].wait) /\ run' = run /\ (i = Detection => WholeInventory)
    BY <1>2 DEF Complete
  <2>2. i = Detection => \A b \in Bindings, n \in Ordinals : run[b][n].state # "running"
    BY <2>1 DEF WholeInventory
  <2> QED BY <1>1, <2>1, <2>2, SettleKeeps
<1>3. ASSUME NEW ending, NEW retryable, FinishFailed(i, t, ending, retryable) PROVE ExecutionInv' /\ LeaseStep
  <2> DEFINE r == IF i = Detection THEN Interrupt(run, t) ELSE run
  <2> DEFINE again == RetryAllowed(i, t, r, retryable)
  <2> DEFINE s == IF again THEN "pending" ELSE "failed"
  <2> DEFINE w == IF again THEN Backoff(t) ELSE item[i].wait
  <2>1. Settle(i, t, ending, s, w) /\ run' = r
    BY <1>3 DEF FinishFailed
  <2>2. s \in {"completed", "failed", "pending"} /\ s # "completed" /\ (s = "pending" => t < MaxAttempts)
    BY DEF RetryAllowed
  <2>3. (i = Detection => run' = Interrupt(run, t)) /\ (i # Detection => run' = run)
    BY ONLY <2>1, Zenon DEF r
  <2>4. i = Detection /\ run' = run => \A b \in Bindings, n \in Ordinals : run[b][n].state # "running"
    <3> SUFFICES ASSUME i = Detection, run' = run, NEW b \in Bindings, NEW n \in Ordinals, run[b][n].state = "running"
                 PROVE  FALSE
      OBVIOUS
    <3>1. run = Interrupt(run, t)
      BY <2>3
    <3>2. run[b][n].by = t /\ RunTypes
      BY <1>1 DEF ExecutionInv, ExecutionTypes, RunsHaveOwners
    <3>3. Interrupt(run, t)[b][n].state = "interrupted"
      BY <3>2 DEF Interrupt, RunTypes
    <3> QED BY <3>1, <3>3
  <2> HIDE DEF s, w, r, again
  <2> QED BY <1>1, <2>1, <2>2, <2>3, <2>4, SettleKeeps
<1> QED BY <1>2, <1>3 DEF FinishWork, Expire


\* A cancelled request has no open work and no unfinished run.
LEMMA CancelKeeps ==
    ASSUME ExecutionInv, CancelRequest
    PROVE  ExecutionInv' /\ LeaseStep
<1>1. /\ cancelled' = TRUE /\ capture' = capture /\ Restage
      /\ run' = [b \in Bindings |-> [n \in Ordinals |->
                    IF run[b][n].state = "running" THEN [run[b][n] EXCEPT !.state = "cancelled"] ELSE run[b][n]]]
      /\ attempt' = [i \in Items |-> [t \in Attempts |->
                        IF attempt[i][t].state = "running"
                        THEN [attempt[i][t] EXCEPT !.state = "cancelled"] ELSE attempt[i][t]]]
      /\ item' = [i \in Items |->
                     IF item[i].state \in Open THEN Item("cancelled", item[i].token, 0, item[i].wait) ELSE item[i]]
  BY DEF CancelRequest
<1>2. ItemTypes /\ AttemptTypes /\ RunTypes
  BY DEF ExecutionInv, ExecutionTypes
<1>3. /\ ItemTypes'
      /\ \A i \in Items :
            /\ item'[i].token = item[i].token
            /\ item[i].state \in Open => item'[i].state = "cancelled" /\ item'[i].active = 0
            /\ item[i].state \notin Open => item'[i] = item[i]
  BY ONLY <1>1, <1>2, Zenon DEF ItemTypes, Item, Ended
<1>4. AttemptTypes'
  BY ONLY <1>1, <1>2, Zenon DEF AttemptTypes
<1>5. /\ RunTypes'
      /\ \A b \in Bindings, n \in Ordinals :
            /\ run'[b][n].count = run[b][n].count
            /\ run[b][n].state = "running" => run'[b][n].state = "cancelled"
            /\ run[b][n].state # "running" => run'[b][n].state = run[b][n].state
  BY ONLY <1>1, <1>2 DEF RunTypes
<1>6. ExecutionTypes'
  BY <1>1, <1>3, <1>4, <1>5 DEF ExecutionInv, ExecutionTypes, CaptureTypes
<1>7. \A i \in Items : item'[i].state \notin Open /\ (item'[i].state = "absent" <=> item[i].state = "absent")
  BY <1>3 DEF Open
<1>8. Owned'
  <2> SUFFICES ASSUME NEW i \in Items PROVE OwnedItem(i)'
    BY DEF Owned
  <2>1. OwnedItem(i) /\ item'[i].state # "running" /\ item'[i].state # "pending"
        /\ (item[i].state \in Open => item'[i].active = 0 /\ item'[i].state = "cancelled")
        /\ (item[i].state \notin Open => item'[i] = item[i])
    BY <1>3, <1>7 DEF ExecutionInv, Owned, Open
  <2> QED BY ONLY <2>1, Zenon DEF OwnedItem
<1>9. Closed'
  BY <1>7 DEF Closed, RetiredIsUnused
<1>10. RunsInTurn'
  <2>1. RunsInTurn /\ \A b \in Bindings : item'[b].state = "absent" <=> item[b].state = "absent"
    BY <1>7, ExecutionSets DEF ExecutionInv
  <2>2. \A b \in Bindings, n \in Ordinals : run'[b][n].state # "running"
    BY <1>5
  <2> QED BY ONLY <1>5, <2>1, <2>2 DEF RunsInTurn
<1>11. RunsHaveOwners'
  BY <1>5 DEF RunsHaveOwners
<1>12. Whole'
  <2> SUFFICES ASSUME item'[Detection].state = "completed"
               PROVE  ~Partial(run') /\ \A b \in Bindings : \E n \in Ordinals : run'[b][n].state = "completed"
    BY DEF Whole
  <2>1. item[Detection].state = "completed"
    BY <1>3, ExecutionSets
  <2>2. \A b \in Bindings, n \in Ordinals : run'[b][n].state = run[b][n].state /\ run'[b][n].count = run[b][n].count
    BY <1>5, <2>1 DEF ExecutionInv, RunsHaveOwners
  <2>3. Whole
    BY DEF ExecutionInv
  <2> QED BY ONLY <2>1, <2>2, <2>3 DEF Whole, Partial
<1>13. StagesAreCurrent'
  BY <1>1 DEF Restage, StagesAreCurrent
<1>14. LeaseStep
  <2> SUFFICES ASSUME NEW i \in Items PROVE [Lease(i)!Next]_(Lease(i)!vars)
    BY DEF LeaseStep
  <2>1. OwnedItem(i) /\ item[i].token \in 0..MaxAttempts
    BY DEF ExecutionInv, ExecutionTypes, ItemTypes, Owned
  <2>2. CASE item[i].state = "running"
    BY <1>3, <2>1, <2>2, Yielded, ExecutionSets, SMT DEF OwnedItem, Open
  <2>3. CASE item[i].state = "pending"
    <3>1. item[i].active = 0 /\ item[i].state \notin Ended /\ item'[i].token = item[i].token /\ item'[i].active = 0
          /\ item'[i].state \in Ended
      BY <1>3, <2>1, <2>3 DEF OwnedItem, Open, Ended
    <3> QED BY <3>1, Withdrawn
  <2>4. CASE item[i].state \notin Open
    BY <1>3, <2>4, Unleased
  <2> QED BY <2>2, <2>3, <2>4 DEF Open
<1> QED BY <1>6, <1>8, <1>9, <1>10, <1>11, <1>12, <1>13, <1>14 DEF ExecutionInv


\* Without a completed run no failure is made good.
LEMMA NoneCovered ==
    ASSUME NEW r, \A m \in Ordinals : r[m].state # "completed"
    PROVE  Covered(r) = {}
<1> SUFFICES ASSUME NEW n \in Covered(r) PROVE FALSE
  OBVIOUS
<1>1. {} \in SUBSET Ordinals
  OBVIOUS
<1>2. \A S \in SUBSET Ordinals :
        (/\ \A m \in Ordinals : r[m].state = "completed" => m \in S
         /\ \A m \in S, d \in Ordinals : r[m].supersedes = d /\ r[d].count = 0 => d \in S)
        => n \in S
  BY DEF Covered
<1>3. /\ \A m \in Ordinals : r[m].state = "completed" => m \in {}
      /\ \A m \in {}, d \in Ordinals : r[m].supersedes = d /\ r[d].count = 0 => d \in {}
  OBVIOUS
<1> QED BY ONLY Zenon, <1>1, <1>2, <1>3

\* A detector run begins.  A binding without a completed run covers no failure,
\* before and after.
LEMMA BeginKeeps ==
    ASSUME ExecutionInv, NEW t \in Attempts, NEW b \in Bindings, BeginDetectorRun(t, b)
    PROVE  ExecutionInv' /\ LeaseStep
<1>1. /\ Live(Detection, t) /\ \A n \in Ordinals : run[b][n].state \notin {"completed", "running"}
      /\ ~Partial(run) /\ UNCHANGED <<request, cancelled, capture, item, attempt, lease>>
  BY DEF BeginDetectorRun
<1>2. PICK n \in Ordinals, leaf \in 0..MaxRuns :
        /\ run[b][n].state = "absent" /\ \A m \in 1..(n - 1) : run[b][m].state # "absent"
        /\ Leaves(b) = IF leaf = 0 THEN {} ELSE {leaf}
        /\ run' = [run EXCEPT ![b][n] = Run("running", t, 0, leaf)]
  BY DEF BeginDetectorRun
<1>3. item[Detection].state = "running" /\ item[Detection].active = t /\ attempt[Detection][t].state = "running"
  BY <1>1 DEF Live
<1>4. /\ RunTypes' /\ run'[b][n] = Run("running", t, 0, leaf)
      /\ \A c \in Bindings, m \in Ordinals : c # b \/ m # n => run'[c][m] = run[c][m]
      /\ \A c \in Bindings : c # b => run'[c] = run[c]
  <2> DEFINE row == Run("running", t, 0, leaf)
  <2>1. DOMAIN row = {"state", "by", "count", "supersedes"} /\ row.count \in Nat /\ run' = [run EXCEPT ![b][n] = row]
    BY <1>2 DEF Run
  <2>2. RunTypes
    BY DEF ExecutionInv, ExecutionTypes
  <2> HIDE DEF row
  <2>3. /\ RunTypes' /\ run'[b][n] = row
        /\ \A c \in Bindings, m \in Ordinals : c # b \/ m # n => run'[c][m] = run[c][m]
        /\ \A c \in Bindings : c # b => run'[c] = run[c]
    <3>1. b \in Bindings /\ n \in Ordinals
      OBVIOUS
    <3> QED BY ONLY <2>1, <2>2, <3>1 DEF RunTypes
  <2> QED BY <2>3 DEF row
<1>5. run'[b][n].state = "running" /\ run'[b][n].by = t /\ run'[b][n].count = 0
  BY <1>4, SMT DEF Run
<1>6. ExecutionTypes' /\ Owned' /\ Closed'
  <2>1. ExecutionTypes /\ Owned /\ Closed
    BY DEF ExecutionInv
  <2> QED BY ONLY <1>1, <1>4, <2>1, ZenonT(40) DEF ExecutionTypes, ItemTypes, CaptureTypes, AttemptTypes, Owned, OwnedItem, Closed,
        RetiredIsUnused
<1>7. \A m \in Ordinals : run[b][m].count = 0
  <2> SUFFICES ASSUME NEW m \in Ordinals PROVE run[b][m].count = 0
    OBVIOUS
  <2>1. run[b][m].count \in Nat /\ (run[b][m].state = "absent" => run[b][m].count = 0)
    BY DEF ExecutionInv, ExecutionTypes, RunTypes, RunsInTurn
  <2>2. run[b][m].state = "absent" \/ ~(run[b][m].count > 0)
    BY <1>1 DEF Partial
  <2> QED BY ONLY <2>1, <2>2
<1>8. item[b].state = "absent"
  BY <1>7 DEF ExecutionInv, RunsInTurn
<1>9. RunsInTurn'
  <2>1. RunsInTurn /\ item' = item
    BY <1>1 DEF ExecutionInv
  <2>2. \A c \in Bindings, m \in Ordinals :
          /\ run'[c][m].state \in {"absent", "running"} => run'[c][m].count = 0
          /\ run'[c][m].state = "running" => item'[c].state = "absent"
          /\ item'[c].state = "absent" => run'[c][m].count = 0
    BY ONLY <1>4, <1>5, <1>8, <2>1, SMTT(20) DEF RunsInTurn
  <2>3. \A c \in Bindings : (\A m \in Ordinals : run'[c][m].count = 0) => item'[c].state = "absent"
    BY ONLY <1>4, <1>8, <2>1, SMTT(20) DEF RunsInTurn
  <2>4. \A c \in Bindings, m, k \in Ordinals :
          run'[c][m].state \in {"completed", "running"} /\ run'[c][k].state \in {"completed", "running"} => m = k
    BY ONLY <1>1, <1>4, <2>1, SMTT(20) DEF RunsInTurn
  <2> QED BY ONLY <2>2, <2>3, <2>4, Zenon DEF RunsInTurn
<1>10. RunsHaveOwners'
  <2>1. RunsHaveOwners
    BY DEF ExecutionInv
  <2> QED BY ONLY <1>1, <1>3, <1>4, <1>5, <2>1 DEF RunsHaveOwners
<1>11. Whole'
  BY <1>1, <1>3 DEF Whole
<1>12. StagesAreCurrent'
  <2>1. Covered(run[b]) = {} /\ Covered(run'[b]) = {}
    <3>1. \A m \in Ordinals : run[b][m].state # "completed" /\ run'[b][m].state # "completed"
      BY <1>1, <1>4, <1>5
    <3> QED BY <3>1, NoneCovered
  <2>2. \A m \in Ordinals : run'[b][m].state \in {"failed", "interrupted"} <=> run[b][m].state \in {"failed", "interrupted"}
    BY <1>2, <1>4, <1>5
  <2>3. \A c \in Bindings, m \in Ordinals :
          (run'[c][m].state \in {"failed", "interrupted"} /\ m \notin Covered(run'[c]))
          <=> (run[c][m].state \in {"failed", "interrupted"} /\ m \notin Covered(run[c]))
    BY ONLY <1>4, <2>1, <2>2, Zenon
  <2>4. Unsuperseded(run') <=> Unsuperseded(run)
    BY ONLY <2>3, Zenon DEF Unsuperseded
  <2>5. Stages(item, run', capture, cancelled) = Stages(item, run, capture, cancelled)
    BY <2>4, SameStages, SMT
  <2> QED BY <1>1, <2>5 DEF ExecutionInv, StagesAreCurrent
<1>13. LeaseStep
  BY <1>1, Unleased DEF LeaseStep
<1> QED BY <1>6, <1>9, <1>10, <1>11, <1>12, <1>13 DEF ExecutionInv


\* A detector run ends, with results or without.
LEMMA EndRunKeeps ==
    ASSUME ExecutionInv, NEW t \in Attempts, NEW b \in Bindings, NEW n \in Ordinals,
           FailDetectorRun(t, b, n)
           \/ \E status \in {"completed", "failed"}, c \in 0..1 : RetainDetectionBatch(t, b, n, status, c)
    PROVE  ExecutionInv' /\ LeaseStep
<1>1. /\ Live(Detection, t) /\ run[b][n].state = "running" /\ UNCHANGED <<cancelled, capture, attempt>> /\ Restage
  BY DEF FailDetectorRun, RetainDetectionBatch
<1> DEFINE Ends(status, c) ==
        /\ \/ c = 0 /\ run' = [run EXCEPT ![b][n].state = status]
           \/ run' = [run EXCEPT ![b][n].state = status, ![b][n].count = c]
        /\ item' = IF c > 0 THEN [item EXCEPT ![b] = Item("pending", 0, 0, 0)] ELSE item
<1>2. PICK status \in {"completed", "failed"}, c \in 0..1 : Ends(status, c)
  <2>1. CASE FailDetectorRun(t, b, n)
    <3>1. 0 \in 0..1 /\ Ends("failed", 0)
      BY <2>1, SMT DEF FailDetectorRun
    <3> HIDE DEF Ends
    <3> QED BY <3>1
  <2>2. ASSUME NEW status \in {"completed", "failed"}, NEW c \in 0..1, RetainDetectionBatch(t, b, n, status, c)
        PROVE  Ends(status, c)
    BY <2>2 DEF RetainDetectionBatch
  <2> HIDE DEF Ends
  <2> QED BY <2>1, <2>2
<1>3. item[Detection].state = "running" /\ ~cancelled /\ b \in Bindings /\ n \in Ordinals /\ b \in Items /\ b # Detection
      /\ ItemTypes /\ RunTypes /\ RunsInTurn /\ MaxAttempts \in Nat /\ MaxAttempts > 0
  BY <1>1, ExecutionSets DEF Live, ExecutionInv, ExecutionTypes
<1>4. item[b].state = "absent" /\ \A m \in Ordinals : run[b][m].count = 0
  BY ONLY <1>1, <1>3, SMTT(20) DEF RunsInTurn
<1>5. item[b].token = 0 /\ item[b].active = 0
  BY <1>3, <1>4 DEF ExecutionInv, Owned, OwnedItem
<1>6. /\ RunTypes' /\ run'[b][n].state = status /\ run'[b][n].count = c
      /\ \A d \in Bindings, m \in Ordinals : d # b \/ m # n => run'[d][m] = run[d][m]
  <2>1. c \in Nat
    BY SMT
  <2>2. CASE c = 0 /\ run' = [run EXCEPT ![b][n].state = status]
    BY ONLY <1>3, <1>4, <2>2 DEF RunTypes
  <2>3. CASE run' = [run EXCEPT ![b][n].state = status, ![b][n].count = c]
    BY ONLY <1>3, <2>1, <2>3 DEF RunTypes
  <2> QED BY <1>2, <2>2, <2>3
<1>7. /\ ItemTypes' /\ \A i \in Items : i # b => item'[i] = item[i]
      /\ item'[b].token = 0 /\ item'[b].active = 0 /\ item'[b].state = IF c > 0 THEN "pending" ELSE "absent"
  BY ONLY <1>2, <1>3, <1>4, <1>5, SMTT(20) DEF ItemTypes, Item, Open
<1>8. ExecutionTypes'
  BY <1>1, <1>6, <1>7 DEF ExecutionInv, ExecutionTypes, CaptureTypes, AttemptTypes
<1>9. Owned'
  <2> SUFFICES ASSUME NEW i \in Items PROVE OwnedItem(i)'
    BY DEF Owned
  <2>1. OwnedItem(i) /\ attempt' = attempt
    BY <1>1 DEF ExecutionInv, Owned
  <2>2. CASE i = b
    BY ONLY <1>3, <1>7, <2>2, SMTT(20) DEF OwnedItem
  <2>3. CASE i # b
    BY ONLY <1>7, <2>1, <2>3, i \in Items, SMTT(20) DEF OwnedItem
  <2> QED BY <2>2, <2>3
<1>10. Closed'
  BY <1>1, <1>3, ExecutionSets DEF ExecutionInv, Closed, RetiredIsUnused, Open
<1>11. RunsInTurn'
  <2>1. status \in {"completed", "failed"} /\ c \in 0..1
    OBVIOUS
  <2>2. \A d \in Bindings : d # b => item'[d] = item[d]
    BY <1>7, ExecutionSets
  <2>3. \A d \in Bindings, m \in Ordinals :
          /\ run'[d][m].state \in {"absent", "running"} => run'[d][m].count = 0
          /\ run'[d][m].state = "running" => item'[d].state = "absent"
          /\ item'[d].state = "absent" => run'[d][m].count = 0
    <3> SUFFICES ASSUME NEW d \in Bindings, NEW m \in Ordinals
                 PROVE  /\ run'[d][m].state \in {"absent", "running"} => run'[d][m].count = 0
                        /\ run'[d][m].state = "running" => item'[d].state = "absent"
                        /\ item'[d].state = "absent" => run'[d][m].count = 0
      OBVIOUS
    <3>1. CASE d = b /\ m = n
      BY ONLY <1>6, <1>7, <2>1, <3>1
    <3>2. CASE d # b
      <4>1. run'[d][m] = run[d][m] /\ item'[d] = item[d]
        BY <1>6, <2>2, <3>2
      <4>2. RunsInTurn
        BY <1>3
      <4> QED BY ONLY <4>1, <4>2, d \in Bindings, m \in Ordinals DEF RunsInTurn
    <3>3. CASE d = b /\ m # n
      <4>1. run'[d][m] = run[d][m]
        BY <1>6, <3>3
      <4>2. run[d][m].count = 0 /\ run[d][m].state # "running"
        BY <1>1, <1>3, <1>4, <3>3 DEF RunsInTurn
      <4> QED BY ONLY <4>1, <4>2
    <3> QED BY <3>1, <3>2, <3>3
  <2>4. \A d \in Bindings : (\A m \in Ordinals : run'[d][m].count = 0) => item'[d].state = "absent"
    <3> SUFFICES ASSUME NEW d \in Bindings, \A m \in Ordinals : run'[d][m].count = 0 PROVE item'[d].state = "absent"
      OBVIOUS
    <3>1. CASE d = b
      BY <1>3, <1>6, <1>7, <3>1, SMT
    <3>2. CASE d # b
      <4>1. \A m \in Ordinals : run[d][m].count = 0
        BY <1>6, <3>2
      <4> QED BY <1>3, <2>2, <3>2, <4>1 DEF RunsInTurn
    <3> QED BY <3>1, <3>2
  <2>5. \A d \in Bindings, m, k \in Ordinals :
          run'[d][m].state \in {"completed", "running"} /\ run'[d][k].state \in {"completed", "running"} => m = k
    BY ONLY <1>1, <1>3, <1>6, SMTT(20) DEF RunsInTurn
  <2> QED BY ONLY <2>3, <2>4, <2>5, Zenon DEF RunsInTurn
<1>12. RunsHaveOwners'
  <2>1. RunsHaveOwners /\ item'[Detection] = item[Detection] /\ attempt' = attempt /\ run'[b][n].state # "running"
    BY <1>1, <1>3, <1>6, <1>7, ExecutionSets DEF ExecutionInv
  <2> QED BY ONLY <1>6, <2>1, SMTT(20) DEF RunsHaveOwners
<1>13. Whole'
  BY <1>3, <1>7, ExecutionSets DEF Whole
<1>14. StagesAreCurrent'
  BY <1>1 DEF Restage, StagesAreCurrent
<1>15. LeaseStep
  <2> SUFFICES ASSUME NEW i \in Items PROVE [Lease(i)!Next]_(Lease(i)!vars)
    BY DEF LeaseStep
  <2>1. CASE i = b
    <3>1. item'[i].active = item[i].active /\ item'[i].token = item[i].token /\ item'[i].state \notin Ended
          /\ item[i].state \notin Ended
      BY <1>4, <1>5, <1>7, <2>1 DEF Ended
    <3> QED BY <3>1, Unleased
  <2>2. CASE i # b
    BY <1>7, <2>2, Unleased
  <2> QED BY <2>1, <2>2
<1> QED BY <1>8, <1>9, <1>10, <1>11, <1>12, <1>13, <1>14, <1>15 DEF ExecutionInv


\* The store starts with the invariant, and every operation keeps it.
LEMMA ExecutionStart == executionInit => ExecutionInv /\ \A i \in Items : Lease(i)!Init
<1> SUFFICES ASSUME executionInit PROVE ExecutionInv /\ \A i \in Items : Lease(i)!Init
  OBVIOUS
<1> USE ExecutionSets
<1>1. \A i \in Items : /\ DOMAIN item[i] = {"state", "token", "active", "wait"}
                       /\ item[i].state = IF i = Detection THEN "pending" ELSE "absent"
                       /\ item[i].token = 0 /\ item[i].active = 0
  BY DEF executionInit, Item
<1>2. \A b \in Bindings, n \in Ordinals :
        run[b][n].state = "absent" /\ run[b][n].count = 0 /\ DOMAIN run[b][n] = {"state", "by", "count", "supersedes"}
  BY DEF executionInit, Run
<1>3. ExecutionTypes
  <2>1. ItemTypes
    BY <1>1, SMT DEF executionInit, ItemTypes, Open
  <2>0. cancelled \in BOOLEAN
    <3>1. cancelled = FALSE
      BY DEF executionInit
    <3> QED BY ONLY <3>1, Zenon
  <2>2. CaptureTypes
    <3>1. capture = [state |-> "none", keep |-> 0, token |-> 0, left |-> 0]
      BY DEF executionInit
    <3> QED BY ONLY <3>1, Zenon DEF CaptureTypes
  <2>3. AttemptTypes
    BY DEF executionInit, AttemptTypes, Timed
  <2>4. RunTypes
    <3>1. DOMAIN run = Bindings /\ \A b \in Bindings : DOMAIN run[b] = Ordinals
      BY DEF executionInit
    <3> QED BY ONLY <1>2, <3>1 DEF RunTypes
  <2> QED BY <2>0, <2>1, <2>2, <2>3, <2>4 DEF ExecutionTypes
<1>4. Owned
  BY <1>1 DEF Owned, OwnedItem
<1>5. Closed
  BY DEF executionInit, Closed, RetiredIsUnused
<1>6. RunsInTurn /\ RunsHaveOwners
  BY <1>1, <1>2, ZenonT(40) DEF RunsInTurn, RunsHaveOwners
<1>7. Whole
  BY <1>1 DEF Whole
<1>8. StagesAreCurrent
  <2>1. ~Unsuperseded(run)
    BY <1>2 DEF Unsuperseded
  <2>2. ~Sealed(capture) /\ cancelled = FALSE /\ item[Detection].state = "pending"
    BY <1>1 DEF executionInit, Sealed
  <2>3. \A b \in Bindings : item[b].state = "absent"
    BY <1>1
  <2>4. request = [detection |-> "pending", identity |-> "pending", capture |-> "pending"]
    BY DEF executionInit
  <2> QED BY ONLY <2>1, <2>2, <2>3, <2>4, Zenon DEF StagesAreCurrent, Stages
<1>9. \A i \in Items : Lease(i)!Init
  BY <1>1, SMT DEF Lease!Init, Ended
<1> QED BY <1>3, <1>4, <1>5, <1>6, <1>7, <1>8, <1>9 DEF ExecutionInv

LEMMA OperationKeeps == ExecutionInv /\ executionNext => ExecutionInv' /\ LeaseStep
<1> SUFFICES ASSUME ExecutionInv, executionNext PROVE ExecutionInv' /\ LeaseStep
  OBVIOUS
<1>1. ASSUME NEW i \in Items, Claim(i) PROVE ExecutionInv' /\ LeaseStep
  BY <1>1, ClaimKeeps
<1>2. ASSUME NEW i \in Items, NEW t \in Attempts, Worker(i, t) PROVE ExecutionInv' /\ LeaseStep
  BY <1>2, RenewKeeps, FinishKeeps DEF Worker
<1>3. ASSUME NEW t \in Attempts, Detect(t) PROVE ExecutionInv' /\ LeaseStep
  BY <1>3, CaptureKeeps, BeginKeeps, EndRunKeeps DEF Detect
<1> QED BY <1>1, <1>2, <1>3, CancelKeeps, CaptureKeeps, TickKeeps DEF executionNext

LEMMA ExecutionStep == ExecutionInv /\ [executionNext]_executionVars => ExecutionInv' /\ [LeaseStep]_executionVars
<1> SUFFICES ASSUME ExecutionInv, [executionNext]_executionVars PROVE ExecutionInv' /\ [LeaseStep]_executionVars
  OBVIOUS
<1>1. CASE UNCHANGED executionVars
  <2> USE <1>1 DEF executionVars
  <2>1. ExecutionTypes' = ExecutionTypes
    BY DEF ExecutionTypes, ItemTypes, CaptureTypes, AttemptTypes, RunTypes
  <2>2. Owned' = Owned /\ Closed' = Closed
    BY DEF Owned, OwnedItem, Closed, RetiredIsUnused
  <2>3. RunsInTurn' = RunsInTurn /\ RunsHaveOwners' = RunsHaveOwners
    BY DEF RunsInTurn, RunsHaveOwners
  <2>4. Whole' = Whole /\ StagesAreCurrent' = StagesAreCurrent
    BY DEF Whole, StagesAreCurrent
  <2> QED BY <1>1, <2>1, <2>2, <2>3, <2>4 DEF ExecutionInv
<1>2. CASE executionNext
  BY <1>2, OperationKeeps
<1> QED BY <1>1, <1>2

\* What the invariant says of a request.
LEMMA ExecutionIsKept ==
    ASSUME ExecutionInv
    PROVE  RunsHaveOwners /\ RetiredIsUnused /\ PendingIsClaimable /\ StagesAreCurrent /\ DetectionIsWhole
<1>1. PendingIsClaimable
  <2> SUFFICES ASSUME NEW i \in Items, item[i].state = "pending" PROVE Claimable(i)
    BY DEF PendingIsClaimable
  <2>1. item[i].token < MaxAttempts
    BY DEF ExecutionInv, Owned, OwnedItem
  <2>2. ~cancelled /\ capture.state \notin {"retiring", "retired"}
    BY DEF ExecutionInv, Closed, RetiredIsUnused, Open
  <2>3. capture.state \in {"none", "active", "retiring", "retired"}
    BY DEF ExecutionInv, ExecutionTypes, CaptureTypes
  <2> QED BY <2>1, <2>2, <2>3 DEF Claimable
<1>2. DetectionIsWhole
  <2> SUFFICES ASSUME request.detection = "completed"
               PROVE  /\ ~Partial(run)
                      /\ \A b \in Bindings : \E n \in Ordinals :
                            /\ run[b][n].state = "completed"
                            /\ \A m \in Ordinals : run[b][m].state = "completed" => m = n
    BY DEF DetectionIsWhole
  <2>1. item[Detection].state = "completed"
    <3>1. request.detection = IF Unsuperseded(run) THEN "failed" ELSE item[Detection].state
      BY DEF ExecutionInv, StagesAreCurrent, Stages
    <3> QED BY <3>1
  <2>2. ~Partial(run) /\ \A b \in Bindings : \E n \in Ordinals : run[b][n].state = "completed"
    BY <2>1 DEF ExecutionInv, Whole
  <2>3. \A b \in Bindings, m, n \in Ordinals :
          run[b][m].state = "completed" /\ run[b][n].state = "completed" => m = n
    BY DEF ExecutionInv, RunsInTurn
  <2> QED BY <2>2, <2>3
<1> QED BY <1>1, <1>2 DEF ExecutionInv, Closed

\* For any bindings, attempts, runs and clocks: no work of a request outlives its
\* owner, its capture or its cancellation, none that is pending cannot be claimed,
\* and the states kept on the request are those of its rows.
THEOREM ExecutionStaysOwned == executionSpec => []ExecutionIsOwned
<1>1. executionInit => ExecutionInv
  BY ExecutionStart
<1>2. ExecutionInv /\ [executionNext]_executionVars => ExecutionInv'
  BY ExecutionStep
<1>3. ExecutionInv => ExecutionIsOwned
  BY ExecutionIsKept DEF ExecutionIsOwned
<1> QED BY <1>1, <1>2, <1>3, PTL DEF executionSpec

\* The execution store implements LeasedWork for each of its items.
THEOREM StoreImplementsLeases == executionSpec => ImplementsLeases
<1>1. executionInit => ExecutionInv /\ \A i \in Items : Lease(i)!Init
  BY ExecutionStart
<1>2. ExecutionInv /\ [executionNext]_executionVars => ExecutionInv' /\ [LeaseStep]_executionVars
  BY ExecutionStep
<1> QED BY <1>1, <1>2, PTL DEF executionSpec, ImplementsLeases, LeaseStep

-----------------------------------------------------------------------------
(* The detector worker.                                                    *)

Running == {"add", "sign", "commit"}

Current(w, k) == <<job[w], k, receipt[w]>>

\* Progress of the delivery a worker handles: what it has signed, and what it
\* has added and still holds pending in a usable session.
Progress(w) ==
    /\ pc[w] # "idle" => receipt[w] \in 1..MaxReceive
    /\ pc[w] = "parse" => idx[w] = 0
    /\ pc[w] \in {"add", "sign"} => idx[w] < NumFindings
    /\ pc[w] = "commit" => idx[w] = NumFindings
    /\ pc[w] \in Running =>
          \A k \in 1..idx[w] :
              /\ Current(w, k) \in signed
              /\ session[w].tx = "broken" \/ Current(w, k) \in session[w].pending
    /\ pc[w] = "sign" => session[w].tx = "broken" \/ Current(w, idx[w] + 1) \in session[w].pending
    /\ pc[w] = "ack" => \A k \in 1..NumFindings : Current(w, k) \in committed \cap signed

\* The inductive invariant: AckedJobsStored alone is not preserved by Ack, which
\* relies on what the steps before it established.
IInv ==
    /\ TypeOK
    /\ AckedJobsStored
    /\ BoundIsTransactionTenant
    /\ \A w \in Workers : Progress(w)

LEMMA AnyJobIsJob == AnyJob \in Jobs
  BY DetectorWorkerAssumption DEF AnyJob

\* A worker that leaves handle_queue_message has well-typed locals ...
LEMMA ExitTypes ==
    ASSUME TypeOK, NEW w \in Workers, Exit(w)
    PROVE  /\ pc' \in [Workers -> {"idle", "parse", "add", "sign", "commit", "ack", "fail"}]
           /\ job' \in [Workers -> Jobs]
           /\ receipt' \in [Workers -> 0..MaxReceive]
           /\ idx' \in [Workers -> 0..NumFindings]
  BY AnyJobIsJob, DetectorWorkerAssumption, SMT DEF TypeOK, Exit, Goto

\* ... owes nothing, and leaves the other workers alone.
LEMMA ExitProgress ==
    ASSUME TypeOK, \A v \in Workers : Progress(v), NEW w \in Workers, Exit(w),
           committed' = committed, signed' = signed,
           \A v \in Workers \ {w} : session'[v] = session[v]
    PROVE  \A v \in Workers : Progress(v)'
  <1> SUFFICES ASSUME NEW v \in Workers PROVE Progress(v)'
    OBVIOUS
  <1>1. CASE v = w
    <2>1. pc'[v] = "idle"
      BY <1>1 DEF TypeOK, Exit, Goto
    <2> QED
      BY <2>1 DEF Progress, Running
  <1>2. CASE v # w
    <2>1. /\ pc'[v] = pc[v] /\ job'[v] = job[v] /\ receipt'[v] = receipt[v]
          /\ idx'[v] = idx[v] /\ session'[v] = session[v]
      BY <1>2 DEF TypeOK, Exit, Goto
    <2> QED
      BY <2>1 DEF Progress, Current
  <1> QED
    BY <1>1, <1>2

LEMMA InitIInv == Init => IInv
  <1> SUFFICES ASSUME Init PROVE IInv
    OBVIOUS
  <1> USE DetectorWorkerAssumption
  <1>1. TypeOK
    BY AnyJobIsJob, SMT DEF Init, TypeOK, FreshSession
  <1>2. AckedJobsStored
    BY DEF Init, AckedJobsStored
  <1>3. BoundIsTransactionTenant
    BY DEF Init, BoundIsTransactionTenant, FreshSession
  <1>4. \A w \in Workers : Progress(w)
    BY DEF Init, Progress, Running
  <1> QED
    BY <1>1, <1>2, <1>3, <1>4 DEF IInv

\* A step that leaves the queue, the table and the signatures as they are, or
\* only adds to the last two, keeps the stored jobs stored.
LEMMA StoredKept ==
    ASSUME AckedJobsStored, committed \subseteq committed', signed \subseteq signed',
           \A j \in Jobs : msg'[j].at = "deleted" => msg[j].at = "deleted"
    PROVE  AckedJobsStored'
  <1> SUFFICES ASSUME NEW j \in Jobs, msg'[j].at = "deleted"
               PROVE  \E c \in 1..MaxReceive :
                         RowsOf(j, NumFindings, c) \subseteq (committed' \cap signed')
    BY DEF AckedJobsStored, RowsOf
  <1>1. PICK c \in 1..MaxReceive :
           RowsOf(j, NumFindings, c) \subseteq (committed \cap signed)
    BY DEF AckedJobsStored
  <1> QED
    BY <1>1

LEMMA NextIInv == IInv /\ [Next]_vars => IInv'
  <1> SUFFICES ASSUME IInv, [Next]_vars PROVE IInv'
    OBVIOUS
  <1> USE DetectorWorkerAssumption
  <1>0. TypeOK /\ AckedJobsStored /\ BoundIsTransactionTenant /\ \A w \in Workers : Progress(w)
    BY DEF IInv
  <1>1. ASSUME NEW j \in Jobs, VisibilityTimeout(j) PROVE IInv'
    <2>1. TypeOK'
      BY <1>0, <1>1, SMT DEF TypeOK, VisibilityTimeout
    <2>2. AckedJobsStored'
      BY <1>0, <1>1, StoredKept DEF TypeOK, VisibilityTimeout
    <2>3. BoundIsTransactionTenant'
      BY <1>0, <1>1 DEF BoundIsTransactionTenant, VisibilityTimeout
    <2>4. \A w \in Workers : Progress(w)'
      BY <1>0, <1>1 DEF Progress, Current, VisibilityTimeout
    <2> QED
      BY <2>1, <2>2, <2>3, <2>4 DEF IInv
  <1>2. ASSUME NEW j \in Jobs, Redrive(j) PROVE IInv'
    <2>1. TypeOK'
      BY <1>0, <1>2, SMT DEF TypeOK, Redrive
    <2>2. AckedJobsStored'
      BY <1>0, <1>2, StoredKept DEF TypeOK, Redrive
    <2>3. BoundIsTransactionTenant'
      BY <1>0, <1>2 DEF BoundIsTransactionTenant, Redrive
    <2>4. \A w \in Workers : Progress(w)'
      BY <1>0, <1>2 DEF Progress, Current, Redrive
    <2> QED
      BY <2>1, <2>2, <2>3, <2>4 DEF IInv
  <1>3. ASSUME NEW w \in Workers, NEW j \in Jobs, Receive(w, j) PROVE IInv'
    <2>1. TypeOK'
      BY <1>0, <1>3, SMT DEF TypeOK, Receive, Goto
    <2>2. AckedJobsStored'
      BY <1>0, <1>3, StoredKept DEF TypeOK, Receive
    <2>3. BoundIsTransactionTenant'
      BY <1>0, <1>3 DEF BoundIsTransactionTenant, Receive
    <2>4. ASSUME NEW v \in Workers PROVE Progress(v)'
      <3>1. CASE v = w
        BY <1>0, <1>3, <3>1, SMT DEF TypeOK, Progress, Current, Running, Receive, Goto
      <3>2. CASE v # w
        BY <1>0, <1>3, <3>2 DEF TypeOK, Progress, Current, Running, Receive, Goto
      <3> QED
        BY <3>1, <3>2
    <2> QED
      BY <2>1, <2>2, <2>3, <2>4 DEF IInv
  <1>4. ASSUME NEW w \in Workers, Prepare(w) PROVE IInv'
    <2>1. TypeOK'
      BY <1>0, <1>4, SMTT(20) DEF TypeOK, Prepare, Goto
    <2>2. AckedJobsStored'
      BY <1>0, <1>4, StoredKept DEF Prepare
    <2>3. BoundIsTransactionTenant'
      BY <1>0, <1>4 DEF BoundIsTransactionTenant, Prepare
    <2>4. ASSUME NEW v \in Workers PROVE Progress(v)'
      <3>0. pc[w] = "parse" => idx[w] = 0
        BY <1>0 DEF Progress
      <3>1. CASE v = w
        <4>1. pc[w] = "parse" /\ idx[w] = 0 /\ receipt[w] \in 1..MaxReceive
          BY <1>0, <1>4, <3>0 DEF Progress, Prepare
        <4>2. /\ pc'[w] \in {"commit", "add", "fail"}
              /\ pc'[w] = "commit" => NumFindings = 0
              /\ pc'[w] = "add" => NumFindings # 0
          <5>1. CASE NumFindings = 0
            BY <1>0, <1>4, <5>1 DEF TypeOK, Prepare, Goto
          <5>2. CASE NumFindings # 0
            BY <1>0, <1>4, <5>2 DEF TypeOK, Prepare, Goto
          <5> QED
            BY <5>1, <5>2
        <4> QED
          BY <1>4, <3>1, <4>1, <4>2, SMT DEF Progress, Current, Running, Prepare
      <3>2. CASE v # w
        BY <1>0, <1>4, <3>2 DEF TypeOK, Progress, Current, Running, Prepare, Goto
      <3> QED
        BY <3>1, <3>2
    <2> QED
      BY <2>1, <2>2, <2>3, <2>4 DEF IInv
  <1>5. ASSUME NEW w \in Workers, AddRow(w) PROVE IInv'
    <2> DEFINE s == session[w]
               row == Current(w, idx[w] + 1)
    <2>0. /\ idx[w] + 1 \in 1..NumFindings
          /\ receipt[w] \in 1..MaxReceive
          /\ row \in Row
      BY <1>0, <1>5, SMT DEF TypeOK, Progress, AddRow, Current, Row
    <2>a. s \in [pending : SUBSET Row, bound : Orgs \cup {NoOrg},
                 guc : Orgs \cup {NoOrg}, tx : {"usable", "broken"}]
      BY <1>0 DEF TypeOK
    <2>b. \/ /\ session' = [session EXCEPT ![w] = AddTo(s, OrgOf[job[w]], row)]
             /\ pc' = [pc EXCEPT ![w] = "sign"]
          \/ /\ session' = session
             /\ pc' = [pc EXCEPT ![w] = "fail"]
          \/ /\ session' = [session EXCEPT ![w] = RolledBack(s)]
             /\ pc' = [pc EXCEPT ![w] = "fail"]
      BY <1>5 DEF AddRow, Goto, Current
    <2>1. TypeOK'
      <3>1. OrgOf[job[w]] \in Orgs
        BY <1>0 DEF TypeOK
      <3>2. session' \in [Workers -> [pending : SUBSET Row, bound : Orgs \cup {NoOrg},
                              guc : Orgs \cup {NoOrg}, tx : {"usable", "broken"}]]
        <4>1. AddTo(s, OrgOf[job[w]], row) \in
                 [pending : SUBSET Row, bound : Orgs \cup {NoOrg},
                  guc : Orgs \cup {NoOrg}, tx : {"usable", "broken"}]
          BY <2>0, <2>a, <3>1 DEF AddTo
        <4>2. RolledBack(s) \in
                 [pending : SUBSET Row, bound : Orgs \cup {NoOrg},
                  guc : Orgs \cup {NoOrg}, tx : {"usable", "broken"}]
          BY <2>a DEF RolledBack
        <4> QED
          BY <1>0, <2>b, <4>1, <4>2, SMT DEF TypeOK
      <3> QED
        BY <1>0, <1>5, <2>b, <3>2, SMTT(20) DEF TypeOK, AddRow
    <2>2. AckedJobsStored'
      BY <1>0, <1>5, StoredKept DEF AddRow
    <2>3. BoundIsTransactionTenant'
      <3> SUFFICES ASSUME NEW v \in Workers, session'[v].tx = "usable"
                   PROVE  session'[v].bound = session'[v].guc
        BY DEF BoundIsTransactionTenant
      <3>1. session[v].tx = "usable" => session[v].bound = session[v].guc
        BY <1>0 DEF BoundIsTransactionTenant
      <3>2. CASE v = w
        BY <1>0, <2>b, <3>1, <3>2, SMT DEF TypeOK, AddTo, RolledBack
      <3>3. CASE v # w
        BY <1>0, <2>b, <3>1, <3>3 DEF TypeOK
      <3> QED
        BY <3>2, <3>3
    <2>4. ASSUME NEW v \in Workers PROVE Progress(v)'
      <3>1. CASE v = w
        <4>1. CASE /\ session' = [session EXCEPT ![w] = AddTo(s, OrgOf[job[w]], row)]
                   /\ pc' = [pc EXCEPT ![w] = "sign"]
          <5>1. /\ session'[w].pending = s.pending \cup {row}
                /\ session'[w].tx = s.tx
                /\ pc'[w] = "sign"
            BY <1>0, <4>1 DEF TypeOK, AddTo
          <5> QED
            BY <1>0, <1>5, <2>0, <3>1, <5>1 DEF TypeOK, Progress, Current, Running, AddRow
        <4>2. CASE pc' = [pc EXCEPT ![w] = "fail"]
          BY <1>0, <1>5, <2>0, <3>1, <4>2 DEF TypeOK, Progress, Current, Running, AddRow
        <4> QED
          BY <2>b, <4>1, <4>2
      <3>2. CASE v # w
        BY <1>0, <1>5, <3>2, ZenonT(40) DEF TypeOK, Progress, Current, Running, AddRow, Goto
      <3> QED
        BY <3>1, <3>2
    <2> QED
      BY <2>1, <2>2, <2>3, <2>4 DEF IInv
  <1>6. ASSUME NEW w \in Workers, Sign(w) PROVE IInv'
    <2>0. /\ idx[w] + 1 \in 1..NumFindings
          /\ Current(w, idx[w] + 1) \in Row
      BY <1>0, <1>6, SMT DEF TypeOK, Progress, Sign, Current, Row
    <2>b. \/ /\ signed' = signed \cup {Current(w, idx[w] + 1)}
             /\ idx' = [idx EXCEPT ![w] = idx[w] + 1]
             /\ pc' = [pc EXCEPT ![w] = "commit"]
             /\ idx[w] + 1 = NumFindings
          \/ /\ signed' = signed \cup {Current(w, idx[w] + 1)}
             /\ idx' = [idx EXCEPT ![w] = idx[w] + 1]
             /\ pc' = [pc EXCEPT ![w] = "add"]
             /\ idx[w] + 1 # NumFindings
          \/ /\ signed' = signed
             /\ idx' = idx
             /\ pc' = [pc EXCEPT ![w] = "fail"]
      <3>1. CASE idx[w] + 1 = NumFindings
        BY <1>6, <3>1 DEF Sign, Goto, Current
      <3>2. CASE idx[w] + 1 # NumFindings
        BY <1>6, <3>2 DEF Sign, Goto, Current
      <3> QED
        BY <3>1, <3>2
    <2>1. TypeOK'
      <3>1. UNCHANGED <<msg, job, receipt, session, committed>>
        BY <1>6 DEF Sign
      <3>2. idx[w] + 1 \in 0..NumFindings
        BY <2>0, SMT
      <3>3. pc' \in [Workers -> {"idle", "parse", "add", "sign", "commit", "ack", "fail"}]
        BY <1>0, <2>b DEF TypeOK
      <3>4. idx' \in [Workers -> 0..NumFindings]
        BY <1>0, <2>b, <3>2, SMTT(20) DEF TypeOK
      <3>5. signed' \in SUBSET Row
        BY <1>0, <2>0, <2>b DEF TypeOK
      <3> QED
        BY <1>0, <3>1, <3>3, <3>4, <3>5 DEF TypeOK
    <2>2. AckedJobsStored'
      BY <1>0, <1>6, StoredKept DEF Sign
    <2>3. BoundIsTransactionTenant'
      BY <1>0, <1>6 DEF BoundIsTransactionTenant, Sign
    <2>4. ASSUME NEW v \in Workers PROVE Progress(v)'
      <3>1. CASE v = w
        <4>1. /\ pc[w] = "sign"
              /\ receipt[w] \in 1..MaxReceive
              /\ session[w].tx = "broken" \/ Current(w, idx[w] + 1) \in session[w].pending
              /\ \A k \in 1..idx[w] :
                    /\ Current(w, k) \in signed
                    /\ session[w].tx = "broken" \/ Current(w, k) \in session[w].pending
          BY <1>0, <1>6 DEF Progress, Running, Sign
        <4>2. UNCHANGED <<job, receipt, session, committed>>
          BY <1>6 DEF Sign
        <4>3. CASE pc' = [pc EXCEPT ![w] = "fail"]
          BY <1>0, <3>1, <4>1, <4>2, <4>3 DEF TypeOK, Progress, Running
        <4>4. CASE /\ signed' = signed \cup {Current(w, idx[w] + 1)}
                   /\ idx' = [idx EXCEPT ![w] = idx[w] + 1]
          <5>a. idx'[w] = idx[w] + 1 /\ idx[w] \in Nat
            BY <1>0, <4>4, SMT DEF TypeOK
          <5>1. /\ idx'[w] = idx[w] + 1 /\ idx[w] \in Nat
                /\ \A k \in 1..idx'[w] : k \in 1..idx[w] \/ k = idx[w] + 1
            BY <5>a, SMT
          <5>2. \A k \in 1..idx'[w] :
                    /\ Current(w, k)' \in signed'
                    /\ session'[w].tx = "broken" \/ Current(w, k)' \in session'[w].pending
            BY <4>1, <4>2, <4>4, <5>1 DEF Current
          <5>3. \/ pc'[w] = "commit" /\ idx'[w] = NumFindings
                \/ pc'[w] = "add" /\ idx'[w] < NumFindings
                \/ pc'[w] = "fail"
            BY <1>0, <2>0, <2>b, <5>1, SMTT(20) DEF TypeOK
          <5> QED
            BY <3>1, <4>1, <4>2, <5>2, <5>3 DEF Progress, Running
        <4> QED
          BY <2>b, <4>3, <4>4
      <3>2. CASE v # w
        BY <1>0, <1>6, <2>b, <3>2, ZenonT(40) DEF TypeOK, Progress, Current, Running, Sign
      <3> QED
        BY <3>1, <3>2
    <2> QED
      BY <2>1, <2>2, <2>3, <2>4 DEF IInv
  <1>7. ASSUME NEW w \in Workers, Commit(w) PROVE IInv'
    <2> DEFINE s == session[w]
    <2>a. s \in [pending : SUBSET Row, bound : Orgs \cup {NoOrg},
                 guc : Orgs \cup {NoOrg}, tx : {"usable", "broken"}]
      BY <1>0 DEF TypeOK
    <2>b. \/ /\ s.tx = "usable"
             /\ committed' = committed \cup s.pending
             /\ session' = [session EXCEPT ![w] = FreshSession]
             /\ pc' = [pc EXCEPT ![w] = "ack"]
          \/ /\ committed' \in {committed, committed \cup s.pending}
             /\ session' \in {session, [session EXCEPT ![w] = RolledBack(s)]}
             /\ pc' = [pc EXCEPT ![w] = "fail"]
      <3>1. CASE s.tx = "broken"
        BY <1>0, <1>7, <3>1 DEF TypeOK, Commit, Committed, Goto
      <3>2. CASE s.tx # "broken"
        BY <1>7, <3>2 DEF Commit, Committed, Goto
      <3> QED
        BY <3>1, <3>2
    <2>1. TypeOK'
      <3>1. FreshSession \in [pending : SUBSET Row, bound : Orgs \cup {NoOrg},
                              guc : Orgs \cup {NoOrg}, tx : {"usable", "broken"}]
        BY DEF FreshSession
      <3>2. RolledBack(s) \in [pending : SUBSET Row, bound : Orgs \cup {NoOrg},
                               guc : Orgs \cup {NoOrg}, tx : {"usable", "broken"}]
        BY <2>a DEF RolledBack
      <3>3. /\ session' \in [Workers -> [pending : SUBSET Row, bound : Orgs \cup {NoOrg},
                              guc : Orgs \cup {NoOrg}, tx : {"usable", "broken"}]]
            /\ committed' \in SUBSET Row
        BY <1>0, <2>a, <2>b, <3>1, <3>2, SMT DEF TypeOK
      <3>4. pc' \in [Workers -> {"idle", "parse", "add", "sign", "commit", "ack", "fail"}]
        BY <1>0, <2>b, SMTT(20) DEF TypeOK
      <3> QED
        BY <1>0, <1>7, <3>3, <3>4 DEF TypeOK, Commit
    <2>2. AckedJobsStored'
      BY <1>0, <1>7, StoredKept DEF Commit
    <2>3. BoundIsTransactionTenant'
      <3>1. /\ FreshSession.bound = FreshSession.guc
            /\ RolledBack(s).tx # "usable"
        BY DEF RolledBack, FreshSession
      <3> QED
        BY <1>0, <2>b, <3>1, SMTT(20) DEF TypeOK, BoundIsTransactionTenant
    <2>4. ASSUME NEW v \in Workers PROVE Progress(v)'
      <3>0. committed \subseteq committed' /\ UNCHANGED <<job, receipt, idx, signed>>
        BY <1>7 DEF Commit
      <3>1. CASE v = w
        <4>1. CASE /\ s.tx = "usable"
                   /\ committed' = committed \cup s.pending
                   /\ pc' = [pc EXCEPT ![w] = "ack"]
          <5>1. /\ pc[w] = "commit" /\ pc'[w] = "ack" /\ idx[w] = NumFindings
                /\ receipt[w] \in 1..MaxReceive
                /\ \A k \in 1..NumFindings :
                      Current(w, k) \in signed /\ Current(w, k) \in s.pending
            BY <1>0, <1>7, <4>1 DEF TypeOK, Progress, Running, Commit
          <5> QED
            BY <3>0, <3>1, <4>1, <5>1 DEF Progress, Current, Running
        <4>2. CASE pc' = [pc EXCEPT ![w] = "fail"]
          <5>1. pc[w] = "commit" /\ pc'[w] = "fail" /\ receipt[w] \in 1..MaxReceive
            BY <1>0, <1>7, <4>2 DEF TypeOK, Progress, Commit
          <5> QED
            BY <3>0, <3>1, <5>1 DEF Progress, Current, Running
        <4> QED
          BY <2>b, <4>1, <4>2
      <3>2. CASE v # w
        <4>1. pc'[v] = pc[v] /\ session'[v] = session[v]
          BY <1>0, <2>b, <3>2 DEF TypeOK
        <4> QED
          BY <1>0, <3>0, <4>1 DEF Progress, Current
      <3> QED
        BY <3>1, <3>2
    <2> QED
      BY <2>1, <2>2, <2>3, <2>4 DEF IInv
  <1>8. ASSUME NEW w \in Workers, Ack(w) PROVE IInv'
    <2>0. /\ receipt[w] \in 1..MaxReceive
          /\ RowsOf(job[w], NumFindings, receipt[w]) \subseteq (committed \cap signed)
      BY <1>0, <1>8 DEF Progress, Current, RowsOf, Ack
    <2>1. TypeOK'
      <3>1. msg' \in [Jobs -> [at : {"visible", "inflight", "deleted", "dlq"},
                               count : 0..MaxReceive]]
        BY <1>0, <1>8, SMT DEF TypeOK, Ack
      <3> QED
        BY <1>0, <1>8, <3>1, ExitTypes DEF TypeOK, Ack
    <2>2. AckedJobsStored'
      <3> SUFFICES ASSUME NEW j \in Jobs, msg'[j].at = "deleted"
                   PROVE  \E c \in 1..MaxReceive :
                             RowsOf(j, NumFindings, c) \subseteq (committed' \cap signed')
        BY DEF AckedJobsStored, RowsOf
      <3>1. committed' = committed /\ signed' = signed
        BY <1>8 DEF Ack
      <3>2. CASE j = job[w]
        BY <2>0, <3>1, <3>2
      <3>3. CASE j # job[w]
        <4>1. msg[j].at = "deleted"
          BY <1>0, <1>8, <3>3 DEF TypeOK, Ack
        <4> QED
          BY <1>0, <3>1, <4>1 DEF AckedJobsStored
      <3> QED
        BY <3>2, <3>3
    <2>3. BoundIsTransactionTenant'
      BY <1>0, <1>8 DEF BoundIsTransactionTenant, Ack
    <2>4. \A v \in Workers : Progress(v)'
      BY <1>0, <1>8, ExitProgress DEF Ack
    <2> QED
      BY <2>1, <2>2, <2>3, <2>4 DEF IInv
  <1>9. ASSUME NEW w \in Workers, Fail(w) PROVE IInv'
    <2>1. TypeOK'
      <3>1. msg' \in [Jobs -> [at : {"visible", "inflight", "deleted", "dlq"},
                               count : 0..MaxReceive]]
        BY <1>0, <1>9, SMT DEF TypeOK, Fail
      <3> QED
        BY <1>0, <1>9, <3>1, ExitTypes DEF TypeOK, Fail
    <2>2. AckedJobsStored'
      BY <1>0, <1>9, StoredKept, SMT DEF TypeOK, Fail
    <2>3. BoundIsTransactionTenant'
      BY <1>0, <1>9 DEF BoundIsTransactionTenant, Fail
    <2>4. \A v \in Workers : Progress(v)'
      BY <1>0, <1>9, ExitProgress DEF Fail
    <2> QED
      BY <2>1, <2>2, <2>3, <2>4 DEF IInv
  <1>10. ASSUME NEW w \in Workers, Crash(w) PROVE IInv'
    <2>1. TypeOK'
      BY <1>0, <1>10, ExitTypes DEF TypeOK, Crash, FreshSession
    <2>2. AckedJobsStored'
      BY <1>0, <1>10, StoredKept DEF Crash
    <2>3. BoundIsTransactionTenant'
      BY <1>0, <1>10 DEF TypeOK, BoundIsTransactionTenant, Crash, FreshSession
    <2>4. \A v \in Workers : Progress(v)'
      BY <1>0, <1>10, ExitProgress DEF TypeOK, Crash
    <2> QED
      BY <2>1, <2>2, <2>3, <2>4 DEF IInv
  <1>11. CASE UNCHANGED vars
    <2>1. TypeOK' /\ BoundIsTransactionTenant'
      BY <1>0, <1>11 DEF vars, TypeOK, BoundIsTransactionTenant
    <2>2. AckedJobsStored'
      BY <1>0, <1>11, StoredKept DEF vars
    <2>3. \A v \in Workers : Progress(v)'
      BY <1>0, <1>11 DEF vars, Progress, Current
    <2> QED
      BY <2>1, <2>2, <2>3 DEF IInv
  <1> QED
    BY <1>1, <1>2, <1>3, <1>4, <1>5, <1>6, <1>7, <1>8, <1>9, <1>10, <1>11 DEF Next, Step

\* Every behaviour of the worker satisfies the inductive invariant.
THEOREM InvariantHolds == Spec => []IInv
  BY InitIInv, NextIInv, PTL DEF Spec

\* handle_queue_message acks only what run_detector_job stored: for any number
\* of workers, jobs and redeliveries a deleted job has all its findings in the
\* table, signed.
THEOREM DeletedJobsAreStored == Spec => []AckedJobsStored
  <1>1. IInv => AckedJobsStored
    BY DEF IInv
  <1> QED
    BY <1>1, InvariantHolds, PTL

\* The cached tenant of _SqlAlchemyFindingsSession agrees with the open
\* transaction whenever the session is usable.
THEOREM TenantCacheCoherent == Spec => []BoundIsTransactionTenant
  <1>1. IInv => BoundIsTransactionTenant
    BY DEF IInv
  <1> QED
    BY <1>1, InvariantHolds, PTL

\* Type correctness of the worker model.
THEOREM TypesCorrect == Spec => []TypeOK
  <1>1. IInv => TypeOK
    BY DEF IInv
  <1> QED
    BY <1>1, InvariantHolds, PTL

-----------------------------------------------------------------------------
(* The specifications a detector runs with (SpecLanguage).                 *)

(* One clause distributes over union. *)
LEMMA ClauseIsDistributive ==
  ASSUME NEW c, c.head \in PrimitiveHeads, NEW X, NEW Y
  PROVE  Transfer(c, X \cup Y) = Transfer(c, X) \cup Transfer(c, Y)
  <1>1. CASE c.head = "source"
    BY <1>1 DEF Transfer
  <1>2. CASE c.head = "sink"
    BY <1>2 DEF Transfer
  <1>3. CASE c.head = "sanitize"
    BY <1>3 DEF Transfer
  <1>4. CASE c.head = "propagate"
    BY <1>4 DEF Transfer
  <1> QED
    BY <1>1, <1>2, <1>3, <1>4 DEF PrimitiveHeads

(* The boot guard of proofs.py checks distributivity for eight facts and   *)
(* eight fixed clauses; it holds of any set of clauses the grammar admits, *)
(* at any positions, over any sets of facts.                               *)
THEOREM UnionIsDistributive ==
  ASSUME NEW clauses, \A c \in clauses : c.head \in PrimitiveHeads,
         NEW domain
  PROVE  IsDistributive(clauses, domain)
  <1> SUFFICES ASSUME NEW X \in SUBSET domain, NEW Y \in SUBSET domain
               PROVE  UnionFlow(clauses, X \cup Y) = UnionFlow(clauses, X) \cup UnionFlow(clauses, Y)
    BY DEF IsDistributive
  <1>1. \A c \in clauses : Transfer(c, X \cup Y) = Transfer(c, X) \cup Transfer(c, Y)
    BY ClauseIsDistributive, SMT
  <1>2. ASSUME NEW f
        PROVE  f \in UnionFlow(clauses, X \cup Y) <=> f \in UnionFlow(clauses, X) \cup UnionFlow(clauses, Y)
    <2>1. ASSUME NEW Z
          PROVE  f \in UnionFlow(clauses, Z) <=> \E c \in clauses : f \in Transfer(c, Z)
      BY DEF UnionFlow
    <2> QED
      BY <1>1, <2>1
  <1> QED
    BY <1>2
=============================================================================
