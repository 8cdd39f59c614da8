--------------------------- MODULE DecisionProofs ---------------------------
(***************************************************************************)
(* Proofs about what is decided once and relied on later: the decisions an *)
(* entity inherits, and the scan a request is answered with.               *)
(*                                                                         *)
(* Continuity, for any policies, activations and events.  Four facts carry *)
(* the argument, each kept by every action:                                *)
(*   - Epochs: a generation counts lifecycle changes, so an event of the   *)
(*     current generation was made for the current epoch;                  *)
(*   - Supersession: what was replaced has an older decision revision than *)
(*     any event still to come, and a snapshot in which it is in force has *)
(*     an older decision revision than the entity;                         *)
(*   - Activity: a withdrawn activation stays in the registry's history,   *)
(*     so it is never again the activation of an active policy;            *)
(*   - LinkFacts: the same seen from the link, for as long as the revisions *)
(*     it is guarded by are the current ones.                              *)
(*                                                                         *)
(* ScanSubmission, for any keys, bodies and detectors.  The index of the   *)
(* Idempotency-Keys is the inverse of the rows, and the loop that fans a   *)
(* scan out has sent the jobs of the entries before the one at work.       *)
(***************************************************************************)
EXTENDS Continuity, ScanSubmission, TLAPS

\* Zenon proves what has no arithmetic; a step that needs SMT cites it.
USE Zenon

Epochs ==
    /\ epoch = entity.gen
    /\ read.epoch = read.entity.gen
    /\ \A e \in Events : written[e] # None => madeFor[e] = written[e].gen
    /\ \A d \in Parts : read.entity.held[d] # None => written[read.entity.held[d]] # None

Supersession ==
    /\ \A d \in Parts : entity.held[d] # None => /\ dimensionOf[entity.held[d]] = d
                                                 /\ written[entity.held[d]].rev <= entity.decRev
    /\ \A e \in replaced : written[e] # None /\ written[e].rev <= entity.decRev
    /\ SupersededStaysOut
    /\ read.entity.decRev <= entity.decRev
    /\ \A d \in Parts : read.entity.held[d] \in replaced => read.entity.decRev < entity.decRev

Activity ==
    /\ WellFormed(registry)
    /\ withdrawn \subseteq registry.used
    /\ \A p \in Active(registry) : registry.act[p] \notin withdrawn
    /\ \A p \in Active(read.registry) : read.registry.act[p] \notin read.withdrawn

LinkFacts ==
    link # None =>
       /\ link.epoch = link.guards.gen
       /\ link.replaced \subseteq replaced
       /\ link.guards.entRev <= entity.rev
       /\ link.guards.entRev = entity.rev => link.replaced = replaced
       /\ link.guards.regRev <= registry.rev
       /\ link.guards.regRev = registry.rev => link.guards.policy \in Active(registry)
       /\ \A d \in Parts : read.entity.held[d] \in link.replaced
                              => read.entity.decRev < link.guards.decRev

IInv == TypeOK /\ Epochs /\ Supersession /\ Activity /\ LinkFacts

\* A transaction on the entity, with the ranges Next gives its parameters.
EntityStep(life, gen, evts, decRev, held) ==
    /\ life \in Lifecycles /\ gen \in {entity.gen, entity.gen + 1}
    /\ evts \in SUBSET {e \in Events : written[e] # None}
    /\ decRev \in {entity.decRev, entity.decRev + 1} /\ held \in Holdings
    /\ ChangeEntity(life, gen, evts, decRev, held)

-----------------------------------------------------------------------------

\* The initial snapshots satisfy the invariant.
LEMMA Initially == Init => IInv
  <1> SUFFICES ASSUME Init PROVE IInv
    OBVIOUS
  <1> USE ContinuityAssumption
  <1>1. TypeOK
    BY DEF Init, TypeOK, Registry, Entity, Link
  <1>2. Epochs
    BY DEF Init, Epochs, Parts, Dimensions
  <1>3. Supersession
    BY SMT DEF Init, Supersession, SupersededStaysOut, Parts, Dimensions
  <1>4. Activity
    BY DEF Init, Activity, WellFormed, Active, Entries
  <1>5. LinkFacts
    BY DEF Init, LinkFacts
  <1> QED
    BY <1>1, <1>2, <1>3, <1>4, <1>5 DEF IInv

\* What a transaction on the entity makes of its decisions.
LEMMA EntityChange ==
  ASSUME IInv,
         NEW life, NEW gen, NEW evts, NEW decRev, NEW held,
         EntityStep(life, gen, evts, decRev, held)
  PROVE  /\ entity' \in Entity
         /\ entity'.rev = entity.rev + 1 /\ entity'.decRev = decRev /\ entity'.held = held
         /\ entity'.gen = gen /\ epoch' = epoch + (gen - entity.gen)
         /\ gen \in Nat /\ gen >= entity.gen
         /\ decRev \in Nat /\ decRev >= entity.decRev
         /\ \A d \in Parts : held[d] # entity.held[d] =>
               /\ held[d] \in Events /\ dimensionOf[held[d]] = d
               /\ written[held[d]] # None
               /\ decRev = entity.decRev + 1 /\ written[held[d]].rev = decRev
  <1> USE ContinuityAssumption DEF EntityStep, ChangeEntity
  <1>1. entity \in Entity /\ epoch \in Nat
    BY DEF IInv, TypeOK
  <1>2. held \in [Parts -> Events \cup {None}]
    BY DEF Holdings
  <1>3. gen \in Nat /\ decRev \in Nat /\ gen >= entity.gen /\ decRev >= entity.decRev
    BY <1>1, SMT DEF Entity
  <1>4. entity' \in Entity
    BY <1>1, <1>2, <1>3, SMT DEF Entity
  <1>5. gen = entity.gen + Bump(life # entity.life)
    BY DEF ValidLifecycle
  <1>6. epoch' = epoch + (gen - entity.gen)
    BY <1>1, <1>5, SMT DEF Entity, Bump
  <1>7. ASSUME NEW d \in Parts, held[d] # entity.held[d]
        PROVE  /\ held[d] \in Events /\ dimensionOf[held[d]] = d
               /\ written[held[d]] # None
               /\ decRev = entity.decRev + 1 /\ written[held[d]].rev = decRev
    <2>1. PICK e \in evts : dimensionOf[e] = d
      BY <1>7 DEF ValidDecisions
    <2>2. held[d] \in evts /\ written[held[d]].rev = decRev
      BY <2>1 DEF ValidDecisions
    <2>3. dimensionOf[held[d]] = d
      BY <2>2 DEF Holdings
    <2>4. decRev = entity.decRev + 1
      BY <2>1 DEF ValidDecisions, Bump
    <2> QED
      BY <2>2, <2>3, <2>4
  <1>8. entity'.rev = entity.rev + 1 /\ entity'.decRev = decRev /\ entity'.held = held
        /\ entity'.gen = gen
    OBVIOUS
  <1> QED
    BY <1>3, <1>4, <1>6, <1>7, <1>8

-----------------------------------------------------------------------------
(* Each conjunct of the invariant is kept by every action.                 *)

\* Every step keeps the types.
LEMMA TypesKept == IInv /\ [Next]_vars => TypeOK'
  <1> SUFFICES ASSUME IInv, [Next]_vars PROVE TypeOK'
    OBVIOUS
  <1> USE ContinuityAssumption DEF IInv
  <1>1. ASSUME NEW new \in Registries, ChangeRegistry(new)
        PROVE  TypeOK'
    <2>1. \A q \in Active(registry) : registry.act[q] \in Activations
      BY DEF Activity, WellFormed, Active, Entries, TypeOK, Registry
    <2>2. withdrawn' \subseteq Activations
      BY <1>1, <2>1, SMT DEF ChangeRegistry, TypeOK
    <2>3. registry' \in Registry
      BY <1>1, SMT DEF ChangeRegistry, TypeOK, Registries, Registry
    <2> QED
      BY <1>1, <2>2, <2>3 DEF ChangeRegistry, TypeOK
  <1>2. ASSUME NEW e \in Events, NEW ahead \in {0, 1}, Write(e, ahead)
        PROVE  TypeOK'
    BY <1>2, SMT DEF Write, TypeOK, Entity
  <1>3. ASSUME NEW life, NEW gen, NEW evts, NEW decRev, NEW held,
               EntityStep(life, gen, evts, decRev, held)
        PROVE  TypeOK'
    <2>1. replaced' \subseteq Events
      BY <1>3, SMT DEF EntityStep, ChangeEntity, TypeOK, Entity
    <2>2. epoch' \in Nat
      BY <1>3, EntityChange, SMT DEF TypeOK, Entity
    <2>3. \A d \in Parts : entity'.held[d] # None => written[entity'.held[d]] # None
      BY <1>3, EntityChange, SMT DEF TypeOK
    <2>4. entity' \in Entity
      BY <1>3, EntityChange
    <2> QED
      BY <1>3, <2>1, <2>2, <2>3, <2>4 DEF EntityStep, ChangeEntity, TypeOK
  <1>4. ASSUME NEW p \in Policies, Plan(p)
        PROVE  TypeOK'
    <2>1. registry.act[p] \in Activations
      BY <1>4 DEF Plan, Activity, WellFormed, Active, Entries, TypeOK, Registry
    <2>2. link' \in Link
      BY <1>4, <2>1, SMT DEF Plan, Guards, TypeOK, Link, Registry, Entity
    <2> QED
      BY <1>4, <2>2 DEF Plan, ghosts, TypeOK
  <1>5. CASE Commit
    BY <1>5 DEF Commit, ghosts, TypeOK, Link
  <1>6. CASE LoadRegistry
    BY <1>6 DEF LoadRegistry, ghosts, TypeOK
  <1>7. CASE LoadEntity
    BY <1>7 DEF LoadEntity, ghosts, TypeOK
  <1>8. CASE UNCHANGED vars
    BY <1>8 DEF vars, TypeOK
  <1> QED
    BY <1>1, <1>2, <1>3, <1>4, <1>5, <1>6, <1>7, <1>8 DEF Next, EntityStep

\* Every step keeps the generations in step with the epochs.
LEMMA EpochsKept == IInv /\ [Next]_vars => Epochs'
  <1> SUFFICES ASSUME IInv, [Next]_vars PROVE Epochs'
    OBVIOUS
  <1> USE DEF IInv, TypeOK
  <1>1. ASSUME NEW new \in Registries, ChangeRegistry(new)
        PROVE  Epochs'
    BY <1>1 DEF ChangeRegistry, Epochs
  <1>2. ASSUME NEW e \in Events, NEW ahead \in {0, 1}, Write(e, ahead)
        PROVE  Epochs'
    BY <1>2, SMT DEF Write, Epochs, Entity
  <1>3. ASSUME NEW life, NEW gen, NEW evts, NEW decRev, NEW held,
               EntityStep(life, gen, evts, decRev, held)
        PROVE  Epochs'
    <2>1. epoch' = entity'.gen
      BY <1>3, EntityChange, SMT DEF Epochs, Entity
    <2> QED
      BY <1>3, <2>1 DEF EntityStep, ChangeEntity, Epochs
  <1>4. ASSUME NEW p \in Policies, Plan(p)
        PROVE  Epochs'
    BY <1>4 DEF Plan, ghosts, Epochs
  <1>5. CASE Commit
    BY <1>5 DEF Commit, ghosts, Epochs
  <1>6. CASE LoadRegistry
    BY <1>6 DEF LoadRegistry, ghosts, Epochs
  <1>7. CASE LoadEntity
    BY <1>7 DEF LoadEntity, ghosts, Epochs
  <1>8. CASE UNCHANGED vars
    BY <1>8 DEF vars, Epochs
  <1> QED
    BY <1>1, <1>2, <1>3, <1>4, <1>5, <1>6, <1>7, <1>8 DEF Next, EntityStep

\* Every step keeps superseded events out, here and in older snapshots.
LEMMA SupersessionKept == IInv /\ [Next]_vars => Supersession'
  <1> SUFFICES ASSUME IInv, [Next]_vars PROVE Supersession'
    OBVIOUS
  <1> USE ContinuityAssumption DEF IInv, TypeOK
  <1>1. ASSUME NEW new \in Registries, ChangeRegistry(new)
        PROVE  Supersession'
    BY <1>1 DEF ChangeRegistry, Supersession, SupersededStaysOut
  <1>2. ASSUME NEW e \in Events, NEW ahead \in {0, 1}, Write(e, ahead)
        PROVE  Supersession'
    BY <1>2, SMT DEF Write, Supersession, SupersededStaysOut, Entity
  <1>3. ASSUME NEW life, NEW gen, NEW evts, NEW decRev, NEW held,
               EntityStep(life, gen, evts, decRev, held)
        PROVE  Supersession'
    <2> DEFINE Gone == {entity.held[d] : d \in {d \in Parts : entity.held[d] \notin {None, held[d]}}}
    <2>1. replaced' = replaced \cup Gone /\ UNCHANGED <<written, read>>
      BY <1>3 DEF EntityStep, ChangeEntity
    <2>0. /\ entity'.decRev = decRev /\ entity'.held = held /\ decRev \in Nat /\ decRev >= entity.decRev
          /\ \A d \in Parts : held[d] # entity.held[d] =>
                decRev = entity.decRev + 1 /\ written[held[d]].rev = decRev
      BY <1>3, EntityChange, SMT
    <2>2. \A d \in Parts : entity'.held[d] # None =>
              dimensionOf[entity'.held[d]] = d /\ written[entity'.held[d]].rev <= entity'.decRev
      BY <1>3, EntityChange, SMT DEF Supersession, Entity
    <2>3. ASSUME NEW e \in Gone
          PROVE  /\ written[e] # None /\ written[e].rev <= entity.decRev
                 /\ entity'.decRev = entity.decRev + 1
      BY <1>3, EntityChange, SMT DEF Supersession
    <2>4. \A e \in replaced' : written[e] # None /\ written[e].rev <= entity'.decRev
      BY <1>3, <2>1, <2>3, EntityChange, SMT DEF Supersession, Entity
    <2>5. ASSUME NEW d \in Parts PROVE entity'.held[d] \notin replaced'
      <3>1. CASE held[d] = entity.held[d]
        <4>1. entity'.held[d] \notin replaced
          BY <1>3, <3>1, EntityChange, SMT DEF Supersession, SupersededStaysOut
        <4>2. entity'.held[d] \notin Gone
          BY <1>3, <3>1, EntityChange, SMT DEF Supersession
        <4> QED
          BY <2>1, <4>1, <4>2
      <3>2. CASE held[d] # entity.held[d]
        <4>1. entity'.held[d] = held[d] /\ written[held[d]].rev = entity.decRev + 1
          BY ONLY <2>0, <3>2, d \in Parts, Zenon
        <4>2. \A e \in replaced' : written[e].rev <= entity.decRev
          BY <2>1, <2>3 DEF Supersession
        <4> QED
          BY <4>1, <4>2, SMT DEF Entity
      <3> QED
        BY <3>1, <3>2
    <2>8. read.entity.decRev <= entity.decRev /\ read.entity.decRev \in Nat /\ entity.decRev \in Nat
      BY DEF Supersession, Entity
    <2>6. read'.entity.decRev <= entity'.decRev
      BY ONLY <2>0, <2>1, <2>8
    <2>7. ASSUME NEW d \in Parts, read'.entity.held[d] \in replaced'
          PROVE  read'.entity.decRev < entity'.decRev
      <3>1. CASE read.entity.held[d] \in replaced
        <4>1. read.entity.decRev < entity.decRev
          BY <3>1 DEF Supersession
        <4> QED
          BY ONLY <2>0, <2>1, <2>8, <4>1
      <3>2. CASE read.entity.held[d] \in Gone
        <4>1. entity'.decRev = entity.decRev + 1
          BY <2>3, <3>2
        <4> QED
          BY ONLY <2>1, <2>8, <4>1
      <3> QED
        BY ONLY <2>1, <2>7, <3>1, <3>2, Zenon
    <2> QED
      BY <2>1, <2>2, <2>4, <2>5, <2>6, <2>7 DEF Supersession, SupersededStaysOut
  <1>4. ASSUME NEW p \in Policies, Plan(p)
        PROVE  Supersession'
    BY <1>4 DEF Plan, ghosts, Supersession, SupersededStaysOut
  <1>5. CASE Commit
    BY <1>5 DEF Commit, ghosts, Supersession, SupersededStaysOut
  <1>6. CASE LoadRegistry
    BY <1>6 DEF LoadRegistry, ghosts, Supersession, SupersededStaysOut
  <1>7. CASE LoadEntity
    BY <1>7, SMT DEF LoadEntity, ghosts, Supersession, SupersededStaysOut, Entity
  <1>8. CASE UNCHANGED vars
    BY <1>8 DEF vars, Supersession, SupersededStaysOut
  <1> QED
    BY <1>1, <1>2, <1>3, <1>4, <1>5, <1>6, <1>7, <1>8, SMT DEF Next, EntityStep

\* Every step keeps withdrawn activations from being active.
LEMMA ActivityKept == IInv /\ [Next]_vars => Activity'
  <1> SUFFICES ASSUME IInv, [Next]_vars PROVE Activity'
    OBVIOUS
  <1> USE ContinuityAssumption DEF IInv, TypeOK
  <1>1. ASSUME NEW new \in Registries, ChangeRegistry(new)
        PROVE  Activity'
    <2>1. WellFormed(new) /\ ValidRegistry(registry, new) /\ registry' = new /\ read' = read
      BY <1>1 DEF ChangeRegistry
    <2>2. \A q \in Active(registry) : registry.act[q] \in registry.used
      BY DEF Activity, WellFormed, Active, Entries
    <2>3. withdrawn' \subseteq registry.used
      BY <1>1, <2>2, SMT DEF ChangeRegistry, Activity
    <2>4. withdrawn' \subseteq registry'.used
      BY <2>1, <2>3 DEF ValidRegistry
    <2>5. ASSUME NEW p \in Active(new) PROVE new.act[p] \notin withdrawn'
      <3>1. CASE p \in Introduced(registry, new)
        <4>1. p \in Entries(new)
          BY DEF Active, Entries
        <4>2. new.act[p] \notin registry.used
          BY <2>1, <3>1, <4>1 DEF ValidRegistry
        <4> QED
          BY <2>3, <4>2
      <3>2. CASE p \notin Introduced(registry, new)
        <4>1. p \in Entries(new) /\ p \in Active(registry)
          BY <3>2 DEF Introduced, Active, Entries
        <4>2. new.act[p] = registry.act[p]
          BY <2>1, <3>2, <4>1 DEF ValidRegistry
        <4>3. \A q \in Active(registry) \ Active(new) : registry.act[q] # registry.act[p]
          BY <4>1 DEF Activity, WellFormed, Active, Entries
        <4> QED
          BY <1>1, <4>1, <4>2, <4>3, SMT DEF ChangeRegistry, Activity
      <3> QED
        BY <3>1, <3>2
    <2> QED
      BY <2>1, <2>4, <2>5 DEF Activity
  <1>2. ASSUME NEW e \in Events, NEW ahead \in {0, 1}, Write(e, ahead)
        PROVE  Activity'
    BY <1>2 DEF Write, Activity
  <1>3. ASSUME NEW life, NEW gen, NEW evts, NEW decRev, NEW held,
               EntityStep(life, gen, evts, decRev, held)
        PROVE  Activity'
    BY <1>3 DEF EntityStep, ChangeEntity, Activity
  <1>4. ASSUME NEW p \in Policies, Plan(p)
        PROVE  Activity'
    BY <1>4 DEF Plan, ghosts, Activity
  <1>5. CASE Commit
    BY <1>5 DEF Commit, ghosts, Activity
  <1>6. CASE LoadRegistry
    BY <1>6 DEF LoadRegistry, ghosts, Activity
  <1>7. CASE LoadEntity
    BY <1>7 DEF LoadEntity, ghosts, Activity
  <1>8. CASE UNCHANGED vars
    BY <1>8 DEF vars, Activity
  <1> QED
    BY ONLY [Next]_vars, <1>1, <1>2, <1>3, <1>4, <1>5, <1>6, <1>7, <1>8, Zenon DEF Next, EntityStep

\* Every step keeps what the link's guards stand for.
LEMMA LinkFactsKept == IInv /\ [Next]_vars => LinkFacts'
  <1> SUFFICES ASSUME IInv, [Next]_vars PROVE LinkFacts'
    OBVIOUS
  <1> USE ContinuityAssumption DEF IInv, TypeOK
  <1>1. ASSUME NEW new \in Registries, ChangeRegistry(new)
        PROVE  LinkFacts'
    BY <1>1, SMT DEF ChangeRegistry, Registries, Registry, LinkFacts, Link
  <1>2. ASSUME NEW e \in Events, NEW ahead \in {0, 1}, Write(e, ahead)
        PROVE  LinkFacts'
    BY <1>2 DEF Write, LinkFacts
  <1>3. ASSUME NEW life, NEW gen, NEW evts, NEW decRev, NEW held,
               EntityStep(life, gen, evts, decRev, held)
        PROVE  LinkFacts'
    <2>1. UNCHANGED <<link, read, registry>> /\ replaced \subseteq replaced'
      BY <1>3 DEF EntityStep, ChangeEntity
    <2>2. entity'.rev = entity.rev + 1
      BY <1>3, EntityChange
    <2> QED
      BY <2>1, <2>2, SMT DEF LinkFacts, Entity, Link
  <1>4. ASSUME NEW p \in Policies, Plan(p)
        PROVE  LinkFacts'
    <2>1. /\ link'.guards = Guards(p) /\ link'.epoch = epoch /\ link'.replaced = replaced
          /\ UNCHANGED <<registry, entity, read, replaced>> /\ p \in Active(registry)
      BY <1>4 DEF Plan, ghosts
    <2> QED
      BY <2>1, SMT DEF Guards, LinkFacts, Epochs, Supersession, Entity, Registry
  <1>5. CASE Commit
    BY <1>5 DEF Commit, ghosts, LinkFacts, Link
  <1>6. CASE LoadRegistry
    BY <1>6 DEF LoadRegistry, ghosts, LinkFacts
  <1>7. CASE LoadEntity
    BY <1>7 DEF LoadEntity, ghosts, LinkFacts, Supersession, SupersededStaysOut
  <1>8. CASE UNCHANGED vars
    BY <1>8 DEF vars, LinkFacts
  <1> QED
    BY <1>1, <1>2, <1>3, <1>4, <1>5, <1>6, <1>7, <1>8, SMT DEF Next, EntityStep

\* The invariant holds in every reachable state.
LEMMA Invariant == Spec => []IInv
  <1>1. IInv /\ [Next]_vars => IInv'
    BY TypesKept, EpochsKept, SupersessionKept, ActivityKept, LinkFactsKept DEF IInv
  <1> QED
    BY Initially, <1>1, PTL DEF Spec

-----------------------------------------------------------------------------

\* The snapshots, events and links keep their types: a link always names an
\* activation, an event in force was always written.
THEOREM TypesCorrect == Spec => []TypeOK
  <1>1. IInv => TypeOK
    BY DEF IInv
  <1> QED
    BY Invariant, <1>1, PTL

\* A decision read from the entity through the link is of the epoch the reader's
\* entity is in, was not superseded when the link was planned, and the link's
\* activation was not revoked: for readers of effective_decisions with snapshots
\* of any age, and any history of the registry and the entity.
THEOREM InheritedDecisionsAreCurrent == Spec => []InheritedIsCurrent
  <1>1. IInv => InheritedIsCurrent
    <2> SUFFICES ASSUME IInv, NEW d \in FromEntity(read.registry, read.entity)
                 PROVE  LET e == read.entity.held[d] IN
                        /\ madeFor[e] = read.epoch /\ link.epoch = read.epoch
                        /\ e \notin link.replaced
                        /\ link.guards.act \notin read.withdrawn
      BY DEF InheritedIsCurrent
    <2> USE DEF FromEntity, Inherits, Authorized
    <2>1. read.entity \in Entity /\ link \in Link /\ d \in Parts
      BY DEF IInv, TypeOK, Parts
    <2>2. read.entity.held[d] \in Events
      BY <2>1 DEF Entity
    <2>3. madeFor[read.entity.held[d]] = read.epoch
      BY <2>1, <2>2 DEF IInv, Epochs
    <2>4. link.epoch = read.epoch
      BY DEF IInv, Epochs, LinkFacts
    <2>5. read.entity.held[d] \notin link.replaced
      BY <2>1, SMT DEF IInv, LinkFacts, Entity, Link
    <2>6. link.guards.act \notin read.withdrawn
      BY DEF IInv, Activity
    <2> QED
      BY <2>3, <2>4, <2>5, <2>6
  <1> QED
    BY Invariant, <1>1, PTL

\* A superseded human event is never in force again, however often and however late
\* it is handed to validate_entity_transition.
THEOREM SupersededEventsStayOut == Spec => []SupersededStaysOut
  <1>1. IInv => SupersededStaysOut
    BY DEF IInv, Supersession
  <1> QED
    BY Invariant, <1>1, PTL

\* The two together: neither an inherited decision nor one in force is one that
\* was overtaken, for any history of the registry, the entity and the readers.
THEOREM DecisionsStayCurrent == Spec => []DecisionsAreCurrent
  BY InheritedDecisionsAreCurrent, SupersededEventsStayOut, PTL DEF DecisionsAreCurrent

\* A link is committed only while what it was planned on is what is in force.
THEOREM LinksAreOfNow == Spec => LinkIsOfNow
  <1> DEFINE OfNow == link' # None /\ link'.stage = "committed" /\ link' # link
                        => /\ link'.epoch = epoch /\ link'.replaced = replaced
                           /\ link'.guards.act \notin withdrawn
  <1>1. IInv /\ [Next]_vars => [OfNow]_vars
    <2> SUFFICES ASSUME IInv, [Next]_vars PROVE OfNow
      OBVIOUS
    <2>1. CASE Commit
      <3> SUFFICES ASSUME link' # None, link'.stage = "committed", link' # link
                   PROVE  /\ link'.epoch = epoch /\ link'.replaced = replaced
                          /\ link'.guards.act \notin withdrawn
        OBVIOUS
      <3>1. link \in Link /\ link # None
        BY <2>1 DEF Commit, IInv, TypeOK
      <3>2. /\ Guards(link.guards.policy) = link.guards
            /\ link' = [link EXCEPT !.stage = "committed"]
        BY <2>1 DEF Commit
      <3>3. link'.epoch = link.epoch /\ link'.replaced = link.replaced /\ link'.guards = link.guards
        BY <3>1, <3>2 DEF Link
      <3>4. /\ link.guards.gen = entity.gen /\ link.guards.entRev = entity.rev
            /\ link.guards.regRev = registry.rev
            /\ link.guards.act = registry.act[link.guards.policy]
        BY <3>2, SMT DEF Guards
      <3>5. link.guards.policy \in Active(registry)
        BY <3>1, <3>4 DEF IInv, LinkFacts
      <3> QED
        BY <3>1, <3>3, <3>4, <3>5 DEF IInv, LinkFacts, Epochs, Activity
    <2>2. CASE UNCHANGED link
      BY <2>2
    <2>3. ASSUME NEW p \in Policies, Plan(p) PROVE OfNow
      BY <2>3 DEF Plan
    <2> QED
      BY <2>1, <2>2, <2>3
      DEF Next, ChangeRegistry, Write, ChangeEntity, LoadRegistry, LoadEntity, vars
  <1> QED
    BY Invariant, <1>1, PTL DEF Spec, LinkIsOfNow

-----------------------------------------------------------------------------
(* ScanSubmission.                                                         *)

\* What the handler holds at each stage of post_scans.
Row == [key : Keys, body : Bodies, sver : Nat, snap : Nat, env : Envs]
Serving ==
    {Idle} \cup [stage : {"snapshot"}, key : Keys, body : Bodies, sver : Nat]
           \cup [stage : {"persist"}, key : Keys, body : Bodies, sver : Nat, snap : Nat, env : Envs]
           \cup [stage : {"issue", "send"}, scan : Nat, n : Nat, row : Row]

Looping == handler.stage \in {"issue", "send"}

\* The stores have their types, and ids are minted in order.
Stored ==
    /\ SubmissionTypes /\ scanIds \in Nat /\ snapIds \in Nat
    /\ handler \in Serving /\ (Looping => handler.n >= 1)
    /\ \A i \in DOMAIN rows : rows[i] \in Row

\* _idempotency is the inverse of the rows' keys, and the key being served is new.
Indexed ==
    /\ \A k \in DOMAIN index : rows[index[k]].key = k
    /\ \A i \in DOMAIN rows : rows[i].key \in DOMAIN index /\ index[rows[i].key] = i
    /\ handler.stage \in {"snapshot", "persist"} => handler.key \notin DOMAIN index

\* A response names the scan of its key and answers that scan's request.
Answered ==
    \A r \in replies :
        /\ r.key \in DOMAIN index /\ r.scan = index[r.key]
        /\ Fingerprint(r.body) = Fingerprint(rows[r.scan].body)

\* The snapshot of a request is one that was asked for, under the digest of this
\* process.
HasSnapshot(snap, e, body) == \E s \in snapJobs : s.id = snap /\ s.env = e /\ s.commit = commitOf[body]
Bound ==
    /\ handler.stage = "persist" => HasSnapshot(handler.snap, handler.env, handler.body) /\ handler.env = env
    /\ Looping => HasSnapshot(handler.row.snap, handler.row.env, handler.row.body) /\ handler.row.env = env
    /\ \A j \in jobs : HasSnapshot(j.snap, j.env, j.body)

\* Where the loop of step 7 stands: the jobs of its scan are those of the entries
\* before the one at work, bound as the row says.
Fanned ==
    /\ \A j \in jobs : j.scan \in 1..scanIds /\ <<j.scan, j.n>> \in keys
    /\ \A i, j \in jobs : i.scan = j.scan /\ i.n = j.n => i = j
    /\ \A i, j \in jobs : i.scan = j.scan => i.sver = j.sver /\ i.snap = j.snap /\ i.env = j.env
    /\ Looping =>
        /\ handler.scan \in DOMAIN rows /\ rows[handler.scan] = handler.row
        /\ \A n \in 1..(handler.n - 1) : \E j \in jobs : j.scan = handler.scan /\ j.n = n
        /\ \A j \in jobs : j.scan = handler.scan =>
              j.n < handler.n /\ j.sver = handler.row.sver /\ j.snap = handler.row.snap /\ j.env = handler.row.env
    /\ handler.stage = "send" => <<handler.scan, handler.n>> \in keys
    /\ \A r \in replies : r.kind = "created" =>
          \A n \in DOMAIN detectorsOf[r.body] : \E j \in jobs : j.scan = r.scan /\ j.n = n

\* The inductive invariant of submission.
SubmissionInv == Stored /\ Indexed /\ Answered /\ Bound /\ Fanned

\* A controller without scans satisfies the invariant.
LEMMA SubmissionInit == submissionInit => SubmissionInv
<1> SUFFICES ASSUME submissionInit PROVE SubmissionInv
  OBVIOUS
<1>1. /\ env \in Envs /\ spec = 0 /\ rows = <<>> /\ index = <<>> /\ handler = Idle /\ keys = {} /\ jobs = {}
      /\ snapJobs = {} /\ snapshots = {} /\ scanIds = 0 /\ snapIds = 0 /\ replies = {}
  BY DEF submissionInit
<1>2. handler.stage = "idle" /\ DOMAIN rows = {} /\ DOMAIN index = {}
  BY ONLY <1>1, SMT DEF Idle
<1>3. handler.stage \notin {"snapshot", "persist", "issue", "send"}
  BY ONLY <1>2, SMT
<1>4. Stored
  BY ONLY <1>1, <1>2, <1>3, ScanSubmissionAssumption, SMT DEF Stored, SubmissionTypes, Serving, Looping
<1>5. Indexed /\ Answered /\ Bound /\ Fanned
  BY <1>1, <1>2, <1>3, SMT DEF Indexed, Answered, Bound, Fanned, Looping
<1> QED BY <1>4, <1>5 DEF SubmissionInv

\* What the record of a stage holds.
LEMMA ServingFields ==
    ASSUME handler \in Serving
    PROVE  /\ handler.stage = "snapshot" => handler \in [stage : {"snapshot"}, key : Keys, body : Bodies, sver : Nat]
           /\ handler.stage = "persist" =>
                handler \in [stage : {"persist"}, key : Keys, body : Bodies, sver : Nat, snap : Nat, env : Envs]
           /\ Looping => handler \in [stage : {"issue", "send"}, scan : Nat, n : Nat, row : Row]
           /\ handler.stage \in {"idle", "snapshot", "persist", "issue", "send"}
  BY SMT DEF Serving, Looping, Idle

\* A snapshot that was asked for stays one.
LEMMA SnapshotStays ==
    ASSUME NEW snap, NEW e, NEW body, HasSnapshot(snap, e, body), snapJobs \subseteq snapJobs'
    PROVE  HasSnapshot(snap, e, body)'
  BY DEF HasSnapshot

\* A step that leaves the handler idle and the stores alone.
LEMMA GoesIdle ==
    ASSUME SubmissionInv, handler' = Idle,
           UNCHANGED <<env, spec, rows, index, keys, jobs, snapJobs, snapshots, scanIds, snapIds, replies>>
    PROVE  SubmissionInv'
<1>1. handler'.stage = "idle" /\ handler' \in Serving
  BY SMT DEF Idle, Serving
<1>2. handler'.stage \notin {"snapshot", "persist", "issue", "send"}
  BY ONLY <1>1, SMT
<1>3. Stored'
  BY <1>1, <1>2, SMT DEF SubmissionInv, Stored, SubmissionTypes, SnapshotJobs, Looping
<1>4. Indexed' /\ Answered'
  BY <1>2, SMT DEF SubmissionInv, Indexed, Answered
<1>5. Bound' /\ Fanned'
  BY <1>2, SMT DEF SubmissionInv, Bound, Fanned, HasSnapshot, Looping
<1> QED BY <1>3, <1>4, <1>5 DEF SubmissionInv

\* A replay answers with the scan of the key and only when the fingerprints agree.
LEMMA ReplayStep ==
    ASSUME SubmissionInv, NEW k \in Keys, NEW b \in Bodies, Replay(k, b)
    PROVE  SubmissionInv'
<1>1. /\ UNCHANGED <<env, spec, rows, index, handler, keys, jobs, snapJobs, snapshots, scanIds, snapIds>>
      /\ k \in DOMAIN index
  BY DEF Replay, tables, counters, world
<1>2. \A r \in replies' : r \in replies
         \/ /\ r = [key |-> k, body |-> b, kind |-> "replay", scan |-> index[k]]
            /\ Fingerprint(rows[index[k]].body) = Fingerprint(b)
  BY DEF Replay, Reply
<1>3. \A r \in replies' : r \in replies
         \/ /\ r.key = k /\ r.body = b /\ r.kind = "replay" /\ r.scan = index[k]
            /\ Fingerprint(rows[index[k]].body) = Fingerprint(b)
  BY ONLY <1>2, SMT
<1>4. Stored' /\ Indexed' /\ Bound'
  <2>1. Stored'
    BY <1>1 DEF SubmissionInv, Stored, SubmissionTypes, SnapshotJobs, Looping
  <2>2. Indexed' /\ Bound'
    BY <1>1 DEF SubmissionInv, Indexed, Bound, HasSnapshot, Looping
  <2> QED BY <2>1, <2>2
<1>5. Answered'
  BY <1>1, <1>3, SMT DEF SubmissionInv, Answered
<1>6. \A r \in replies' : r.kind = "created" => r \in replies
  BY ONLY <1>3, SMT
<1>7. Fanned'
  BY <1>1, <1>6, SMT DEF SubmissionInv, Fanned, Looping
<1> QED BY <1>4, <1>5, <1>7 DEF SubmissionInv

\* A new key starts a request.
LEMMA SubmitStep ==
    ASSUME SubmissionInv, NEW k \in Keys, NEW b \in Bodies, Submit(k, b)
    PROVE  SubmissionInv'
<1>1. UNCHANGED <<env, spec, rows, index, keys, jobs, snapJobs, snapshots, scanIds, snapIds, replies>>
  BY DEF Submit, tables, counters, world
<1>2. CASE handler' = Idle
  BY <1>1, <1>2, GoesIdle
<1>3. CASE handler' = [stage |-> "snapshot", key |-> k, body |-> b, sver |-> Resolve(b)]
  <2>1. spec \in Nat /\ pinOf[b] \in Nat
    BY ScanSubmissionAssumption, SMT DEF SubmissionInv, Stored, SubmissionTypes
  <2>2. Resolve(b) \in Nat
    BY <2>1, SMT DEF Resolve
  <2>3. /\ handler'.stage = "snapshot" /\ handler'.key = k /\ k \notin DOMAIN index
        /\ handler' \in [stage : {"snapshot"}, key : Keys, body : Bodies, sver : Nat]
    BY <1>3, <2>2, SMT DEF Submit
  <2>4. Stored'
    BY <1>1, <2>3, SMT DEF SubmissionInv, Stored, SubmissionTypes, SnapshotJobs, Looping, Serving
  <2>5. Indexed' /\ Answered' /\ Bound' /\ Fanned'
    <3>1. Indexed' /\ Answered'
      BY <1>1, <2>3, SMT DEF SubmissionInv, Indexed, Answered
    <3>2. Bound'
      BY <1>1, <2>3, SMT DEF SubmissionInv, Bound, HasSnapshot, Looping
    <3>3. Fanned'
      BY <1>1, <2>3, SMT DEF SubmissionInv, Fanned, Looping
    <3> QED BY <3>1, <3>2, <3>3
  <2> QED BY <2>4, <2>5 DEF SubmissionInv
<1> QED BY <1>2, <1>3 DEF Submit

\* The snapshot is resolved, found or asked for, under the digest of this process.
LEMMA ResolvedStep ==
    ASSUME SubmissionInv, handler.stage = "snapshot", NEW s \in snapJobs',
           s.id \in Nat, s.env = env, s.commit = commitOf[handler.body],
           Resolved(s), snapJobs \subseteq snapJobs', snapJobs' \subseteq SnapshotJobs', snapIds' \in Nat,
           UNCHANGED <<env, spec, rows, index, keys, jobs, snapshots, scanIds, replies>>
    PROVE  SubmissionInv'
<1>1. handler \in [stage : {"snapshot"}, key : Keys, body : Bodies, sver : Nat] /\ env \in Envs
  BY ServingFields DEF SubmissionInv, Stored, SubmissionTypes
<1>2. /\ handler'.stage = "persist" /\ handler'.key = handler.key /\ handler'.body = handler.body
      /\ handler'.snap = s.id /\ handler'.env = env
      /\ handler' \in [stage : {"persist"}, key : Keys, body : Bodies, sver : Nat, snap : Nat, env : Envs]
  <2>1. handler' = [stage |-> "persist", key |-> handler.key, body |-> handler.body,
                    sver |-> handler.sver, snap |-> s.id, env |-> env] /\ s.id \in Nat
    BY DEF Resolved
  <2> QED BY ONLY <1>1, <2>1, SMT
<1>3. Stored'
  BY <1>2, SMT DEF SubmissionInv, Stored, SubmissionTypes, Looping, Serving
<1>4. Indexed' /\ Answered' /\ Fanned'
  BY <1>2, SMT DEF SubmissionInv, Indexed, Answered, Fanned, Looping
<1>5. (HasSnapshot(handler.snap, handler.env, handler.body))'
  BY <1>2 DEF HasSnapshot
<1>6. \A j \in jobs : HasSnapshot(j.snap, j.env, j.body)'
  BY SnapshotStays DEF SubmissionInv, Bound
<1>7. Bound'
  BY <1>2, <1>5, <1>6, SMT DEF Bound, Looping
<1> QED BY <1>3, <1>4, <1>7 DEF SubmissionInv

\* Reusing a snapshot keeps the invariant.
LEMMA FindStep ==
    ASSUME SubmissionInv, FindSnapshot
    PROVE  SubmissionInv'
<1>1. /\ UNCHANGED <<env, spec, rows, index, keys, jobs, snapJobs, snapshots, scanIds, snapIds, replies>>
      /\ handler.stage = "snapshot"
  BY DEF FindSnapshot, tables, counters, world
<1>2. PICK s \in Existing(handler.body) : Resolved(s)
  BY DEF FindSnapshot
<1>3. s \in snapJobs /\ s.env = env /\ s.commit = commitOf[handler.body]
  BY <1>2 DEF Existing, SubmissionInv, Stored, SubmissionTypes
<1>4. snapJobs \subseteq SnapshotJobs /\ snapIds \in Nat
  BY DEF SubmissionInv, Stored, SubmissionTypes
<1>5. s.id \in Nat /\ s \in snapJobs' /\ snapJobs \subseteq snapJobs' /\ snapJobs' \subseteq SnapshotJobs' /\ snapIds' \in Nat
  BY <1>1, <1>3, <1>4, SMT DEF SnapshotJobs
<1> QED BY <1>1, <1>2, <1>3, <1>5, ResolvedStep

\* Asking for a new snapshot keeps the invariant.
LEMMA CreateStep ==
    ASSUME SubmissionInv, CreateSnapshot
    PROVE  SubmissionInv'
<1> DEFINE s == [id |-> snapIds + 1, commit |-> commitOf[handler.body], env |-> env]
<1>1. /\ UNCHANGED <<env, spec, rows, index, keys, jobs, snapshots, scanIds, replies>>
      /\ handler.stage = "snapshot" /\ snapIds' = snapIds + 1
      /\ snapJobs' = snapJobs \cup {s} /\ Resolved(s)
  BY DEF CreateSnapshot, world
<1>2. snapJobs \subseteq SnapshotJobs /\ snapIds \in Nat /\ env \in Envs
  BY DEF SubmissionInv, Stored, SubmissionTypes
<1>3. handler.body \in Bodies
  <2>1. handler \in [stage : {"snapshot"}, key : Keys, body : Bodies, sver : Nat]
    BY <1>1, ServingFields DEF SubmissionInv, Stored
  <2> QED BY ONLY <2>1, SMT
<1>4. /\ s.id \in Nat /\ s.env = env /\ s.commit = commitOf[handler.body]
      /\ s \in snapJobs' /\ snapJobs \subseteq snapJobs' /\ snapIds' \in Nat
  <2>1. snapJobs' = snapJobs \cup {s} /\ snapIds' = snapIds + 1 /\ snapIds \in Nat
    BY <1>1, <1>2
  <2> QED BY ONLY <2>1, SMT
<1>5. snapJobs' \subseteq SnapshotJobs'
  BY <1>1, <1>2, <1>3, SMT DEF SnapshotJobs, Commits
<1> HIDE DEF s
<1> QED BY <1>1, <1>4, <1>5, ResolvedStep

\* The row of a new scan enters the store with its key; no job has its id yet.
LEMMA PersistStep ==
    ASSUME SubmissionInv, Persist
    PROVE  SubmissionInv'
<1> DEFINE id == scanIds + 1
           row == [key |-> handler.key, body |-> handler.body, sver |-> handler.sver,
                   snap |-> handler.snap, env |-> handler.env]
<1>1. /\ UNCHANGED <<env, spec, keys, jobs, snapJobs, snapshots, snapIds, replies>>
      /\ handler.stage = "persist" /\ scanIds' = id /\ Put(row, id)
      /\ handler' = [stage |-> "issue", scan |-> id, n |-> 1, row |-> row]
  BY DEF Persist, tables, world
<1>2. /\ handler \in [stage : {"persist"}, key : Keys, body : Bodies, sver : Nat, snap : Nat, env : Envs]
      /\ scanIds \in Nat /\ DOMAIN rows \subseteq 1..scanIds
  BY <1>1, ServingFields DEF SubmissionInv, Stored, SubmissionTypes
<1>3. /\ row \in Row /\ row.key = handler.key /\ row.body = handler.body
      /\ row.snap = handler.snap /\ row.env = handler.env
  BY <1>2, SMT DEF Row
<1>4. id \in Nat /\ id \notin DOMAIN rows /\ (\A i \in 1..scanIds : i \in 1..id /\ i # id) /\ id \in 1..id
  BY <1>2, SMT
<1>5. /\ handler'.stage = "issue" /\ handler'.scan = id /\ handler'.n = 1 /\ handler'.row = row
      /\ handler' \in [stage : {"issue", "send"}, scan : Nat, n : Nat, row : Row]
  BY ONLY <1>1, <1>3, <1>4, SMT
<1>6. row.key \in Keys /\ row.key \notin DOMAIN index
  BY <1>1, <1>2, <1>3, SMT DEF SubmissionInv, Indexed
<1> HIDE DEF id, row
<1>7. /\ DOMAIN rows' = DOMAIN rows \cup {id} /\ rows'[id] = row
      /\ \A i \in DOMAIN rows : rows'[i] = rows[i]
      /\ DOMAIN index' = DOMAIN index \cup {row.key} /\ index'[row.key] = id
      /\ \A k \in DOMAIN index : index'[k] = index[k]
  BY <1>1, <1>4, <1>6, SMT DEF Put
<1>8. handler' \in Serving /\ Looping' /\ handler'.n >= 1
  BY <1>5, SMT DEF Serving, Looping
<1>9. SubmissionTypes'
  <2>1. DOMAIN rows' \subseteq (1..scanIds)' /\ keys' \subseteq ((1..scanIds) \X Nat)'
    BY <1>1, <1>2, <1>4, <1>7, SMT DEF SubmissionInv, Stored, SubmissionTypes
  <2>2. DOMAIN index' \subseteq Keys /\ \A k \in DOMAIN index' : index'[k] \in DOMAIN rows'
    BY <1>6, <1>7, SMT DEF SubmissionInv, Stored, SubmissionTypes
  <2> QED BY <1>1, <1>5, <2>1, <2>2, SMT DEF SubmissionInv, Stored, SubmissionTypes, SnapshotJobs
<1>10. \A i \in DOMAIN rows' : rows'[i] \in Row
  BY <1>3, <1>7 DEF SubmissionInv, Stored
<1>11. Stored'
  BY <1>1, <1>4, <1>8, <1>9, <1>10 DEF SubmissionInv, Stored
<1>12. Indexed'
  <2>1. \A k \in DOMAIN index' : rows'[index'[k]].key = k
    <3>1. \A k \in DOMAIN index : rows[index[k]].key = k /\ index[k] \in DOMAIN rows
      BY DEF SubmissionInv, Indexed, Stored, SubmissionTypes
    <3>2. \A k \in DOMAIN index : rows'[index'[k]].key = k
      BY <1>7, <3>1
    <3>3. rows'[index'[row.key]].key = row.key
      BY <1>7
    <3> QED BY <1>7, <3>2, <3>3
  <2>2. \A i \in DOMAIN rows' : rows'[i].key \in DOMAIN index' /\ index'[rows'[i].key] = i
    BY <1>4, <1>7, ZenonT(40) DEF SubmissionInv, Indexed
  <2> QED BY <1>5, <2>1, <2>2, SMT DEF Indexed
<1>13. Answered'
  BY <1>1, <1>7 DEF SubmissionInv, Answered, Stored, SubmissionTypes
<1>14. Bound'
  <2>1. HasSnapshot(row.snap, row.env, row.body) /\ row.env = env
    BY <1>1, <1>3 DEF SubmissionInv, Bound
  <2>2. (HasSnapshot(handler.row.snap, handler.row.env, handler.row.body))' /\ handler'.row.env = env'
    BY <1>1, <1>5, <2>1 DEF HasSnapshot
  <2>3. \A j \in jobs' : (HasSnapshot(j.snap, j.env, j.body))'
    BY <1>1 DEF SubmissionInv, Bound, HasSnapshot
  <2>4. handler'.stage # "persist"
    BY <1>5, SMT
  <2> QED BY <2>2, <2>3, <2>4 DEF Bound
<1>15. Fanned'
  <2>1. \A j \in jobs' : j.scan \in 1..scanIds' /\ j.scan # handler'.scan /\ <<j.scan, j.n>> \in keys'
    BY <1>1, <1>4, <1>5 DEF SubmissionInv, Fanned
  <2>2. handler'.scan \in DOMAIN rows' /\ rows'[handler'.scan] = handler'.row
    BY <1>5, <1>7
  <2>3. 1..(handler'.n - 1) = {} /\ handler'.stage # "send"
    BY <1>5, SMT
  <2>4. \A r \in replies' : r.kind = "created" =>
          \A n \in DOMAIN detectorsOf[r.body] : \E j \in jobs' : j.scan = r.scan /\ j.n = n
    BY <1>1 DEF SubmissionInv, Fanned
  <2>5. /\ \A i, j \in jobs' : i.scan = j.scan /\ i.n = j.n => i = j
        /\ \A i, j \in jobs' : i.scan = j.scan => i.sver = j.sver /\ i.snap = j.snap /\ i.env = j.env
    BY <1>1 DEF SubmissionInv, Fanned
  <2> QED BY <2>1, <2>2, <2>3, <2>4, <2>5 DEF Fanned
<1> QED BY <1>11, <1>12, <1>13, <1>14, <1>15 DEF SubmissionInv

\* The secret of the next job is issued.
LEMMA IssueStep ==
    ASSUME SubmissionInv, IssueKey
    PROVE  SubmissionInv'
<1>1. /\ UNCHANGED <<env, spec, rows, index, jobs, snapJobs, snapshots, scanIds, snapIds, replies>>
      /\ handler.stage = "issue" /\ keys' = keys \cup {<<handler.scan, handler.n>>}
      /\ handler' = [handler EXCEPT !.stage = "send"]
  BY DEF IssueKey, counters, world
<1>2. handler \in [stage : {"issue", "send"}, scan : Nat, n : Nat, row : Row] /\ Looping
  BY <1>1, ServingFields DEF SubmissionInv, Stored, Looping
<1>3. /\ handler'.stage = "send" /\ handler'.scan = handler.scan /\ handler'.n = handler.n
      /\ handler'.row = handler.row /\ handler' \in [stage : {"issue", "send"}, scan : Nat, n : Nat, row : Row]
  BY <1>1, <1>2, SMT
<1>4. Looping' /\ handler' \in Serving /\ handler'.stage \notin {"snapshot", "persist", "idle"}
  BY <1>3, SMT DEF Looping, Serving
<1>5. handler.scan \in 1..scanIds /\ handler.n \in Nat
  BY <1>2 DEF SubmissionInv, Stored, SubmissionTypes, Fanned
<1>6. keys' \subseteq ((1..scanIds) \X Nat)'
  BY <1>1, <1>5, SMT DEF SubmissionInv, Stored, SubmissionTypes
<1>7. Stored'
  BY <1>1, <1>2, <1>3, <1>4, <1>6, SMT DEF SubmissionInv, Stored, SubmissionTypes, SnapshotJobs
<1>8. Indexed' /\ Answered'
  BY <1>1, <1>4, SMT DEF SubmissionInv, Indexed, Answered
<1>9. Bound'
  BY <1>1, <1>2, <1>3, <1>4, SMT DEF SubmissionInv, Bound, HasSnapshot
<1>10. Fanned'
  <2>1. <<handler'.scan, handler'.n>> \in keys' /\ \A j \in jobs' : <<j.scan, j.n>> \in keys'
    BY <1>1, <1>3 DEF SubmissionInv, Fanned
  <2>2. /\ handler'.scan \in DOMAIN rows' /\ rows'[handler'.scan] = handler'.row
        /\ \A n \in 1..(handler'.n - 1) : \E j \in jobs' : j.scan = handler'.scan /\ j.n = n
        /\ \A j \in jobs' : j.scan = handler'.scan =>
              j.n < handler'.n /\ j.sver = handler'.row.sver /\ j.snap = handler'.row.snap /\ j.env = handler'.row.env
    BY <1>1, <1>2, <1>3, SMT DEF SubmissionInv, Fanned
  <2>3. /\ \A j \in jobs' : j.scan \in (1..scanIds)'
        /\ \A i, j \in jobs' : i.scan = j.scan /\ i.n = j.n => i = j
        /\ \A i, j \in jobs' : i.scan = j.scan => i.sver = j.sver /\ i.snap = j.snap /\ i.env = j.env
        /\ \A r \in replies' : r.kind = "created" =>
              \A n \in DOMAIN detectorsOf[r.body] : \E j \in jobs' : j.scan = r.scan /\ j.n = n
    BY <1>1 DEF SubmissionInv, Fanned
  <2> QED BY <2>1, <2>2, <2>3 DEF Fanned
<1> QED BY <1>7, <1>8, <1>9, <1>10 DEF SubmissionInv

\* The second component of a pair.
LEMMA SecondOfPair == ASSUME NEW A, NEW B, NEW a, NEW b, <<a, b>> \in A \X B PROVE b \in B
  BY SMT

\* The loop of step 7 moves on to the next entry.
LEMMA LoopGoesOn ==
    ASSUME NEW h \in [stage : {"issue", "send"}, scan : Nat, n : Nat, row : Row]
    PROVE  LET g == [h EXCEPT !.stage = "issue", !.n = @ + 1] IN
           /\ g.stage = "issue" /\ g.scan = h.scan /\ g.n = h.n + 1 /\ g.row = h.row
           /\ g \in [stage : {"issue", "send"}, scan : Nat, n : Nat, row : Row]
<1> DEFINE f == [h EXCEPT !.stage = "issue"]
           g == [f EXCEPT !.n = @ + 1]
<1>1. f.stage = "issue" /\ f.scan = h.scan /\ f.n = h.n /\ f.row = h.row
      /\ f \in [stage : {"issue", "send"}, scan : Nat, n : Nat, row : Row]
  BY SMT
<1>2. [h EXCEPT !.stage = "issue", !.n = @ + 1] = g
  BY SMT
<1> HIDE DEF f
<1>3. g.stage = "issue" /\ g.scan = h.scan /\ g.n = h.n + 1 /\ g.row = h.row
      /\ g \in [stage : {"issue", "send"}, scan : Nat, n : Nat, row : Row]
  BY ONLY <1>1, SMT
<1> HIDE DEF g
<1> QED BY <1>2, <1>3

\* The job of the entry at work is sent with the values of the row.
LEMMA SendStep ==
    ASSUME SubmissionInv, SendJob
    PROVE  /\ SubmissionInv'
           /\ \A j \in jobs' \ jobs : j.env = env
<1> DEFINE job == Job(handler.row.sver)
<1>1. /\ UNCHANGED <<env, spec, rows, index, keys, snapJobs, snapshots, scanIds, snapIds, replies>>
      /\ handler.stage = "send" /\ jobs' = jobs \cup {job}
      /\ handler' = [handler EXCEPT !.stage = "issue", !.n = @ + 1]
  BY DEF SendJob, Send, counters, world
<1>2. handler \in [stage : {"issue", "send"}, scan : Nat, n : Nat, row : Row] /\ Looping
  BY <1>1, ServingFields DEF SubmissionInv, Stored, Looping
<1>3. /\ handler'.stage = "issue" /\ handler'.scan = handler.scan /\ handler'.n = handler.n + 1
      /\ handler'.row = handler.row /\ handler' \in [stage : {"issue", "send"}, scan : Nat, n : Nat, row : Row]
  BY <1>1, <1>2, LoopGoesOn
<1>4. /\ job.scan = handler.scan /\ job.n = handler.n /\ job.body = handler.row.body
      /\ job.sver = handler.row.sver /\ job.snap = handler.row.snap /\ job.env = handler.row.env
  BY SMT DEF Job
<1> HIDE DEF job
<1>5. /\ Looping' /\ handler' \in Serving /\ handler'.n >= 1
      /\ handler'.stage \notin {"snapshot", "persist", "idle", "send"}
  BY <1>2, <1>3, SMT DEF Looping, Serving
<1>6. Stored'
  BY <1>1, <1>5, SMT DEF SubmissionInv, Stored, SubmissionTypes, SnapshotJobs, Looping
<1>7. Indexed' /\ Answered'
  BY <1>1, <1>5, SMT DEF SubmissionInv, Indexed, Answered
<1>8. HasSnapshot(handler.row.snap, handler.row.env, handler.row.body) /\ handler.row.env = env
  BY <1>2 DEF SubmissionInv, Bound
<1>9. Bound'
  <2>1. \A j \in jobs : HasSnapshot(j.snap, j.env, j.body)
    BY DEF SubmissionInv, Bound
  <2>2. \A j \in jobs' : (HasSnapshot(j.snap, j.env, j.body))'
    BY <1>1, <1>4, <1>8, <2>1 DEF HasSnapshot
  <2>3. (HasSnapshot(handler.row.snap, handler.row.env, handler.row.body))' /\ handler'.row.env = env'
    BY <1>1, <1>3, <1>8 DEF HasSnapshot
  <2>4. handler'.stage # "persist"
    BY <1>3, SMT
  <2> QED BY <2>2, <2>3, <2>4 DEF Bound
<1>10. Fanned'
  <2>1. /\ handler.scan \in DOMAIN rows /\ rows[handler.scan] = handler.row
        /\ \A n \in 1..(handler.n - 1) : \E j \in jobs : j.scan = handler.scan /\ j.n = n
        /\ \A j \in jobs : j.scan = handler.scan =>
              j.n < handler.n /\ j.sver = handler.row.sver /\ j.snap = handler.row.snap /\ j.env = handler.row.env
        /\ <<handler.scan, handler.n>> \in keys /\ handler.scan \in 1..scanIds
    BY <1>1, <1>2 DEF SubmissionInv, Fanned, Stored, SubmissionTypes
  <2>2. \A j \in jobs' : j.scan \in (1..scanIds)' /\ <<j.scan, j.n>> \in keys'
    BY <1>1, <1>4, <2>1 DEF SubmissionInv, Fanned
  <2>3. \A j \in jobs : ~(j.scan = handler.scan /\ j.n = handler.n)
    BY <1>2, <2>1, SMT
  <2>4. \A i, j \in jobs' : i.scan = j.scan /\ i.n = j.n => i = j
    <3>1. \A i, j \in jobs : i.scan = j.scan /\ i.n = j.n => i = j
      BY DEF SubmissionInv, Fanned
    <3> QED BY ONLY <1>1, <1>4, <2>3, <3>1, SMT
  <2>5. \A i, j \in jobs' : i.scan = j.scan => i.sver = j.sver /\ i.snap = j.snap /\ i.env = j.env
    <3>1. \A i, j \in jobs : i.scan = j.scan => i.sver = j.sver /\ i.snap = j.snap /\ i.env = j.env
      BY DEF SubmissionInv, Fanned
    <3> QED BY ONLY <1>1, <1>4, <2>1, <3>1, SMT
  <2>6. \A n \in 1..(handler'.n - 1) : n \in 1..(handler.n - 1) \/ n = handler.n
    BY <1>2, <1>3, SMT
  <2>7. \A n \in 1..(handler'.n - 1) : \E j \in jobs' : j.scan = handler'.scan /\ j.n = n
    BY <1>1, <1>3, <1>4, <2>1, <2>6, ZenonT(40)
  <2>8. \A j \in jobs : j.n \in Nat
    <3>1. \A j \in jobs : <<j.scan, j.n>> \in (1..scanIds) \X Nat
      BY DEF SubmissionInv, Fanned, Stored, SubmissionTypes
    <3> QED BY <3>1, SecondOfPair
  <2>9. \A j \in jobs' : j.scan = handler'.scan =>
              j.n < handler'.n /\ j.sver = handler'.row.sver /\ j.snap = handler'.row.snap /\ j.env = handler'.row.env
    BY ONLY <1>1, <1>2, <1>3, <1>4, <2>1, <2>8, SMT
  <2>10. \A r \in replies' : r.kind = "created" =>
              \A n \in DOMAIN detectorsOf[r.body] : \E j \in jobs' : j.scan = r.scan /\ j.n = n
    <3>1. \A r \in replies : r.kind = "created" =>
              \A n \in DOMAIN detectorsOf[r.body] : \E j \in jobs : j.scan = r.scan /\ j.n = n
      BY DEF SubmissionInv, Fanned
    <3>2. replies' = replies /\ jobs \subseteq jobs'
      BY <1>1
    <3> QED BY ONLY <3>1, <3>2, Zenon
  <2>11. handler'.scan \in DOMAIN rows' /\ rows'[handler'.scan] = handler'.row /\ handler'.stage # "send"
    BY <1>1, <1>3, <1>5, <2>1, SMT
  <2> QED BY <2>2, <2>4, <2>5, <2>7, <2>9, <2>10, <2>11 DEF Fanned
<1>11. \A j \in jobs' \ jobs : j.env = env
  BY <1>1, <1>4, <1>8
<1> QED BY <1>6, <1>7, <1>9, <1>10, <1>11 DEF SubmissionInv

\* The 201 is answered when the loop is past the last entry.
LEMMA CreatedStep ==
    ASSUME SubmissionInv, Created
    PROVE  SubmissionInv'
<1> DEFINE reply == [key |-> handler.row.key, body |-> handler.row.body, kind |-> "created", scan |-> handler.scan]
<1>1. /\ UNCHANGED <<env, spec, rows, index, keys, jobs, snapJobs, snapshots, scanIds, snapIds>>
      /\ handler.stage = "issue" /\ handler.n = Len(detectorsOf[handler.row.body]) + 1
      /\ replies' = replies \cup {reply} /\ handler' = Idle
  BY DEF Created, Reply, tables, counters, world
<1>2. handler \in [stage : {"issue", "send"}, scan : Nat, n : Nat, row : Row] /\ Looping
  BY <1>1, ServingFields DEF SubmissionInv, Stored, Looping
<1>3. handler.row \in Row /\ handler.row.body \in Bodies
  BY <1>2, SMT DEF Row
<1>4. /\ reply.key = handler.row.key /\ reply.body = handler.row.body /\ reply.scan = handler.scan
  BY SMT
<1> HIDE DEF reply
<1>5. /\ handler.scan \in DOMAIN rows /\ rows[handler.scan] = handler.row
      /\ \A n \in 1..(handler.n - 1) : \E j \in jobs : j.scan = handler.scan /\ j.n = n
  BY <1>2 DEF SubmissionInv, Fanned
<1>6. reply.key \in DOMAIN index /\ reply.scan = index[reply.key] /\ rows[reply.scan].body = reply.body
  <2>1. rows[handler.scan].key \in DOMAIN index /\ index[rows[handler.scan].key] = handler.scan
    BY <1>5 DEF SubmissionInv, Indexed
  <2> QED BY <1>4, <1>5, <2>1
<1>7. Answered'
  BY <1>1, <1>6 DEF SubmissionInv, Answered
<1>8. DOMAIN detectorsOf[handler.row.body] = 1..(handler.n - 1)
  BY <1>1, <1>2, <1>3, ScanSubmissionAssumption, SMT
<1>9. \A n \in DOMAIN detectorsOf[reply.body] : \E j \in jobs : j.scan = reply.scan /\ j.n = n
  BY <1>4, <1>5, <1>8
<1>10. handler'.stage = "idle" /\ handler' \in Serving /\ handler'.stage \notin {"snapshot", "persist", "issue", "send"}
  BY <1>1, SMT DEF Idle, Serving
<1>11. Stored' /\ Indexed' /\ Bound'
  <2>1. Stored'
    BY <1>1, <1>10, SMT DEF SubmissionInv, Stored, SubmissionTypes, SnapshotJobs, Looping
  <2>2. Indexed' /\ Bound'
    BY <1>1, <1>10, SMT DEF SubmissionInv, Indexed, Bound, HasSnapshot, Looping
  <2> QED BY <2>1, <2>2
<1>12. \A r \in replies' : r.kind = "created" =>
          \A n \in DOMAIN detectorsOf[r.body] : \E j \in jobs' : j.scan = r.scan /\ j.n = n
  <2>1. \A r \in replies : r.kind = "created" =>
            \A n \in DOMAIN detectorsOf[r.body] : \E j \in jobs : j.scan = r.scan /\ j.n = n
    BY DEF SubmissionInv, Fanned
  <2>2. jobs' = jobs /\ \A r \in replies' : r \in replies \/ r = reply
    BY <1>1
  <2> QED BY ONLY <1>9, <2>1, <2>2, ZenonT(40)
<1>13. ~Looping' /\ handler'.stage # "send"
  BY <1>10, SMT DEF Looping
<1>14. Fanned'
  BY <1>1, <1>12, <1>13 DEF SubmissionInv, Fanned
<1> QED BY <1>7, <1>11, <1>14 DEF SubmissionInv

\* A new process knows no scan; what was sent stays sent.
LEMMA RestartStep ==
    ASSUME SubmissionInv, NEW e \in Envs, Restart(e)
    PROVE  SubmissionInv'
<1>1. /\ UNCHANGED <<spec, keys, jobs, snapJobs, snapshots, scanIds, snapIds>>
      /\ env' = e /\ rows' = <<>> /\ index' = <<>> /\ handler' = Idle /\ replies' = {}
  BY DEF Restart, tables, counters
<1>2. /\ handler'.stage = "idle" /\ handler' \in Serving /\ handler'.stage \notin {"snapshot", "persist", "issue", "send"}
      /\ DOMAIN rows' = {} /\ DOMAIN index' = {}
  BY <1>1, SMT DEF Idle, Serving
<1>3. Stored'
  BY <1>1, <1>2, SMTT(40) DEF SubmissionInv, Stored, SubmissionTypes, SnapshotJobs, Looping
<1>4. Indexed' /\ Answered'
  BY <1>1, <1>2, SMT DEF Indexed, Answered
<1>5. ~Looping' /\ handler'.stage # "send" /\ handler'.stage # "persist"
  BY <1>2, SMT DEF Looping
<1>6. Bound' /\ Fanned'
  BY <1>1, <1>5 DEF SubmissionInv, Bound, HasSnapshot, Fanned
<1> QED BY <1>3, <1>4, <1>6 DEF SubmissionInv

\* A step that touches no table of the requests keeps what is said of them.
LEMMA TablesKept ==
    ASSUME SubmissionInv, UNCHANGED <<env, rows, index, handler, keys, jobs, snapJobs, scanIds, replies>>
    PROVE  Indexed' /\ Answered' /\ Bound' /\ Fanned'
<1>1. Indexed'
  BY DEF SubmissionInv, Indexed
<1>2. Answered'
  BY DEF SubmissionInv, Answered
<1>3. Bound'
  BY DEF SubmissionInv, Bound, HasSnapshot, Looping
<1>4. Fanned'
  BY DEF SubmissionInv, Fanned, Looping
<1> QED BY <1>1, <1>2, <1>3, <1>4

\* The registry accepts a version; nothing that was bound moves.
LEMMA AcceptStep ==
    ASSUME SubmissionInv, AcceptSpec
    PROVE  SubmissionInv'
<1>1. /\ UNCHANGED <<env, rows, index, handler, keys, jobs, snapJobs, snapshots, scanIds, snapIds, replies>>
      /\ spec < MaxSpec /\ spec' = spec + 1
  BY DEF AcceptSpec, tables, counters
<1>2. spec' \in 0..MaxSpec
  BY <1>1, ScanSubmissionAssumption, SMT DEF SubmissionInv, Stored, SubmissionTypes
<1>3. Stored'
  BY <1>1, <1>2 DEF SubmissionInv, Stored, SubmissionTypes, SnapshotJobs, Looping
<1>4. Indexed' /\ Answered' /\ Bound' /\ Fanned'
  BY <1>1, TablesKept
<1> QED BY <1>3, <1>4 DEF SubmissionInv

\* A worker completes a snapshot, at most one for each commit and digest.
LEMMA CompleteStep ==
    ASSUME SubmissionInv, NEW s \in snapJobs, CompleteSnapshot(s)
    PROVE  SubmissionInv'
<1>1. /\ UNCHANGED <<env, spec, rows, index, handler, keys, jobs, snapJobs, scanIds, snapIds, replies>>
      /\ snapshots' = snapshots \cup {s} /\ \A t \in snapshots : <<t.commit, t.env>> # <<s.commit, s.env>>
  BY DEF CompleteSnapshot, counters
<1>2. snapshots' \subseteq snapJobs'
  BY <1>1 DEF SubmissionInv, Stored, SubmissionTypes
<1>3. \A t, u \in snapshots : <<t.commit, t.env>> = <<u.commit, u.env>> => t = u
  BY DEF SubmissionInv, Stored, SubmissionTypes
<1>4. \A t, u \in snapshots' : <<t.commit, t.env>> = <<u.commit, u.env>> => t = u
  BY ONLY <1>1, <1>3, SMT
<1>5. Stored'
  BY <1>1, <1>2, <1>4 DEF SubmissionInv, Stored, SubmissionTypes, SnapshotJobs, Looping
<1>6. Indexed' /\ Answered' /\ Bound' /\ Fanned'
  BY <1>1, TablesKept
<1> QED BY <1>5, <1>6 DEF SubmissionInv

\* Every step keeps the invariant of submission.
LEMMA SubmissionStep ==
    ASSUME SubmissionInv, [submissionNext]_submissionVars
    PROVE  /\ SubmissionInv'
           /\ \A j \in jobs' \ jobs : j.env = env
<1>1. CASE SendJob
  BY <1>1, SendStep
<1>2. CASE ~SendJob
  <2>1. jobs' = jobs
    BY <1>2 DEF submissionNext, submissionVars, Replay, Submit, FindSnapshot, CreateSnapshot, Persist, IssueKey,
       Created, Fault, Restart, AcceptSpec, CompleteSnapshot, tables
  <2>2. CASE UNCHANGED submissionVars
    <3>1. Indexed' /\ Answered' /\ Bound' /\ Fanned'
      BY <2>2, TablesKept DEF submissionVars
    <3>2. Stored'
      BY <2>2 DEF submissionVars, SubmissionInv, Stored, SubmissionTypes, SnapshotJobs, Looping
    <3> QED BY <2>1, <3>1, <3>2 DEF SubmissionInv
  <2>3. CASE Fault
    <3>1. /\ UNCHANGED <<env, spec, rows, index, keys, jobs, snapJobs, snapshots, scanIds, snapIds, replies>>
          /\ handler' = Idle
      BY <2>3 DEF Fault, tables, counters, world
    <3> QED BY <2>1, <3>1, GoesIdle
  <2>4. CASE submissionNext /\ ~Fault
    <3>1. CASE \E k \in Keys, b \in Bodies : Replay(k, b) \/ Submit(k, b)
      BY <2>1, <3>1, ReplayStep, SubmitStep
    <3>2. CASE FindSnapshot \/ CreateSnapshot \/ Persist \/ IssueKey \/ Created \/ AcceptSpec
      BY <2>1, <3>2, FindStep, CreateStep, PersistStep, IssueStep, CreatedStep, AcceptStep
    <3>3. CASE \E e \in Envs : Restart(e)
      BY <2>1, <3>3, RestartStep
    <3>4. CASE \E s \in snapJobs : CompleteSnapshot(s)
      BY <2>1, <3>4, CompleteStep
    <3> QED BY <1>2, <2>4, <3>1, <3>2, <3>3, <3>4 DEF submissionNext
  <2>5. SubmissionInv'
    BY <2>2, <2>3, <2>4
  <2> QED BY <2>1, <2>5
<1> QED BY <1>1, <1>2

\* The invariant of submission implies its properties.
LEMMA SubmissionSafe == SubmissionInv => ScanIsSubmittedOnce
<1> SUFFICES ASSUME SubmissionInv PROVE ScanIsSubmittedOnce
  OBVIOUS
<1>1. SubmissionTypes
  BY DEF SubmissionInv, Stored
<1>2. KeyOwnsOneScan
  <2>1. \A i, j \in DOMAIN rows : rows[i].key = rows[j].key => i = j
    BY DEF SubmissionInv, Indexed
  <2>2. \A r, q \in replies : r.key = q.key => r.scan = q.scan /\ Fingerprint(r.body) = Fingerprint(q.body)
    <3>1. \A r \in replies : r.scan = index[r.key] /\ Fingerprint(r.body) = Fingerprint(rows[r.scan].body)
      BY DEF SubmissionInv, Answered
    <3> QED BY ONLY <3>1, SMT
  <2> QED BY <2>1, <2>2 DEF KeyOwnsOneScan
<1>3. CreatedIsFannedOut
  <2> SUFFICES ASSUME NEW r \in replies, r.kind = "created", NEW n \in DOMAIN detectorsOf[r.body]
               PROVE  \E job \in jobs : {j \in jobs : j.scan = r.scan /\ j.n = n} = {job}
    BY DEF CreatedIsFannedOut
  <2>1. PICK job \in jobs : job.scan = r.scan /\ job.n = n
    BY DEF SubmissionInv, Fanned
  <2>2. \A j \in jobs : j.scan = job.scan /\ j.n = job.n => j = job
    BY DEF SubmissionInv, Fanned
  <2>3. {j \in jobs : j.scan = r.scan /\ j.n = n} = {job}
    BY ONLY <2>1, <2>2, Zenon
  <2> QED BY <2>3
<1>4. JobsAgree
  <2>1. \A i, j \in jobs : i.scan = j.scan => i.sver = j.sver /\ i.snap = j.snap /\ i.env = j.env
    BY DEF SubmissionInv, Fanned
  <2>2. \A j \in jobs : HasSnapshot(j.snap, j.env, j.body)
    BY DEF SubmissionInv, Bound
  <2>3. \A i, j \in jobs : i.scan = j.scan => <<i.sver, i.snap, i.env>> = <<j.sver, j.snap, j.env>>
    BY ONLY <2>1, SMT
  <2> QED BY <2>2, <2>3 DEF JobsAgree, HasSnapshot
<1>5. JobsHaveKeys
  BY DEF SubmissionInv, Fanned, JobsHaveKeys
<1> QED BY <1>1, <1>2, <1>3, <1>4, <1>5 DEF ScanIsSubmittedOnce

\* However the calls of post_scans fail and the process is replaced, an
\* Idempotency-Key owns one scan, and a scan answered 201 has exactly one job for
\* each detector, alike and each with its secret.
THEOREM ScanOnce == submissionSpec => []ScanIsSubmittedOnce
<1>1. submissionInit => SubmissionInv
  BY SubmissionInit
<1>2. SubmissionInv /\ [submissionNext]_submissionVars => SubmissionInv'
  BY SubmissionStep
<1>3. SubmissionInv => ScanIsSubmittedOnce
  BY SubmissionSafe
<1> QED BY <1>1, <1>2, <1>3, PTL DEF submissionSpec

\* post_scans sends a job only under the digest of the running process, whatever
\* rows of an earlier Env _select_existing leaves aside.
THEOREM EnvIsFresh == submissionSpec => FreshEnv
<1>1. submissionInit => SubmissionInv
  BY SubmissionInit
<1>2. SubmissionInv /\ [submissionNext]_submissionVars => SubmissionInv'
  BY SubmissionStep
<1>3. SubmissionInv /\ [submissionNext]_submissionVars => [\A j \in jobs' \ jobs : j.env = env]_submissionVars
  BY SubmissionStep
<1> QED BY <1>1, <1>2, <1>3, PTL DEF submissionSpec, FreshEnv
=============================================================================
