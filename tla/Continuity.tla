----------------------------- MODULE Continuity -----------------------------
(***************************************************************************)
(* What lets a decision of one scan speak for an occurrence of the next    *)
(* (services/scan/continuity.py): the policy registry, an entity with its  *)
(* lifecycle and its human decisions, the link of an occurrence to the     *)
(* entity, and the decisions that are effective through the link.          *)
(*                                                                         *)
(* The module is pure.  Its docstrings leave the rest to a trusted store,  *)
(* modelled as they require it: a proposed snapshot is committed when the  *)
(* validator accepts it against the current one (compare and set), human   *)
(* events are immutable under unique ids, only committed links are read.   *)
(* What reaches the validator is arbitrary: an event written long ago,     *)
(* one that was committed before, a registry that reuses an activation.    *)
(* A reader holds the snapshots it loaded, which may be old.               *)
(*                                                                         *)
(* The occurrence's scope, digests and profile are taken to match: the     *)
(* planner has found its unique predecessor, which belongs to the entity.  *)
(***************************************************************************)
EXTENDS Naturals, FiniteSets

CONSTANTS
    Policies,       \* digests of policy definitions
    Activations,    \* activation event ids
    Events,         \* human event ids
    dimensionOf,    \* what an event decides
    Lifecycles,     \* the lifecycle states an entity takes
    MaxRegistry,    \* bound on registry revisions
    MaxRevision,    \* bound on entity revisions
    None

Dimensions == {"verdict", "suppression"}
Parts == Dimensions \cup {"metadata"}

ASSUME ContinuityAssumption ==
    /\ None \notin Events /\ None \notin Activations
    /\ dimensionOf \in [Events -> Parts]
    /\ Lifecycles \subseteq {"open", "resolved", "reappeared", "uncertain"}
    /\ "open" \in Lifecycles
    /\ MaxRegistry \in Nat /\ MaxRevision \in Nat

VARIABLES
    registry,    \* PolicyRegistrySnapshot
    entity,      \* EntitySnapshot
    written,     \* the human events: decision revision and generation of each
    link,        \* the occurrence's LinkProposal, "proposed" or "committed"
    read,        \* the snapshots a reader holds
    epoch,       \* lifecycle changes of the entity so far
    madeFor,     \* the epoch a human event was written for
    replaced,    \* events that were in force and are no more
    withdrawn    \* activations whose policy was revoked

ghosts == <<epoch, madeFor, replaced, withdrawn>>
vars == <<registry, entity, written, link, read, epoch, madeFor, replaced, withdrawn>>

Init ==
    /\ registry = [rev |-> 0, state |-> [p \in Policies |-> "absent"],
                   act |-> [p \in Policies |-> None], used |-> {}]
    /\ entity = [life |-> "open", rev |-> 0, gen |-> 0, decRev |-> 0,
                 held |-> [d \in Parts |-> None]]
    /\ written = [e \in Events |-> None]
    /\ link = None
    /\ read = [registry |-> registry, withdrawn |-> {}, entity |-> entity, epoch |-> 0]
    /\ epoch = 0 /\ madeFor = [e \in Events |-> None]
    /\ replaced = {} /\ withdrawn = {}

-----------------------------------------------------------------------------
(* The policy registry.                                                    *)

Entries(r) == {p \in Policies : r.state[p] # "absent"}
Active(r) == {p \in Policies : r.state[p] = "active"}

\* PolicyRegistrySnapshot: an activation identifies one entry, and is in the
\* retained history.
WellFormed(r) ==
    /\ \A p \in Policies : r.act[p] = None <=> p \notin Entries(r)
    /\ \A p, q \in Entries(r) : r.act[p] = r.act[q] => p = q
    /\ \A p \in Entries(r) : r.act[p] \in r.used

\* A policy that is new, or active again after a revocation.
Introduced(old, new) ==
    {p \in Entries(new) : p \notin Entries(old) \/ (p \notin Active(old) /\ p \in Active(new))}

\* validate_registry_transition
ValidRegistry(old, new) ==
    /\ Entries(old) \subseteq Entries(new)
    /\ old.used \subseteq new.used
    /\ \A p \in Entries(new) :
          IF p \in Introduced(old, new) THEN new.act[p] \notin old.used
                                        ELSE new.act[p] = old.act[p]
    /\ new.used \ old.used = {new.act[p] : p \in Introduced(old, new)}

Registries ==
    [rev : {registry.rev + 1}, state : [Policies -> {"absent", "active", "revoked"}],
     act : [Policies -> Activations \cup {None}], used : SUBSET Activations]

ChangeRegistry(new) ==
    /\ registry.rev < MaxRegistry
    /\ WellFormed(new) /\ ValidRegistry(registry, new)
    /\ registry' = new
    /\ withdrawn' = withdrawn \cup {registry.act[p] : p \in Active(registry) \ Active(new)}
    /\ UNCHANGED <<entity, written, link, read, epoch, madeFor, replaced>>

-----------------------------------------------------------------------------
(* The entity.                                                             *)

Bump(b) == IF b THEN 1 ELSE 0

\* A human writes an event on the decisions as they are, for the generation that
\* is current or for the one the lifecycle change it accompanies will start.
Write(e, ahead) ==
    /\ written[e] = None
    /\ written' = [written EXCEPT ![e] = [rev |-> entity.decRev + 1, gen |-> entity.gen + ahead]]
    /\ madeFor' = [madeFor EXCEPT ![e] = epoch + ahead]
    /\ UNCHANGED <<registry, entity, link, read, epoch, replaced, withdrawn>>

\* validate_entity_transition, the lifecycle: a change of state advances the
\* generation, nothing else does.  (The coordinator's event that asks for it names
\* the revision and generation it was made on; one made on others is refused.)
ValidLifecycle(old, life, gen) == gen = old.gen + Bump(life # old.life)

\* Mutant of ValidDecisions: an event of any earlier revision is taken.
ValidDecisions_AnyRevision(old, gen, decRev, held, events) ==
    /\ decRev = old.decRev + Bump(events # {})
    /\ \A e, f \in events : dimensionOf[e] = dimensionOf[f] => e = f
    /\ \A d \in Parts : old.held[d] \notin events
    /\ \A d \in Parts :
          IF \E e \in events : dimensionOf[e] = d
          THEN held[d] \in events /\ (d \in Dimensions => written[held[d]].gen = gen)
          ELSE held[d] = old.held[d]

\* The human events: at most one for each part, none that is in force now, each
\* of the new decision revision and of the current generation; a part without
\* one keeps what it has.  (References of metadata only grow; they are left out.)
ValidDecisions(old, gen, decRev, held, events) ==
    /\ decRev = old.decRev + Bump(events # {})
    /\ \A e, f \in events : dimensionOf[e] = dimensionOf[f] => e = f
    /\ \A d \in Parts : old.held[d] \notin events
    /\ \A d \in Parts :
          IF \E e \in events : dimensionOf[e] = d
          THEN /\ held[d] \in events
               /\ written[held[d]].rev = decRev
               /\ d \in Dimensions => written[held[d]].gen = gen
          ELSE held[d] = old.held[d]

\* DecisionSnapshot: an event is in force in the part it decides only.
Holdings ==
    {h \in [Parts -> Events \cup {None}] : \A d \in Parts : h[d] # None => dimensionOf[h[d]] = d}

ChangeEntity(life, gen, events, decRev, held) ==
    /\ entity.rev < MaxRevision
    /\ ValidLifecycle(entity, life, gen)
    /\ life # entity.life \/ events # {}
    /\ ValidDecisions(entity, gen, decRev, held, events)
    /\ entity' = [life |-> life, rev |-> entity.rev + 1, gen |-> gen, decRev |-> decRev,
                  held |-> held]
    /\ epoch' = epoch + Bump(life # entity.life)
    /\ replaced' = replaced \cup
          {entity.held[d] : d \in {d \in Parts : entity.held[d] \notin {None, held[d]}}}
    /\ UNCHANGED <<registry, written, link, read, madeFor, withdrawn>>

-----------------------------------------------------------------------------
(* The link.                                                               *)

\* GuardRevisions of the current snapshots under policy p.
Guards(p) ==
    [policy |-> p, act |-> registry.act[p], regRev |-> registry.rev, entRev |-> entity.rev,
     gen |-> entity.gen, decRev |-> entity.decRev]

\* plan_continuity, for an occurrence with a unique eligible predecessor.
Plan(p) ==
    /\ link = None
    /\ p \in Active(registry)
    /\ link' = [stage |-> "proposed", guards |-> Guards(p), life |-> entity.life,
                epoch |-> epoch, replaced |-> replaced]
    /\ UNCHANGED <<registry, entity, written, read, ghosts>>

\* Mutant of Commit: the guards are compared but for the entity's revision.
Commit_IgnoresRevision ==
    /\ link # None /\ link.stage = "proposed"
    /\ link' = IF [Guards(link.guards.policy) EXCEPT !.entRev = link.guards.entRev,
                                                   !.decRev = link.guards.decRev] = link.guards
               THEN [link EXCEPT !.stage = "committed"]
               ELSE None
    /\ UNCHANGED <<registry, entity, written, read, ghosts>>

\* The adapter commits the proposal if guards_match, and drops it otherwise.
Commit ==
    /\ link # None /\ link.stage = "proposed"
    /\ link' = IF Guards(link.guards.policy) = link.guards
               THEN [link EXCEPT !.stage = "committed"]
               ELSE None
    /\ UNCHANGED <<registry, entity, written, read, ghosts>>

-----------------------------------------------------------------------------
(* The reader: effective_decisions on the snapshots it holds.              *)

LoadRegistry ==
    /\ read' = [registry |-> registry, withdrawn |-> withdrawn, entity |-> read.entity,
                epoch |-> read.epoch]
    /\ UNCHANGED <<registry, entity, written, link, ghosts>>

LoadEntity ==
    /\ read' = [registry |-> read.registry, withdrawn |-> read.withdrawn, entity |-> entity,
                epoch |-> epoch]
    /\ UNCHANGED <<registry, entity, written, link, ghosts>>

Authorized(s, d) == s.held[d] # None /\ written[s.held[d]].gen = s.gen

\* The link is in force: its activation is, the snapshots are not older than it,
\* and the entity is open in the generation the link was made for.
Inherits(r, s) ==
    /\ link # None /\ link.stage = "committed"
    /\ link.guards.policy \in Active(r) /\ r.act[link.guards.policy] = link.guards.act
    /\ r.rev >= link.guards.regRev
    /\ s.rev >= link.guards.entRev /\ s.decRev >= link.guards.decRev
    /\ link.life = "open" /\ s.life = "open"
    /\ s.gen = link.guards.gen

\* The dimensions whose decision is the entity's, unless the occurrence has one of
\* its own; the others fall to the default.
FromEntity(r, s) == {d \in Dimensions : Inherits(r, s) /\ Authorized(s, d)}

-----------------------------------------------------------------------------

Next ==
    \/ \E new \in Registries : ChangeRegistry(new)
    \/ \E e \in Events, ahead \in {0, 1} : Write(e, ahead)
    \/ \E life \in Lifecycles, gen \in {entity.gen, entity.gen + 1},
          events \in SUBSET {e \in Events : written[e] # None},
          decRev \in {entity.decRev, entity.decRev + 1}, held \in Holdings :
          ChangeEntity(life, gen, events, decRev, held)
    \/ \E p \in Policies : Plan(p)
    \/ Commit
    \/ LoadRegistry
    \/ LoadEntity

Spec == Init /\ [][Next]_vars

-----------------------------------------------------------------------------
(* Properties.                                                             *)

Registry ==
    [rev : Nat, state : [Policies -> {"absent", "active", "revoked"}],
     act : [Policies -> Activations \cup {None}], used : SUBSET Activations]
Entity ==
    [life : Lifecycles, rev : Nat, gen : Nat, decRev : Nat,
     held : [Parts -> Events \cup {None}]]
Link ==
    [stage : {"proposed", "committed"}, life : Lifecycles, epoch : Nat,
     replaced : SUBSET Events,
     guards : [policy : Policies, act : Activations, regRev : Nat, entRev : Nat, gen : Nat,
               decRev : Nat]]

\* The snapshots, events and links have their types: an entry names an activation,
\* a link is made under one (plan_continuity blocks without an active entry), and
\* an event that is in force was written.
TypeOK ==
    /\ registry \in Registry
    /\ entity \in Entity
    /\ \A d \in Parts : entity.held[d] # None => written[entity.held[d]] # None
    /\ written \in [Events -> [rev : Nat, gen : Nat] \cup {None}]
    /\ link \in Link \cup {None}
    /\ read \in [registry : Registry, withdrawn : SUBSET Activations, entity : Entity,
                 epoch : Nat]
    /\ epoch \in Nat
    /\ madeFor \in [Events -> Nat \cup {None}]
    /\ replaced \subseteq Events
    /\ withdrawn \subseteq Activations

\* Whatever snapshots the reader holds, and however old they are, a decision it
\* takes from the entity (effective_decisions, source "entity") was made for the
\* lifecycle epoch of the entity it read, through a link of the same epoch; it had
\* not been superseded when the link was planned; and the link's activation had not
\* been revoked in the registry it read, not even if the policy is active again.
InheritedIsCurrent ==
    \A d \in FromEntity(read.registry, read.entity) :
       LET e == read.entity.held[d] IN
       /\ madeFor[e] = read.epoch /\ link.epoch = read.epoch
       /\ e \notin link.replaced
       /\ link.guards.act \notin read.withdrawn

\* An event that was superseded is never in force again, though it stays in the
\* history and may be handed in again (validate_entity_transition only compares
\* ids with those in force: it is the revision that keeps it out).
SupersededStaysOut == \A d \in Parts : entity.held[d] \notin replaced

\* Both: no decision that was overtaken counts, inherited or in force.
DecisionsAreCurrent == InheritedIsCurrent /\ SupersededStaysOut

\* A link is committed (guards_match) only in the epoch it was planned in, with the
\* decisions that were in force then, under an activation that is not revoked.
LinkIsOfNow ==
    [][link' # None /\ link'.stage = "committed" /\ link' # link
         => /\ link'.epoch = epoch /\ link'.replaced = replaced
            /\ link'.guards.act \notin withdrawn]_vars

=============================================================================
