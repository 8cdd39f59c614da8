-------------------------- MODULE PublicationStore --------------------------
(***************************************************************************)
(* What the evidence store promises its caller: a set of stored            *)
(* publications that only grows, a parent that is stored only over its     *)
(* stored members, and acknowledgements of stored publications only.       *)
(***************************************************************************)
EXTENDS Naturals

CONSTANTS Scopes, Pubs, scopeOf, parentOf

VARIABLES stored, acked

MembersOf(s) == {p \in Pubs : scopeOf[p] = s /\ p # parentOf[s]}

Init == stored = {} /\ acked = {}

Store ==
    /\ \E S \in SUBSET (Pubs \ stored) :
          /\ \A s \in Scopes : parentOf[s] \in S => MembersOf(s) \subseteq stored
          /\ stored' = stored \cup S
    /\ acked' = acked

Ack ==
    /\ \E p \in stored : acked' = acked \cup {p}
    /\ stored' = stored

Next == Store \/ Ack

Spec == Init /\ [][Next]_<<stored, acked>>
=============================================================================
