------------------------- MODULE MCSnapshotWorker -------------------------
(* Two snapshot jobs of one commit, which share their artifacts.            *)
EXTENDS SnapshotWorker

CONSTANTS s1, s2, t1, t2, k1

MCKeyOf == [j \in Jobs |-> k1]

\* The state after the first delivery of s2 was lost: a task received it and
\* died, and its visibility timeout passed.
LostInit ==
    /\ kind \in [Jobs -> Kinds]
    /\ at = [j \in Jobs |-> "visible"] /\ count = [j \in Jobs |-> IF j = s2 THEN 1 ELSE 0]
    /\ pc = [t \in Tasks |-> "idle"]
    /\ job = [t \in Tasks |-> AnyJob]
    /\ receipt = [t \in Tasks |-> 0]
    /\ handle = [t \in Tasks |-> "popped"]
    /\ put = [t \in Tasks |-> 0]
    /\ objects = {} /\ reports = {}
LostSpec == LostInit /\ [][Next]_vars /\ Fairness
============================================================================
