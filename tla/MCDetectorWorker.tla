------------------------- MODULE MCDetectorWorker -------------------------
(* Two jobs of two tenants, one or two workers, one finding a job.         *)
EXTENDS DetectorWorker, TLC

CONSTANTS j1, j2, w1, w2, orgA, orgB

MCOrgOf == (j1 :> orgA) @@ (j2 :> orgB)

\* The state after the first delivery of j2 was lost: a worker received it and
\* died, and its visibility timeout passed.
LostInit ==
    /\ msg = [j \in Jobs |-> [at |-> "visible", count |-> IF j = j2 THEN 1 ELSE 0]]
    /\ pc = [w \in Workers |-> "idle"]
    /\ job = [w \in Workers |-> AnyJob]
    /\ receipt = [w \in Workers |-> 0]
    /\ idx = [w \in Workers |-> 0]
    /\ session = [w \in Workers |-> FreshSession]
    /\ committed = {}
    /\ signed = {}
LostSpec == LostInit /\ [][Next]_vars /\ Fairness
============================================================================
