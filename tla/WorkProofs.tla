----------------------------- MODULE WorkProofs -----------------------------
(***************************************************************************)
(* Proofs of SqlJobStates (the callbacks that settle jobs) and WorkQueue    *)
(* (the messages between processes).                                       *)
(***************************************************************************)
EXTENDS SqlJobStates, WorkQueue, FiniteSetTheorems, TLAPS

\* Zenon proves what has no arithmetic; a step that needs SMT cites it.
USE Zenon

-----------------------------------------------------------------------------
(* The job table.                                                          *)

\* A transaction's decision is still right when it commits: the row it locked has
\* the status it read, and the row it inserts is not there.
Current ==
    \A c \in Calls :
        /\ pc[c] = "decide" => prior[c] = status[jobOf[c]] /\ prior[c] # "none"
        /\ pc[c] = "commit" =>
              \/ status[jobOf[c]] = "none"
              \/ status[jobOf[c]] = "running" /\ statusOf[c] \in Terminal
        /\ pc[c] # "end" => outcome[c] = "none"
        /\ pc[c] \notin {"verify", "end"} => c \in Verified

IInv == TypeOK /\ Current /\ TerminalReportsHold

\* The invariant holds in the empty table with no callback started.
LEMMA InitInv == Init => IInv
BY SqlJobStatesAssumption, SMT DEF Init, IInv, TypeOK, Current, TerminalReportsHold, Statuses, Terminal

\* Every statement of a transaction, and its rollback, keeps the invariant: only
\* the holder of the lock changes the row others have read under the lock.
LEMMA StepInv == IInv /\ [Next]_vars => IInv'
<1> SUFFICES ASSUME IInv, [Next]_vars PROVE IInv'
  OBVIOUS
<1> USE SqlJobStatesAssumption
<1> USE DEF IInv, TypeOK, Current, TerminalReportsHold, Statuses, Terminal, Finish, Released
<1>1. CASE UNCHANGED vars
  BY <1>1 DEF vars
<1>2. ASSUME NEW c \in Calls, Step(c) \/ Rollback(c) PROVE IInv'
  <2>1. CASE Verify(c)
    BY <2>1, SMT DEF Verify
  <2>2. CASE Reject(c)
    BY <2>2, SMT DEF Reject
  <2>3. CASE SelectRow(c)
    BY <2>3, SMT DEF SelectRow
  <2>4. CASE SelectNone(c)
    BY <2>4, SMT DEF SelectNone
  <2>5. CASE Insert(c)
    BY <2>5, SMT DEF Insert
  <2>6. CASE InsertRaises(c)
    BY <2>6, SMT DEF InsertRaises
  <2>7. CASE Duplicate(c)
    BY <2>7, SMT DEF Duplicate
  <2>8. CASE Update(c)
    BY <2>8, SMT DEF Update
  <2>9. CASE Conflict(c)
    BY <2>9, SMT DEF Conflict
  <2>10. CASE Commit(c)
    <3>1. TypeOK'
      BY <2>10, SMT DEF Commit
    <3>2. Current'
      BY <2>10, SMT DEF Commit
    <3>3. TerminalReportsHold'
      BY <2>10, SMT DEF Commit
    <3> QED BY <3>1, <3>2, <3>3
  <2>11. CASE Rollback(c)
    BY <2>11, SMT DEF Rollback
  <2> HIDE DEF IInv
  <2> QED BY <1>2, <2>1, <2>2, <2>3, <2>4, <2>5, <2>6, <2>7, <2>8, <2>9, <2>10, <2>11 DEF Step
<1> HIDE DEF IInv
<1> QED BY <1>1, <1>2 DEF Next

\* The inductive invariant holds throughout.
THEOREM InvariantHolds == Spec => []IInv
BY InitInv, StepInv, PTL DEF Spec

\* Columns and local state are well typed, and deciders hold their lock.
THEOREM TypesCorrect == Spec => []TypeOK
<1>1. IInv => TypeOK
  BY DEF IInv
<1> QED BY <1>1, InvariantHolds, PTL

\* A terminal report that was answered 204 is the status of its job for good.
THEOREM TerminalReportsAreFinal == Spec => []TerminalReportsHold
<1>1. IInv => TerminalReportsHold
  BY DEF IInv
<1> QED BY <1>1, InvariantHolds, PTL

\* Each statement is a step of the atomic store, or none: the commit of a
\* transaction is the moment of its transition.
LEMMA StepSimulates == IInv /\ [Next]_vars => [Store!Next]_(Store!vars)
<1> SUFFICES ASSUME IInv, [Next]_vars PROVE [Store!Next]_(Store!vars)
  OBVIOUS
<1> USE SqlJobStatesAssumption
<1>1. CASE UNCHANGED vars
  BY <1>1 DEF vars, Store!vars
<1>2. ASSUME NEW c \in Calls, Step(c) \/ Rollback(c) PROVE Store!Next \/ UNCHANGED Store!vars
  <2> USE DEF IInv, TypeOK, Current, Finish
  <2>0. statusOf[c] # "none" /\ "running" \notin Terminal
    BY SMT DEF Statuses, Terminal
  <2>1. CASE Verify(c) \/ SelectRow(c) \/ SelectNone(c) \/ Insert(c) \/ Update(c)
    BY <2>1 DEF Verify, SelectRow, SelectNone, Insert, Update, Store!vars
  <2>2. CASE Reject(c) \/ InsertRaises(c) \/ Rollback(c)
    <3>1. Store!Raise(c)
      BY <2>2 DEF Reject, InsertRaises, Rollback, Store!Raise
    <3> QED BY <3>1 DEF Store!Next
  <2>3. CASE Duplicate(c)
    <3>1. Store!Verdict(status[jobOf[c]], statusOf[c]) = "duplicate"
      <4>1. status[jobOf[c]] = statusOf[c]
        BY <2>3 DEF Duplicate
      <4> QED BY ONLY <4>1, <2>0, Zenon DEF Store!Verdict, Store!Terminal, Terminal
    <3>2. Store!Transition(c)
      BY <2>3, <3>1 DEF Duplicate, Store!Transition
    <3> QED BY <3>2 DEF Store!Next
  <2>4. CASE Conflict(c)
    <3>1. Store!Verdict(status[jobOf[c]], statusOf[c]) = "conflict"
      <4>1. /\ status[jobOf[c]] # "none" /\ status[jobOf[c]] # statusOf[c]
            /\ ~(status[jobOf[c]] = "running" /\ statusOf[c] \in Terminal)
        BY <2>4, SMT DEF Conflict
      <4> QED BY ONLY <4>1, Zenon DEF Store!Verdict, Store!Terminal, Terminal
    <3>2. Store!Transition(c)
      BY <2>4, <3>1 DEF Conflict, Store!Transition
    <3> QED BY <3>2 DEF Store!Next
  <2>5. CASE Commit(c)
    <3>1. Store!Verdict(status[jobOf[c]], statusOf[c]) = "applied"
      <4>1. \/ status[jobOf[c]] = "none"
            \/ status[jobOf[c]] = "running" /\ statusOf[c] \in Terminal
        BY <2>5 DEF Commit
      <4> QED BY ONLY <4>1, <2>0, Zenon DEF Store!Verdict, Store!Terminal, Terminal
    <3>2. Store!Transition(c)
      BY <2>5, <3>1 DEF Commit, Store!Transition
    <3> QED BY <3>2 DEF Store!Next
  <2> QED BY <1>2, <2>1, <2>2, <2>3, <2>4, <2>5 DEF Step
<1> QED BY <1>1, <1>2 DEF Next

\* SqlJobStateStore implements the state machine of the in-memory store.
THEOREM SqlImplementsJobStates == Spec => ImplementsJobStates
<1>1. Init => Store!Init
  BY DEF Init, Store!Init
<1> QED BY <1>1, StepSimulates, InvariantHolds, PTL DEF Spec, ImplementsJobStates, Store!Spec

-----------------------------------------------------------------------------
(* The work queue.                                                         *)

QueueTypes ==
    /\ ready \in Seq(Messages) /\ dlq \in Seq(Messages) /\ receipts \in Nat
    /\ DOMAIN inFlight \subseteq Nat /\ \A r \in DOMAIN inFlight : r < receipts /\ inFlight[r] \in Messages
    /\ count \in [Messages -> Nat] /\ sent \subseteq Messages /\ acked \subseteq Messages
    /\ stage \in [Consumers -> {"idle", "handle", "ack", "fail"}] /\ held \in [Consumers -> Nat]
    /\ processed \in [Consumers -> SUBSET KeySet] /\ effects \in [Consumers -> [KeySet -> Nat]]
    /\ lives \in [Consumers -> Nat] /\ abandoned \in Nat

\* A message is in one place, once.
Places ==
    /\ IsInjective(ready) /\ IsInjective(inFlight) /\ IsInjective(dlq)
    /\ sent = Range(ready) \cup Range(inFlight) \cup Range(dlq) \cup acked
    /\ Range(ready) \cap Range(inFlight) = {} /\ Range(ready) \cap Range(dlq) = {} /\ Range(ready) \cap acked = {}
    /\ Range(inFlight) \cap Range(dlq) = {} /\ Range(inFlight) \cap acked = {} /\ Range(dlq) \cap acked = {}

\* A message that can be delivered again has deliveries left.
Deliveries ==
    /\ \A m \in Messages : count[m] <= MaxReceive /\ (m \notin sent => count[m] = 0)
    /\ \A m \in Range(ready) : count[m] < MaxReceive
    /\ \A m \in Range(dlq) : count[m] = MaxReceive

\* A consumer holds a receipt of its own, and what it is about to do agrees with
\* the keys it knows.
HeldKey(c) == keyOf[inFlight[held[c]]]
Holding ==
    /\ \A c \in Consumers : stage[c] # "idle" => held[c] \in DOMAIN inFlight
    /\ \A c, d \in Consumers : c # d /\ stage[c] # "idle" /\ stage[d] # "idle" => held[c] # held[d]
    /\ \A c \in Consumers : stage[c] = "handle" => HeldKey(c) \notin processed[c]
    /\ \A c \in Consumers : stage[c] = "ack" => HeldKey(c) \in processed[c]

\* A key a consumer knows was handled, and one it does not know has a run left.
Handling ==
    /\ \A c \in Consumers, k \in KeySet :
        /\ effects[c][k] <= lives[c]
        /\ k \notin processed[c] => effects[c][k] < lives[c]
        /\ k \in processed[c] => effects[c][k] > 0
    /\ AckedWasHandled

QueueInv == QueueTypes /\ Places /\ Deliveries /\ Holding /\ Handling

\* Append puts one more item into a sequence.
LEMMA AppendItems ==
    ASSUME NEW S, NEW s \in Seq(S), NEW x \in S, IsInjective(s), x \notin Range(s)
    PROVE  Append(s, x) \in Seq(S) /\ IsInjective(Append(s, x)) /\ Range(Append(s, x)) = Range(s) \cup {x}
<1>1. Append(s, x) \in Seq(S) /\ Len(Append(s, x)) = Len(s) + 1 /\ Append(s, x)[Len(s) + 1] = x
      /\ \A i \in 1..Len(s) : Append(s, x)[i] = s[i]
  BY SMT
<1>2. DOMAIN s = 1..Len(s) /\ DOMAIN Append(s, x) = 1..(Len(s) + 1) /\ Len(s) \in Nat
  BY <1>1, SMT
<1>3. \A i \in 1..Len(s) : s[i] # x
  BY <1>2 DEF Range
<1>4. IsInjective(Append(s, x))
  BY <1>1, <1>2, <1>3, SMT DEF IsInjective
<1>5. ASSUME NEW y PROVE y \in Range(Append(s, x)) <=> y \in Range(s) \cup {x}
  <2>1. ASSUME y \in Range(Append(s, x)) PROVE y \in Range(s) \cup {x}
    <3>1. PICK i \in 1..(Len(s) + 1) : y = Append(s, x)[i]
      BY <2>1, <1>2 DEF Range
    <3>2. i \in 1..Len(s) \/ i = Len(s) + 1
      BY <1>2, <3>1, SMT
    <3> QED BY <1>1, <1>2, <3>1, <3>2 DEF Range
  <2>2. ASSUME y \in Range(s) PROVE y \in Range(Append(s, x))
    <3>1. PICK i \in 1..Len(s) : y = s[i]
      BY <2>2, <1>2 DEF Range
    <3>2. i \in 1..(Len(s) + 1) /\ y = Append(s, x)[i]
      BY <1>1, <1>2, <3>1, SMT
    <3> QED BY <1>2, <3>2 DEF Range
  <2>3. x \in Range(Append(s, x))
    <3>1. Len(s) + 1 \in 1..(Len(s) + 1)
      BY <1>2, SMT
    <3> QED BY <1>1, <1>2, <3>1 DEF Range
  <2> QED BY <2>1, <2>2, <2>3
<1> QED BY <1>1, <1>4, <1>5

\* Tail takes the head out of a sequence.
LEMMA TailItems ==
    ASSUME NEW S, NEW s \in Seq(S), s # <<>>, IsInjective(s)
    PROVE  /\ Head(s) \in S /\ Head(s) \in Range(s) /\ Tail(s) \in Seq(S) /\ IsInjective(Tail(s))
           /\ Range(Tail(s)) = Range(s) \ {Head(s)}
<1>1. Len(s) \in Nat \ {0} /\ Head(s) = s[1] /\ Tail(s) \in Seq(S) /\ Len(Tail(s)) = Len(s) - 1
      /\ \A i \in 1..(Len(s) - 1) : Tail(s)[i] = s[i + 1]
  BY SMT
<1>2. DOMAIN s = 1..Len(s) /\ DOMAIN Tail(s) = 1..(Len(s) - 1) /\ 1 \in 1..Len(s)
  BY <1>1, SMT
<1>3. Head(s) \in S /\ Head(s) \in Range(s)
  BY <1>1, <1>2, SMT DEF Range
<1>4. IsInjective(Tail(s))
  <2> SUFFICES ASSUME NEW i \in 1..(Len(s) - 1), NEW j \in 1..(Len(s) - 1), Tail(s)[i] = Tail(s)[j] PROVE i = j
    BY <1>2 DEF IsInjective
  <2>1. i + 1 \in 1..Len(s) /\ j + 1 \in 1..Len(s) /\ s[i + 1] = s[j + 1]
    BY <1>1, SMT
  <2>2. i + 1 = j + 1
    BY <1>2, <2>1 DEF IsInjective
  <2> QED BY <2>2, SMT
<1>5. ASSUME NEW y PROVE y \in Range(Tail(s)) <=> y \in Range(s) \ {Head(s)}
  <2>1. ASSUME y \in Range(Tail(s)) PROVE y \in Range(s) \ {Head(s)}
    <3>1. PICK i \in 1..(Len(s) - 1) : y = Tail(s)[i]
      BY <2>1, <1>2 DEF Range
    <3>2. i + 1 \in 1..Len(s) /\ y = s[i + 1] /\ i + 1 # 1
      BY <1>1, <3>1, SMT
    <3>3. y # s[1]
      BY <1>2, <3>2 DEF IsInjective
    <3> QED BY <1>1, <1>2, <3>2, <3>3 DEF Range
  <2>2. ASSUME y \in Range(s), y # Head(s) PROVE y \in Range(Tail(s))
    <3>1. PICK i \in 1..Len(s) : y = s[i]
      BY <2>2, <1>2 DEF Range
    <3>2. i # 1
      BY <1>1, <2>2, <3>1
    <3>3. i - 1 \in 1..(Len(s) - 1) /\ (i - 1) + 1 = i
      BY <1>1, <3>1, <3>2, SMT
    <3>4. y = Tail(s)[i - 1]
      BY <1>1, <3>1, <3>3
    <3> QED BY <1>2, <3>3, <3>4 DEF Range
  <2> QED BY <2>1, <2>2
<1> QED BY <1>1, <1>3, <1>4, <1>5

\* A new receipt, and one that is settled.
LEMMA AddItem ==
    ASSUME NEW f, NEW n, NEW m, n \notin DOMAIN f, IsInjective(f), m \notin Range(f)
    PROVE  LET g == [r \in DOMAIN f \cup {n} |-> IF r = n THEN m ELSE f[r]]
           IN  IsInjective(g) /\ Range(g) = Range(f) \cup {m}
BY DEF IsInjective, Range
LEMMA DropItem ==
    ASSUME NEW f, NEW n \in DOMAIN f, IsInjective(f)
    PROVE  LET g == [r \in DOMAIN f \ {n} |-> f[r]]
           IN  IsInjective(g) /\ Range(g) = Range(f) \ {f[n]} /\ f[n] \in Range(f)
BY DEF IsInjective, Range

\* An item that occurs once is counted once.
LEMMA OnceCount ==
    ASSUME NEW f, NEW m, IsInjective(f)
    PROVE  Cardinality({i \in DOMAIN f : f[i] = m}) = IF m \in Range(f) THEN 1 ELSE 0
<1>1. CASE m \notin Range(f)
  <2>1. {i \in DOMAIN f : f[i] = m} = {}
    BY <1>1 DEF Range
  <2> QED BY <1>1, <2>1, FS_EmptySet
<1>2. CASE m \in Range(f)
  <2>1. PICK n \in DOMAIN f : f[n] = m
    BY <1>2 DEF Range
  <2>2. {i \in DOMAIN f : f[i] = m} = {n}
    BY <2>1 DEF IsInjective
  <2> QED BY <1>2, <2>2, FS_Singleton
<1> QED BY <1>1, <1>2

\* The key of a message is one of the keys.
LEMMA KeyOfMessage == \A m \in Messages : keyOf[m] \in KeySet
BY WorkQueueAssumption DEF KeySet, Range

\* The queue starts empty, and no consumer holds anything.
LEMMA QueueInit == queueInit => QueueInv
<1> SUFFICES ASSUME queueInit PROVE QueueInv
  OBVIOUS
<1>1. Range(ready) = {} /\ Range(inFlight) = {} /\ Range(dlq) = {}
  BY SMT DEF queueInit, Range
<1>2. IsInjective(ready) /\ IsInjective(inFlight) /\ IsInjective(dlq)
  BY SMT DEF queueInit, IsInjective
<1>3. QueueTypes
  BY SMT DEF queueInit, QueueTypes
<1>4. Places
  BY <1>1, <1>2 DEF queueInit, Places
<1>5. Deliveries
  BY <1>1, WorkQueueAssumption, SMT DEF queueInit, Deliveries
<1>6. Holding /\ Handling
  BY SMT DEF queueInit, Holding, Handling, AckedWasHandled
<1> QED BY <1>3, <1>4, <1>5, <1>6 DEF QueueInv

LEMMA SendKeepsQueue ==
    ASSUME QueueInv, NEW m \in Messages, Send(m)
    PROVE  QueueInv'
<1>1. m \notin sent /\ sent' = sent \cup {m} /\ ready' = Append(ready, m)
      /\ UNCHANGED <<inFlight, dlq, receipts, count, acked, stage, held, processed, effects, lives, abandoned>>
  BY DEF Send, consumer
<1>2. m \notin Range(ready) /\ m \notin Range(inFlight) /\ m \notin Range(dlq) /\ m \notin acked
  BY <1>1 DEF QueueInv, Places
<1>3. ready' \in Seq(Messages) /\ IsInjective(ready') /\ Range(ready') = Range(ready) \cup {m}
  BY <1>1, <1>2, AppendItems, SMT DEF QueueInv, QueueTypes, Places
<1>4. QueueTypes'
  BY <1>1, <1>3 DEF QueueInv, QueueTypes
<1>5. Places'
  BY <1>1, <1>2, <1>3 DEF QueueInv, Places
<1>6. Deliveries'
  <2>1. Deliveries /\ MaxReceive \in Nat /\ MaxReceive > 0
    BY WorkQueueAssumption, SMT DEF QueueInv
  <2>2. m \in Messages /\ count[m] < MaxReceive
    BY <1>1, <2>1 DEF Deliveries
  <2> QED BY ONLY <1>1, <1>3, <2>1, <2>2, Zenon DEF Deliveries
<1>7. Holding' /\ Handling'
  BY <1>1 DEF QueueInv, Holding, HeldKey, Handling, AckedWasHandled
<1> QED BY <1>4, <1>5, <1>6, <1>7 DEF QueueInv

LEMMA ReceiveKeepsQueue ==
    ASSUME QueueInv, NEW c \in Consumers, Receive(c)
    PROVE  QueueInv'
<1> DEFINE m == Head(ready)
<1>1. /\ stage[c] = "idle" /\ ready # <<>> /\ ready' = Tail(ready) /\ receipts' = receipts + 1
      /\ count' = [count EXCEPT ![m] = @ + 1]
      /\ inFlight' = [r \in DOMAIN inFlight \cup {receipts} |-> IF r = receipts THEN m ELSE inFlight[r]]
      /\ stage' = [stage EXCEPT ![c] = IF keyOf[m] \in processed[c] THEN "ack" ELSE "handle"]
      /\ held' = [held EXCEPT ![c] = receipts]
      /\ UNCHANGED <<dlq, sent, acked, processed, effects, lives, abandoned>>
  BY DEF Receive, Known
<1>2. m \in Messages /\ m \in Range(ready) /\ ready' \in Seq(Messages) /\ IsInjective(ready')
      /\ Range(ready') = Range(ready) \ {m}
  BY <1>1, TailItems DEF QueueInv, QueueTypes, Places
<1> HIDE DEF m
<1>3. receipts \notin DOMAIN inFlight /\ receipts \in Nat
  BY SMT DEF QueueInv, QueueTypes
<1>4. IsInjective(inFlight') /\ Range(inFlight') = Range(inFlight) \cup {m}
  <2>1. m \notin Range(inFlight) /\ IsInjective(inFlight)
    BY <1>2 DEF QueueInv, Places
  <2>2. inFlight' = [r \in DOMAIN inFlight \cup {receipts} |-> IF r = receipts THEN m ELSE inFlight[r]]
    BY <1>1
  <2> QED BY ONLY <1>3, <2>1, <2>2, AddItem, SMTT(20)
<1>5. QueueTypes'
  <2> USE DEF QueueInv, QueueTypes
  <2>1. DOMAIN inFlight' = DOMAIN inFlight \cup {receipts} /\ inFlight'[receipts] = m
        /\ \A r \in DOMAIN inFlight : inFlight'[r] = inFlight[r]
    BY <1>1, <1>3
  <2>2. DOMAIN inFlight' \subseteq Nat /\ \A r \in DOMAIN inFlight' : r < receipts' /\ inFlight'[r] \in Messages
    BY <1>1, <1>2, <1>3, <2>1, SMT
  <2>3. count' \in [Messages -> Nat] /\ receipts' \in Nat
    BY <1>1, <1>2, SMTT(20)
  <2>4. stage' \in [Consumers -> {"idle", "handle", "ack", "fail"}] /\ held' \in [Consumers -> Nat]
    BY <1>1, <1>3
  <2> QED BY <1>1, <1>2, <2>2, <2>3, <2>4, SMTT(20)
<1>6. Places'
  BY <1>1, <1>2, <1>4, ZenonT(40) DEF QueueInv, Places
<1>7. Deliveries'
  <2>1. \A n \in Messages : n # m => count'[n] = count[n]
    BY <1>1 DEF QueueInv, QueueTypes
  <2>2. count'[m] = count[m] + 1 /\ count[m] < MaxReceive /\ count[m] \in Nat /\ m \in sent /\ m \notin Range(dlq)
    BY <1>1, <1>2 DEF QueueInv, QueueTypes, Places, Deliveries
  <2>3. MaxReceive \in Nat /\ Range(ready) \subseteq sent /\ Range(dlq) \subseteq sent /\ sent \subseteq Messages
    BY WorkQueueAssumption DEF QueueInv, Places, QueueTypes
  <2> QED BY <1>1, <1>2, <2>1, <2>2, <2>3, SMT DEF QueueInv, Deliveries
<1>8. Holding'
  <2>1. \A d \in Consumers : d # c => stage'[d] = stage[d] /\ held'[d] = held[d]
    BY <1>1 DEF QueueInv, QueueTypes
  <2>2. held'[c] = receipts /\ stage'[c] = IF keyOf[m] \in processed[c] THEN "ack" ELSE "handle"
    BY <1>1 DEF QueueInv, QueueTypes
  <2>3. receipts \in DOMAIN inFlight' /\ inFlight'[receipts] = m
        /\ \A r \in DOMAIN inFlight : r \in DOMAIN inFlight' /\ inFlight'[r] = inFlight[r]
    BY <1>1, <1>3
  <2>4. \A d \in Consumers : d # c /\ stage'[d] # "idle" =>
            held'[d] \in DOMAIN inFlight /\ held'[d] # receipts /\ HeldKey(d)' = HeldKey(d)
    BY <1>3, <2>1, <2>3, SMT DEF QueueInv, Holding, HeldKey
  <2>5. HeldKey(c)' = keyOf[m]
    BY <2>2, <2>3 DEF HeldKey
  <2>6. Holding /\ processed' = processed
    BY <1>1 DEF QueueInv
  <2> QED BY ONLY <2>1, <2>2, <2>3, <2>4, <2>5, <2>6 DEF Holding
<1>9. Handling'
  BY <1>1 DEF QueueInv, Handling, AckedWasHandled
<1> QED BY <1>5, <1>6, <1>7, <1>8, <1>9 DEF QueueInv

\* The handler returns, raises, or ends in a BaseException.
LEMMA HandlerKeepsQueue ==
    ASSUME QueueInv, NEW c \in Consumers, Handles(c) \/ Fails(c) \/ Abandon(c)
    PROVE  QueueInv'
<1>1. stage[c] = "handle" /\ UNCHANGED <<ready, inFlight, dlq, receipts, count, sent, acked, held>>
  BY DEF Handles, Fails, Abandon, queue
<1>2. Places' /\ Deliveries'
  <2>1. Places /\ Deliveries
    BY DEF QueueInv
  <2> QED BY ONLY <1>1, <2>1, Zenon DEF Places, Deliveries
<1>3. HeldKey(c) \in KeySet /\ HeldKey(c) \notin processed[c] /\ \A d \in Consumers : HeldKey(d)' = HeldKey(d)
  BY <1>1, KeyOfMessage DEF QueueInv, QueueTypes, Holding, HeldKey
<1>4. CASE Handles(c)
  <2> DEFINE k == HeldKey(c)
  <2>1. /\ stage' = [stage EXCEPT ![c] = "ack"] /\ effects' = [effects EXCEPT ![c][k] = @ + 1]
        /\ processed' = [processed EXCEPT ![c] = @ \cup {k}] /\ UNCHANGED <<lives, abandoned>>
    BY <1>4 DEF Handles, Goto, HeldKey
  <2>2. k \in KeySet /\ k \notin processed[c]
    BY <1>3
  <2> HIDE DEF k
  <2>3. QueueTypes'
    BY <1>1, <2>1, <2>2, SMT DEF QueueInv, QueueTypes
  <2>4. Holding'
    BY <1>1, <1>3, <2>1, <2>2 DEF QueueInv, QueueTypes, Holding, k
  <2>5. effects'[c][k] = effects[c][k] + 1 /\ effects[c][k] \in Nat
        /\ \A d \in Consumers, l \in KeySet : d # c \/ l # k => effects'[d][l] = effects[d][l]
    BY <2>1, <2>2, SMT DEF QueueInv, QueueTypes
  <2>6. Handling'
    <3>1. \A d \in Consumers, l \in KeySet :
            /\ effects'[d][l] <= lives'[d]
            /\ l \notin processed'[d] => effects'[d][l] < lives'[d]
            /\ l \in processed'[d] => effects'[d][l] > 0
      BY <2>1, <2>2, <2>5, SMT DEF QueueInv, QueueTypes, Handling
    <3>2. AckedWasHandled'
      <4>1. ASSUME NEW n \in acked PROVE \E d \in Consumers : effects'[d][keyOf[n]] > 0
        <5>1. keyOf[n] \in KeySet
          BY KeyOfMessage DEF QueueInv, QueueTypes
        <5>2. PICK d \in Consumers : effects[d][keyOf[n]] > 0
          BY DEF QueueInv, Handling, AckedWasHandled
        <5>3. effects'[d][keyOf[n]] > 0
          BY <2>5, <5>1, <5>2, SMT
        <5> QED BY <5>3
      <4> QED BY <1>1, <4>1 DEF AckedWasHandled
    <3> QED BY <3>1, <3>2 DEF Handling
  <2> QED BY <1>2, <2>3, <2>4, <2>6 DEF QueueInv
<1>5. CASE Fails(c)
  <2>1. stage' = [stage EXCEPT ![c] = "fail"] /\ UNCHANGED <<effects, processed, lives, abandoned>>
    BY <1>5 DEF Fails, Goto
  <2>2. QueueTypes' /\ Holding'
    BY <1>1, <1>3, <2>1 DEF QueueInv, QueueTypes, Holding
  <2>3. Handling'
    BY <1>1, <2>1 DEF QueueInv, Handling, AckedWasHandled
  <2> QED BY <1>2, <2>2, <2>3 DEF QueueInv
<1>6. CASE Abandon(c)
  <2>1. stage' = [stage EXCEPT ![c] = "idle"] /\ abandoned' = abandoned + 1 /\ UNCHANGED effects
    BY <1>6 DEF Abandon, Goto
  <2>2. \/ UNCHANGED <<processed, lives>>
        \/ processed' = [processed EXCEPT ![c] = {}] /\ lives' = [lives EXCEPT ![c] = @ + 1]
    BY <1>6 DEF Abandon
  <2>3. QueueTypes'
    <3>1. processed' \in [Consumers -> SUBSET KeySet]
      BY <2>2 DEF QueueInv, QueueTypes
    <3>2. lives' \in [Consumers -> Nat]
      <4>1. lives \in [Consumers -> Nat] /\ (lives' = lives \/ lives' = [lives EXCEPT ![c] = @ + 1])
        BY <2>2 DEF QueueInv, QueueTypes
      <4> QED BY ONLY <4>1
    <3>3. stage' \in [Consumers -> {"idle", "handle", "ack", "fail"}] /\ abandoned' \in Nat
      BY <2>1, SMT DEF QueueInv, QueueTypes
    <3> QED BY <1>1, <2>1, <3>1, <3>2, <3>3 DEF QueueInv, QueueTypes
  <2>4. Holding'
    BY <1>1, <1>3, <2>1, <2>2, SMT DEF QueueInv, QueueTypes, Holding
  <2>5. Handling'
    <3>1. \A d \in Consumers : processed'[d] \subseteq processed[d] /\ lives'[d] >= lives[d]
                              /\ (processed'[d] = processed[d] \/ lives'[d] = lives[d] + 1)
                              /\ lives[d] \in Nat /\ lives'[d] \in Nat
      <4>1. lives \in [Consumers -> Nat] /\ processed \in [Consumers -> SUBSET KeySet]
        BY DEF QueueInv, QueueTypes
      <4>2. CASE UNCHANGED <<processed, lives>>
        BY ONLY <4>1, <4>2
      <4>3. CASE processed' = [processed EXCEPT ![c] = {}] /\ lives' = [lives EXCEPT ![c] = @ + 1]
        BY ONLY <4>1, <4>3
      <4> QED BY <2>2, <4>2, <4>3
    <3>2. \A d \in Consumers, k \in KeySet :
            /\ effects[d][k] \in Nat /\ effects[d][k] <= lives[d]
            /\ k \notin processed[d] => effects[d][k] < lives[d]
            /\ k \in processed[d] => effects[d][k] > 0
      BY SMT DEF QueueInv, QueueTypes, Handling
    <3>3. \A d \in Consumers, k \in KeySet :
            /\ effects[d][k] <= lives'[d]
            /\ k \notin processed'[d] => effects[d][k] < lives'[d]
            /\ k \in processed'[d] => effects[d][k] > 0
      <4> SUFFICES ASSUME NEW d \in Consumers, NEW k \in KeySet
                   PROVE  /\ effects[d][k] <= lives'[d]
                          /\ k \notin processed'[d] => effects[d][k] < lives'[d]
                          /\ k \in processed'[d] => effects[d][k] > 0
        OBVIOUS
      <4>1. lives[d] \in Nat /\ lives'[d] \in Nat /\ lives'[d] >= lives[d]
            /\ (processed'[d] = processed[d] \/ lives'[d] = lives[d] + 1)
            /\ (k \in processed'[d] => k \in processed[d])
        BY <3>1
      <4>2. /\ effects[d][k] \in Nat /\ effects[d][k] <= lives[d]
            /\ k \notin processed[d] => effects[d][k] < lives[d]
            /\ k \in processed[d] => effects[d][k] > 0
        BY <3>2
      <4> QED BY ONLY <4>1, <4>2
    <3> QED BY <1>1, <2>1, <3>3 DEF QueueInv, Handling, AckedWasHandled
  <2> QED BY <1>2, <2>3, <2>4, <2>5 DEF QueueInv
<1> QED BY <1>4, <1>5, <1>6

\* A settled receipt leaves every other consumer's receipt where it was.
LEMMA SettledKeepsHolding ==
    ASSUME QueueInv, NEW c \in Consumers, stage[c] # "idle", stage' = [stage EXCEPT ![c] = "idle"],
           inFlight' = [r \in DOMAIN inFlight \ {held[c]} |-> inFlight[r]], UNCHANGED <<held, processed>>
    PROVE  /\ Holding' /\ inFlight[held[c]] \in Messages /\ IsInjective(inFlight')
           /\ Range(inFlight') = Range(inFlight) \ {inFlight[held[c]]} /\ inFlight[held[c]] \in Range(inFlight)
<1>1. held[c] \in DOMAIN inFlight
  BY DEF QueueInv, Holding
<1>2. stage'[c] = "idle" /\ \A d \in Consumers : d # c => stage'[d] = stage[d]
  BY DEF QueueInv, QueueTypes
<1>3. \A d \in Consumers : stage'[d] # "idle" =>
        d # c /\ stage'[d] = stage[d] /\ held[d] \in DOMAIN inFlight' /\ HeldKey(d)' = HeldKey(d)
  BY <1>2, SMT DEF QueueInv, Holding, HeldKey
<1>4. Holding'
  BY <1>3 DEF QueueInv, Holding
<1>5. /\ IsInjective(inFlight') /\ Range(inFlight') = Range(inFlight) \ {inFlight[held[c]]}
      /\ inFlight[held[c]] \in Range(inFlight)
  BY <1>1, DropItem DEF QueueInv, Places
<1> QED BY <1>1, <1>4, <1>5 DEF QueueInv, QueueTypes

LEMMA AckKeepsQueue ==
    ASSUME QueueInv, NEW c \in Consumers, Ack(c)
    PROVE  QueueInv'
<1> DEFINE m == inFlight[held[c]]
<1>1. /\ stage[c] = "ack" /\ stage' = [stage EXCEPT ![c] = "idle"] /\ acked' = acked \cup {m}
      /\ inFlight' = [r \in DOMAIN inFlight \ {held[c]} |-> inFlight[r]]
      /\ UNCHANGED <<ready, dlq, receipts, count, sent, held, processed, effects, lives, abandoned>>
  BY DEF Ack, Goto, Removed
<1>2. /\ Holding' /\ m \in Messages /\ IsInjective(inFlight') /\ Range(inFlight') = Range(inFlight) \ {m}
      /\ m \in Range(inFlight)
  BY <1>1, SettledKeepsHolding
<1>3. QueueTypes'
  BY <1>1, <1>2 DEF QueueInv, QueueTypes
<1>4. keyOf[m] \in processed[c] /\ keyOf[m] \in KeySet
  BY <1>1, <1>2, KeyOfMessage DEF QueueInv, Holding, HeldKey
<1> HIDE DEF m
<1>5. Places'
  BY <1>1, <1>2 DEF QueueInv, Places
<1>6. Deliveries'
  BY <1>1 DEF QueueInv, Deliveries
<1>7. Handling'
  BY <1>1, <1>4 DEF QueueInv, Handling, AckedWasHandled
<1> QED BY <1>2, <1>3, <1>5, <1>6, <1>7 DEF QueueInv

LEMMA FailKeepsQueue ==
    ASSUME QueueInv, NEW c \in Consumers, Fail(c)
    PROVE  QueueInv'
<1> DEFINE m == inFlight[held[c]]
<1>1. /\ stage[c] = "fail" /\ stage' = [stage EXCEPT ![c] = "idle"]
      /\ inFlight' = [r \in DOMAIN inFlight \ {held[c]} |-> inFlight[r]]
      /\ UNCHANGED <<receipts, count, sent, acked, held, processed, effects, lives, abandoned>>
  BY DEF Fail, Goto, Removed
<1>2. \/ count[m] >= MaxReceive /\ dlq' = Append(dlq, m) /\ ready' = ready
      \/ ~(count[m] >= MaxReceive) /\ ready' = Append(ready, m) /\ dlq' = dlq
  BY DEF Fail, Exhausted
<1>3. /\ Holding' /\ m \in Messages /\ IsInjective(inFlight') /\ Range(inFlight') = Range(inFlight) \ {m}
      /\ m \in Range(inFlight)
  BY <1>1, SettledKeepsHolding
<1> HIDE DEF m
<1>4. m \notin Range(ready) /\ m \notin Range(dlq) /\ m \notin acked /\ m \in sent
  BY <1>3 DEF QueueInv, Places
<1>5. Handling'
  BY <1>1 DEF QueueInv, Handling, AckedWasHandled
<1>6. count[m] \in Nat /\ count[m] <= MaxReceive /\ MaxReceive \in Nat
  BY <1>3, WorkQueueAssumption DEF QueueInv, QueueTypes, Deliveries
<1>7. CASE count[m] >= MaxReceive /\ dlq' = Append(dlq, m) /\ ready' = ready
  <2>1. dlq' \in Seq(Messages) /\ IsInjective(dlq') /\ Range(dlq') = Range(dlq) \cup {m}
    <3>1. dlq \in Seq(Messages) /\ IsInjective(dlq)
      BY DEF QueueInv, QueueTypes, Places
    <3> QED BY ONLY <1>3, <1>4, <1>7, <3>1, AppendItems
  <2>2. QueueTypes'
    BY <1>1, <1>3, <1>7, <2>1 DEF QueueInv, QueueTypes
  <2>3. Places'
    BY <1>1, <1>3, <1>4, <1>7, <2>1, ZenonT(40) DEF QueueInv, Places
  <2>4. Deliveries'
    <3>1. Deliveries /\ count' = count /\ sent' = sent
      BY <1>1 DEF QueueInv
    <3> QED BY ONLY <1>6, <1>7, <2>1, <3>1 DEF Deliveries
  <2> QED BY <1>3, <1>5, <2>2, <2>3, <2>4 DEF QueueInv
<1>8. CASE ~(count[m] >= MaxReceive) /\ ready' = Append(ready, m) /\ dlq' = dlq
  <2>1. ready' \in Seq(Messages) /\ IsInjective(ready') /\ Range(ready') = Range(ready) \cup {m}
    <3>1. ready \in Seq(Messages) /\ IsInjective(ready)
      BY DEF QueueInv, QueueTypes, Places
    <3> QED BY ONLY <1>3, <1>4, <1>8, <3>1, AppendItems
  <2>2. QueueTypes'
    BY <1>1, <1>3, <1>8, <2>1 DEF QueueInv, QueueTypes
  <2>3. Places'
    BY <1>1, <1>3, <1>4, <1>8, <2>1, ZenonT(40) DEF QueueInv, Places
  <2>4. Deliveries'
    <3>1. Deliveries /\ count' = count /\ sent' = sent
      BY <1>1 DEF QueueInv
    <3> QED BY ONLY <1>6, <1>8, <2>1, <3>1 DEF Deliveries
  <2> QED BY <1>3, <1>5, <2>2, <2>3, <2>4 DEF QueueInv
<1> QED BY <1>2, <1>7, <1>8

\* What the invariant says of the messages.
LEMMA QueueIsKept ==
    ASSUME QueueInv
    PROVE  Conserved /\ AckedWasHandled /\ DeadLettersAreExhausted /\ OncePerConsumer
<1>1. ASSUME NEW m \in Messages PROVE Copies(m) = IF m \in sent THEN 1 ELSE 0
  <2>1. /\ Cardinality({i \in DOMAIN ready : ready[i] = m}) = IF m \in Range(ready) THEN 1 ELSE 0
        /\ Cardinality({r \in DOMAIN inFlight : inFlight[r] = m}) = IF m \in Range(inFlight) THEN 1 ELSE 0
        /\ Cardinality({i \in DOMAIN dlq : dlq[i] = m}) = IF m \in Range(dlq) THEN 1 ELSE 0
    BY OnceCount DEF QueueInv, Places
  <2>2. /\ m \in sent <=> m \in Range(ready) \/ m \in Range(inFlight) \/ m \in Range(dlq) \/ m \in acked
        /\ ~(m \in Range(ready) /\ m \in Range(inFlight)) /\ ~(m \in Range(ready) /\ m \in Range(dlq))
        /\ ~(m \in Range(ready) /\ m \in acked) /\ ~(m \in Range(inFlight) /\ m \in Range(dlq))
        /\ ~(m \in Range(inFlight) /\ m \in acked) /\ ~(m \in Range(dlq) /\ m \in acked)
    BY DEF QueueInv, Places
  <2> QED BY ONLY <2>1, <2>2 DEF Copies
<1> QED BY <1>1 DEF QueueInv, Deliveries, Holding, Handling, Conserved, DeadLettersAreExhausted,
          OncePerConsumer

\* Every step keeps the queue's invariant.
LEMMA QueueStep == QueueInv /\ [queueNext]_queueVars => QueueInv'
<1> SUFFICES ASSUME QueueInv, [queueNext]_queueVars PROVE QueueInv'
  OBVIOUS
<1>1. CASE UNCHANGED queueVars
  <2> USE <1>1 DEF queueVars, queue, consumer
  <2>1. QueueTypes' = QueueTypes
    BY DEF QueueTypes
  <2>2. Places' = Places
    <3>1. ready' = ready /\ inFlight' = inFlight /\ dlq' = dlq /\ sent' = sent /\ acked' = acked
      OBVIOUS
    <3> QED BY ONLY <3>1, Zenon DEF Places
  <2>3. Deliveries' = Deliveries
    BY DEF Deliveries, Range
  <2>4. Holding' = Holding /\ Handling' = Handling
    BY DEF Holding, HeldKey, Handling, AckedWasHandled
  <2> QED BY <2>1, <2>2, <2>3, <2>4 DEF QueueInv
<1>2. CASE queueNext
  BY <1>2, SendKeepsQueue, ReceiveKeepsQueue, HandlerKeepsQueue, AckKeepsQueue, FailKeepsQueue
     DEF queueNext, Poll
<1> QED BY <1>1, <1>2

\* For any messages, consumers and limits: no message is lost, doubled, acked
\* unhandled or delivered too often, and no consumer handles a key twice.
THEOREM QueueKeepsMessages == queueSpec => []MessagesAreKept
<1>1. queueInit => QueueInv
  BY QueueInit
<1>2. QueueInv /\ [queueNext]_queueVars => QueueInv'
  BY QueueStep
<1>3. QueueInv => MessagesAreKept
  BY QueueIsKept DEF MessagesAreKept
<1> QED BY <1>1, <1>2, <1>3, PTL DEF queueSpec
=============================================================================
