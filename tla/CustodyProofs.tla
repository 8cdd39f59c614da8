---------------------------- MODULE CustodyProofs ----------------------------
(***************************************************************************)
(* Proofs about evidence that is read while others write it: the signed    *)
(* provenance chain, for any number of records, calls and oracle runs, and *)
(* the history of an attempt, for every set of publications and every      *)
(* budget that covers its reserve.                                         *)
(***************************************************************************)
EXTENDS ProvenanceChain, HistoryReader, FiniteSetTheorems, TLAPS

\* Zenon proves what has no arithmetic; a step that needs SMT cites it.
USE Zenon

-----------------------------------------------------------------------------
(* Proof of OneWay, for any number of records, calls and oracle runs.      *)

\* A stored row has an id that was drawn, so a new row never takes its place.
DrawnIds == DOMAIN rows \subseteq DOMAIN signed /\ damage \in Nat

\* What OneWay says of one step.
Kept ==
    \A id \in DOMAIN rows :
        /\ id \in DOMAIN rows' /\ rows'[id] = rows[id]
        /\ EffectiveOrigin(id) = ORACLE => EffectiveOrigin(id)' = ORACLE
        /\ ExportAuditorRecord(id).history \subseteq ExportAuditorRecord(id)'.history


\* Storing a row under a fresh id leaves every other row as it is.
LEMMA StoreKeeps ==
    ASSUME NEW id \in Fresh, NEW r, DrawnIds, Store(id, r)
    PROVE  /\ DOMAIN rows' = DOMAIN rows \cup {id} /\ DOMAIN signed' = DOMAIN signed \cup {id}
           /\ \A i \in DOMAIN rows : rows'[i] = rows[i]
BY DEF Fresh, DrawnIds, Store

\* Where every row stays, so do the findings' partitions and the histories.
LEMMA RowsKept ==
    ASSUME DOMAIN rows \subseteq DOMAIN rows', \A i \in DOMAIN rows : rows'[i] = rows[i]
    PROVE  Kept
<1> SUFFICES ASSUME NEW id \in DOMAIN rows
             PROVE  /\ EffectiveOrigin(id) = ORACLE => EffectiveOrigin(id)' = ORACLE
                    /\ ExportAuditorRecord(id).history \subseteq ExportAuditorRecord(id)'.history
  BY DEF Kept
<1>1. \A c \in Children(id) : c \in Children(id)' /\ rows'[c] = rows[c]
  BY DEF Children
<1>2. AlreadyRepartitioned(id) => AlreadyRepartitioned(id)'
  BY <1>1 DEF AlreadyRepartitioned
<1>3. EffectiveOrigin(id) = ORACLE => EffectiveOrigin(id)' = ORACLE
  BY <1>2 DEF EffectiveOrigin
<1>4. ExportAuditorRecord(id).history \subseteq ExportAuditorRecord(id)'.history
  BY <1>1 DEF ExportAuditorRecord
<1> QED BY <1>3, <1>4

\* No step but a storage fault changes a row.
LEMMA StepKeeps ==
    ASSUME DrawnIds, [provNext]_provVars
    PROVE  DrawnIds' /\ (damage' = 0 => Kept)
<1>1. CASE UNCHANGED <<rows, signed, damage>>
  BY <1>1, RowsKept DEF DrawnIds
<1>2. ASSUME NEW id \in Fresh, NEW r, Store(id, r), UNCHANGED damage
      PROVE  DrawnIds' /\ Kept
  <2>1. DOMAIN rows' = DOMAIN rows \cup {id} /\ DOMAIN signed' = DOMAIN signed \cup {id}
        /\ \A i \in DOMAIN rows : rows'[i] = rows[i]
    BY <1>2, StoreKeeps
  <2> QED BY <2>1, <1>2, RowsKept DEF DrawnIds
<1>3. ASSUME NEW r \in Inputs, SignProvenance(r) PROVE DrawnIds' /\ Kept
  BY <1>2, <1>3 DEF SignProvenance
<1>4. ASSUME NEW c \in Calls, AppendRepartitionEvent(c) PROVE DrawnIds' /\ Kept
  BY <1>2, <1>4 DEF AppendRepartitionEvent
<1>5. ASSUME Damage PROVE DrawnIds' /\ damage' # 0
  <2>1. DOMAIN rows' \subseteq DOMAIN rows
    BY <1>5 DEF Damage, AlterRow, LoseRow
  <2> QED BY <1>5, <2>1, SMT DEF Damage, DrawnIds
<1>6. ASSUME NEW c \in Calls,
             Deliver(c) \/ QueryCandidates(c) \/ CheckCandidate(c) \/ Return(c) \/ Abandon(c)
      PROVE  UNCHANGED <<rows, signed, damage>>
  BY <1>6 DEF Deliver, QueryCandidates, CheckCandidate, Return, Abandon
<1>7. ASSUME NEW run \in RunIds, NEW s \in Snapshots, NEW verdict, NEW sites, RecordOracleRun(run, s, verdict, sites)
      PROVE  UNCHANGED <<rows, signed, damage>>
  BY <1>7 DEF RecordOracleRun
<1>8. ASSUME NEW run \in RunIds, NEW s \in Snapshots, RecordSafeDefaultAgreement(run, s)
      PROVE  UNCHANGED <<rows, signed, damage>>
  BY <1>7, <1>8 DEF RecordSafeDefaultAgreement
<1>9. RotateKey => UNCHANGED <<rows, signed, damage>>
  BY DEF RotateKey
<1>10. UNCHANGED provVars => UNCHANGED <<rows, signed, damage>>
  BY DEF provVars
<1> QED BY <1>1, <1>3, <1>4, <1>5, <1>6, <1>7, <1>8, <1>9, <1>10 DEF provNext

\* The provenance chain only grows: whatever calls run, repeat, overlap or stop
\* half-way, no row changes and no finding returns to the core partition.
THEOREM ChainIsOneWay == provSpec => OneWay
<1>1. provInit => DrawnIds
  BY SMT DEF provInit, DrawnIds
<1>2. DrawnIds /\ [provNext]_provVars => DrawnIds' /\ (damage' = 0 => Kept)
  BY StepKeeps
<1>3. DrawnIds /\ [provNext]_provVars => [damage' = 0 => Kept]_provVars
  BY <1>2
<1> QED BY <1>1, <1>2, <1>3, PTL DEF provSpec, OneWay, Kept

-----------------------------------------------------------------------------
(* Proof of FlipsAreSound.  Each call keeps books: what it has left to do, *)
(* what it has done, and with whom it overlapped.                          *)

CallFields == {"pc", "snapshot", "run", "candidates", "left", "flips", "affected", "already"}
Active(c) == call[c].pc \in {"query", "check", "append"}

\* The store while it is sound: every id drawn has its row, and the history
\* names re-partition rows and the calls that made them.
Chain ==
    /\ DOMAIN rows \subseteq Ids /\ IsFiniteSet(DOMAIN rows) /\ DOMAIN signed = DOMAIN rows
    /\ \A i \in DOMAIN rows : DOMAIN rows[i].record = RecordFields
    /\ \A i \in DOMAIN flipped : i \in DOMAIN rows /\ rows[i].record.type = "repartition" /\ flipped[i] \in Calls
    /\ DOMAIN call = Calls

\* What one call has done: the candidates it is past are flipped, and counted.
Account(c) ==
    /\ DOMAIN call[c] = CallFields
    /\ call[c].pc \in {"idle", "query"} =>
        call[c].left = {} /\ call[c].flips = {} /\ call[c].affected = 0 /\ call[c].already = 0
    /\ call[c].pc \in {"check", "append", "returned"} =>
        /\ call[c].left \subseteq call[c].candidates /\ call[c].candidates \subseteq DOMAIN rows
        /\ call[c].flips \subseteq DOMAIN rows
        /\ call[c].affected \in Nat /\ call[c].already \in Nat
        /\ call[c].affected + call[c].already + Cardinality(call[c].left) = Cardinality(call[c].candidates)
        /\ call[c].affected = Cardinality(call[c].flips)
        /\ \A id \in call[c].candidates \ call[c].left : AlreadyRepartitioned(id)
    /\ call[c].pc = "returned" => call[c].left = {}

\* Calls that are active at the same time are recorded as overlapping.
Meetings == \A c, d \in Calls : c # d /\ Active(c) /\ Active(d) => {c, d} \in overlap

\* Between the check and the append of a call, only calls that overlap it can
\* flip its candidate.
Windows ==
    \A c \in Calls : \A id \in call[c].left : \A j \in DOMAIN flipped :
        /\ call[c].pc = "append" /\ \A k \in call[c].left : id <= k
        /\ rows[j].record.parent = id
        => {c, flipped[j]} \in overlap

Books == Chain /\ (\A c \in Calls : Account(c)) /\ Meetings /\ Windows /\ FlipsOverlap

\* The inductive invariant: the books are right until storage has a fault.
BooksKept == DrawnIds /\ (damage = 0 => Books)

\* A finding that was flipped stays flipped where no row changes.
LEMMA StaysFlipped ==
    ASSUME NEW id, DOMAIN rows \subseteq DOMAIN rows', \A i \in DOMAIN rows : rows'[i] = rows[i],
           AlreadyRepartitioned(id)
    PROVE  AlreadyRepartitioned(id)'
BY DEF AlreadyRepartitioned, Children

\* A call that does nothing keeps its account, whatever rows are added.
LEMMA AccountStands ==
    ASSUME NEW c \in Calls, Account(c), call'[c] = call[c],
           DOMAIN rows \subseteq DOMAIN rows', \A i \in DOMAIN rows : rows'[i] = rows[i]
    PROVE  Account(c)'
<1>1. \A id : AlreadyRepartitioned(id) => AlreadyRepartitioned(id)'
  BY StaysFlipped
<1> QED BY <1>1 DEF Account

\* A new row under a fresh id keeps the chain in order.
LEMMA ChainGrows ==
    ASSUME DrawnIds, Chain, NEW id \in Fresh, NEW r, DOMAIN r = RecordFields, Store(id, r), DOMAIN call' = Calls,
           \A i \in DOMAIN flipped' :
               flipped'[i] \in Calls /\ (i \in DOMAIN flipped \/ (i = id /\ r.type = "repartition"))
    PROVE  Chain'
<1>1. DOMAIN rows' = DOMAIN rows \cup {id} /\ DOMAIN signed' = DOMAIN signed \cup {id}
      /\ (\A i \in DOMAIN rows : rows'[i] = rows[i]) /\ rows'[id].record = r
  BY DEF Fresh, DrawnIds, Store, Sign
<1>2. IsFiniteSet(DOMAIN rows')
  BY <1>1, FS_AddElement, SMT DEF Chain
<1>3. id \in Ids
  BY DEF Fresh
<1> QED BY <1>1, <1>2, <1>3 DEF Chain

\* A scan that stores a record.
LEMMA SignKeepsBooks ==
    ASSUME DrawnIds, Books, NEW r \in Inputs, SignProvenance(r)
    PROVE  Books'
<1> PICK id \in Fresh : Store(id, r)
  BY DEF SignProvenance
<1> UNCHANGED <<call, flipped, overlap, damage>>
  BY DEF SignProvenance
<1>1. DOMAIN rows \subseteq DOMAIN rows' /\ \A i \in DOMAIN rows : rows'[i] = rows[i]
  BY StoreKeeps
<1>2. Chain'
  BY ChainGrows, ProvenanceAssumption DEF Books, Chain
<1>3. \A c \in Calls : Account(c)'
  BY <1>1, AccountStands DEF Books
<1>4. Meetings'
  BY DEF Books, Meetings, Active
<1>5. Windows' /\ FlipsOverlap'
  BY <1>1, SMT DEF Books, Windows, FlipsOverlap, Chain
<1> QED BY <1>2, <1>3, <1>4, <1>5 DEF Books

\* The steps of a call that store nothing.
LEMMA CallKeepsBooks ==
    ASSUME Books, damage = 0, NEW c \in Calls, UNCHANGED <<rows, signed, flipped>>,
           DOMAIN call' = Calls, \A d \in Calls \ {c} : call'[d] = call[d], Account(c)',
           overlap \subseteq overlap',
           Active(c)' => Active(c) \/ \A d \in Calls \ {c} : Active(d) => {c, d} \in overlap',
           call'[c].pc = "append" => \A id \in call'[c].left :
               (\A k \in call'[c].left : id <= k) => ~AlreadyRepartitioned(id)
    PROVE  Books'
<1>1. Chain'
  BY DEF Books, Chain
<1>2. \A d \in Calls : Account(d)'
  <2> SUFFICES ASSUME NEW d \in Calls, d # c PROVE Account(d)'
    OBVIOUS
  <2> QED BY AccountStands DEF Books
<1>3. Meetings'
  <2> SUFFICES ASSUME NEW a \in Calls, NEW b \in Calls, a # b, Active(a)', Active(b)'
               PROVE  {a, b} \in overlap'
    BY DEF Meetings
  <2>1. CASE a # c /\ b # c
    BY <2>1 DEF Books, Meetings, Active
  <2>2. CASE a = c
    BY <2>2 DEF Books, Meetings, Active
  <2>3. CASE b = c
    <3>1. {c, a} = {a, c}
      OBVIOUS
    <3> QED BY <2>3, <3>1 DEF Books, Meetings, Active
  <2> QED BY <2>1, <2>2, <2>3
<1>4. Windows'
  <2> SUFFICES ASSUME NEW d \in Calls, NEW id \in call'[d].left, NEW j \in DOMAIN flipped,
                      call'[d].pc = "append", \A k \in call'[d].left : id <= k, rows[j].record.parent = id
               PROVE  {d, flipped[j]} \in overlap'
    BY DEF Windows
  <2>1. CASE d = c
    <3>1. j \in DOMAIN rows /\ rows[j].record.type = "repartition"
      BY DEF Books, Chain
    <3>2. AlreadyRepartitioned(id)
      BY <3>1 DEF AlreadyRepartitioned, Children
    <3> QED BY <2>1, <3>2
  <2>2. CASE d # c
    BY <2>2 DEF Books, Windows
  <2> QED BY <2>1, <2>2
<1>5. FlipsOverlap'
  BY DEF Books, FlipsOverlap
<1> QED BY <1>1, <1>2, <1>3, <1>4, <1>5 DEF Books

LEMMA DeliverKeepsBooks ==
    ASSUME Books, damage = 0, NEW c \in Calls, Deliver(c)
    PROVE  Books'
<1> PICK run \in DOMAIN oracle :
        call' = [call EXCEPT ![c] = [Idle EXCEPT !.pc = "query", !.run = run, !.snapshot = oracle[run].snapshot]]
  BY DEF Deliver
<1> DEFINE new == [Idle EXCEPT !.pc = "query", !.run = run, !.snapshot = oracle[run].snapshot]
<1>1. DOMAIN call' = Calls /\ (\A d \in Calls \ {c} : call'[d] = call[d]) /\ call'[c] = new
  BY DEF Books, Chain
<1>2. DOMAIN new = CallFields /\ new.pc = "query" /\ new.left = {} /\ new.flips = {}
      /\ new.affected = 0 /\ new.already = 0
  BY DEF Idle, CallFields
<1>3. Account(c)'
  BY <1>1, <1>2 DEF Account
<1>4. overlap \subseteq overlap' /\ \A d \in Calls \ {c} : Active(d) => {c, d} \in overlap'
  BY DEF Deliver, Active
<1>5. call'[c].pc # "append"
  BY <1>1, <1>2
<1>6. UNCHANGED <<rows, signed, flipped>>
  BY DEF Deliver
<1> QED BY <1>1, <1>3, <1>4, <1>5, <1>6, CallKeepsBooks

LEMMA QueryKeepsBooks ==
    ASSUME Books, damage = 0, NEW c \in Calls, QueryCandidates(c)
    PROVE  Books'
<1> DEFINE found == {i \in DOMAIN rows : rows[i].record.snapshot = call[c].snapshot /\ IsCoreAtRisk(rows[i].record)}
<1>1. DOMAIN call[c] = CallFields /\ DOMAIN call = Calls /\ call[c].pc = "query"
      /\ call[c].flips = {} /\ call[c].affected = 0 /\ call[c].already = 0
  BY ZenonT(40) DEF Books, Chain, Account, QueryCandidates
<1>2. call' = [call EXCEPT ![c].pc = "check", ![c].candidates = found, ![c].left = found]
  BY DEF QueryCandidates
<1> HIDE DEF found
<1>3. DOMAIN call' = Calls /\ (\A d \in Calls \ {c} : call'[d] = call[d])
      /\ call'[c] = [call[c] EXCEPT !.pc = "check", !.candidates = found, !.left = found]
  BY <1>1, <1>2
<1>4. DOMAIN call'[c] = CallFields /\ call'[c].pc = "check" /\ call'[c].candidates = found /\ call'[c].left = found
      /\ call'[c].flips = {} /\ call'[c].affected = 0 /\ call'[c].already = 0
  BY <1>1, <1>3 DEF CallFields
<1>5. found \subseteq DOMAIN rows /\ Cardinality(found) \in Nat /\ Cardinality({}) = 0
  BY FS_Subset, FS_CardinalityType, FS_EmptySet DEF found, Books, Chain
<1>6. UNCHANGED <<rows, signed, flipped, overlap>>
  BY DEF QueryCandidates
<1>7. Account(c)'
  BY <1>4, <1>5, <1>6, SMT DEF Account
<1>8. Active(c)
  BY <1>1 DEF Active
<1> QED BY <1>3, <1>4, <1>6, <1>7, <1>8, CallKeepsBooks

LEMMA CheckKeepsBooks ==
    ASSUME Books, damage = 0, NEW c \in Calls, CheckCandidate(c)
    PROVE  Books'
<1> PICK id \in call[c].left :
        /\ \A j \in call[c].left : id <= j
        /\ call' = IF AlreadyRepartitioned(id)
                   THEN [call EXCEPT ![c].left = @ \ {id}, ![c].already = @ + 1]
                   ELSE [call EXCEPT ![c].pc = "append"]
  BY DEF CheckCandidate
<1>1. Account(c) /\ DOMAIN call[c] = CallFields /\ DOMAIN call = Calls /\ call[c].pc = "check"
  BY DEF Books, Chain, Account, CheckCandidate
<1>2. UNCHANGED <<rows, signed, flipped, overlap>> /\ Active(c)
  BY <1>1 DEF CheckCandidate, Active
<1>3. \A i : AlreadyRepartitioned(i) <=> AlreadyRepartitioned(i)'
  BY <1>2 DEF AlreadyRepartitioned, Children
<1>4. IsFiniteSet(call[c].left) /\ Cardinality(call[c].left) \in Nat /\ call[c].left \subseteq Nat
  BY <1>1, FS_Subset, FS_CardinalityType, ProvenanceAssumption, SMT DEF Books, Chain, Account
<1>5. CASE AlreadyRepartitioned(id)
  <2>1. DOMAIN call' = Calls /\ (\A d \in Calls \ {c} : call'[d] = call[d])
        /\ call'[c] = [call[c] EXCEPT !.left = @ \ {id}, !.already = @ + 1]
    BY <1>1, <1>5
  <2>2. DOMAIN call'[c] = CallFields /\ call'[c].pc = "check" /\ call'[c].candidates = call[c].candidates
        /\ call'[c].left = call[c].left \ {id} /\ call'[c].already = call[c].already + 1
        /\ call'[c].flips = call[c].flips /\ call'[c].affected = call[c].affected
    BY <1>1, <2>1 DEF CallFields
  <2>3. Cardinality(call'[c].left) = Cardinality(call[c].left) - 1
    BY <1>4, <2>2, FS_RemoveElement, ZenonT(40)
  <2>4. Account(c)'
    BY <1>1, <1>2, <1>3, <1>4, <1>5, <2>2, <2>3, SMT DEF Account
  <2> QED BY <1>2, <2>1, <2>2, <2>4, CallKeepsBooks
<1>6. CASE ~AlreadyRepartitioned(id)
  <2>1. DOMAIN call' = Calls /\ (\A d \in Calls \ {c} : call'[d] = call[d])
        /\ call'[c] = [call[c] EXCEPT !.pc = "append"]
    BY <1>1, <1>6
  <2>2. DOMAIN call'[c] = CallFields /\ call'[c].pc = "append" /\ call'[c].candidates = call[c].candidates
        /\ call'[c].left = call[c].left /\ call'[c].already = call[c].already
        /\ call'[c].flips = call[c].flips /\ call'[c].affected = call[c].affected
    BY <1>1, <2>1 DEF CallFields
  <2>3. Account(c)'
    BY <1>1, <1>2, <1>3, <2>2 DEF Account
  <2>4. \A i \in call'[c].left : (\A k \in call'[c].left : i <= k) => ~AlreadyRepartitioned(i)
    BY <1>4, <1>6, <2>2, SMT
  <2> QED BY <1>2, <2>1, <2>3, <2>4, CallKeepsBooks
<1> QED BY <1>5, <1>6

\* The two ways a call ends.
LEMMA EndKeepsBooks ==
    ASSUME Books, damage = 0, NEW c \in Calls, Return(c) \/ Abandon(c)
    PROVE  Books'
<1> PICK end \in {"returned", "failed"} :
        /\ call' = [call EXCEPT ![c].pc = end]
        /\ end = "returned" => call[c].pc = "check" /\ call[c].left = {}
  BY DEF Return, Abandon
<1>1. Account(c) /\ DOMAIN call[c] = CallFields /\ DOMAIN call = Calls
  BY DEF Books, Chain, Account
<1>2. UNCHANGED <<rows, signed, flipped, overlap>>
  BY DEF Return, Abandon
<1>3. \A i : AlreadyRepartitioned(i) <=> AlreadyRepartitioned(i)'
  BY <1>2 DEF AlreadyRepartitioned, Children
<1>4. DOMAIN call' = Calls /\ (\A d \in Calls \ {c} : call'[d] = call[d])
      /\ call'[c] = [call[c] EXCEPT !.pc = end]
  BY <1>1
<1>5. DOMAIN call'[c] = CallFields /\ call'[c].pc = end /\ call'[c].candidates = call[c].candidates
      /\ call'[c].left = call[c].left /\ call'[c].already = call[c].already
      /\ call'[c].flips = call[c].flips /\ call'[c].affected = call[c].affected
  BY <1>1, <1>4 DEF CallFields
<1>6. Account(c)'
  BY <1>1, <1>2, <1>3, <1>5 DEF Account
<1>7. ~Active(c)'
  BY <1>5 DEF Active
<1> QED BY <1>2, <1>4, <1>5, <1>6, <1>7, CallKeepsBooks

\* The append: the new row is the candidate's, and every earlier one of that
\* candidate is by a call that overlaps this one.
LEMMA AppendKeepsBooks ==
    ASSUME DrawnIds, Books, damage = 0, NEW c \in Calls, AppendRepartitionEvent(c)
    PROVE  Books'
<1> PICK id \in call[c].left, new \in Fresh :
        /\ \A j \in call[c].left : id <= j
        /\ id \in DOMAIN rows
        /\ Store(new, Repartition(rows[id].record, id, call[c].run))
        /\ flipped' = [i \in DOMAIN flipped \cup {new} |-> IF i = new THEN c ELSE flipped[i]]
        /\ call' = [call EXCEPT ![c].pc = "check", ![c].left = @ \ {id}, ![c].flips = @ \cup {new},
                                ![c].affected = @ + 1]
  BY DEF AppendRepartitionEvent
<1> DEFINE r == Repartition(rows[id].record, id, call[c].run)
<1>1. UNCHANGED <<overlap, damage>> /\ call[c].pc = "append" /\ Active(c)
  BY DEF AppendRepartitionEvent, Active
<1>2. DOMAIN r = RecordFields /\ r.parent = id /\ r.type = "repartition"
  BY DEF Books, Chain, Repartition, RecordFields
<1>3. DOMAIN rows' = DOMAIN rows \cup {new} /\ rows'[new].record = r /\ new \notin DOMAIN rows
      /\ \A i \in DOMAIN rows : rows'[i] = rows[i]
  BY DEF Fresh, DrawnIds, Store, Sign
<1>4. /\ DOMAIN flipped' = DOMAIN flipped \cup {new} /\ flipped'[new] = c
      /\ \A j \in DOMAIN flipped : flipped'[j] = flipped[j] /\ j \in DOMAIN rows /\ flipped[j] \in Calls /\ j # new
  BY <1>3 DEF Books, Chain
<1>5. Account(c) /\ DOMAIN call[c] = CallFields /\ DOMAIN call = Calls
  BY DEF Books, Chain, Account
<1>6. DOMAIN call' = Calls /\ (\A d \in Calls \ {c} : call'[d] = call[d])
      /\ call'[c] = [call[c] EXCEPT !.pc = "check", !.left = @ \ {id}, !.flips = @ \cup {new}, !.affected = @ + 1]
  BY <1>5
<1>7. DOMAIN call'[c] = CallFields /\ call'[c].pc = "check" /\ call'[c].candidates = call[c].candidates
      /\ call'[c].left = call[c].left \ {id} /\ call'[c].already = call[c].already
      /\ call'[c].flips = call[c].flips \cup {new} /\ call'[c].affected = call[c].affected + 1
  BY <1>5, <1>6 DEF CallFields
<1> HIDE DEF r
<1>8. Chain'
  BY <1>2, <1>4, <1>6, ChainGrows, SMT DEF Books, r
<1>9. Account(c)'
  <2>1. IsFiniteSet(call[c].left) /\ Cardinality(call[c].left) \in Nat
        /\ IsFiniteSet(call[c].flips) /\ new \notin call[c].flips
    <3>1. call[c].left \subseteq DOMAIN rows /\ call[c].flips \subseteq DOMAIN rows /\ IsFiniteSet(DOMAIN rows)
      BY <1>1, <1>5 DEF Books, Chain, Account
    <3> QED BY ONLY <1>3, <3>1, FS_Subset, FS_CardinalityType, Zenon
  <2>2. Cardinality(call'[c].left) = Cardinality(call[c].left) - 1
        /\ Cardinality(call'[c].flips) = Cardinality(call[c].flips) + 1
    <3>1. Cardinality(call[c].left \ {id}) = Cardinality(call[c].left) - 1
      BY <2>1, FS_RemoveElement
    <3>2. Cardinality(call[c].flips \cup {new}) = Cardinality(call[c].flips) + 1
      BY <2>1, FS_AddElement
    <3> QED BY <1>7, <3>1, <3>2
  <2>3. AlreadyRepartitioned(id)'
    BY <1>2, <1>3 DEF AlreadyRepartitioned, Children
  <2>4. \A i : AlreadyRepartitioned(i) => AlreadyRepartitioned(i)'
    BY <1>3, StaysFlipped
  <2>5. \A i \in call'[c].candidates \ call'[c].left : AlreadyRepartitioned(i)'
    BY <1>1, <1>5, <1>7, <2>3, <2>4 DEF Account
  <2>6. call'[c].affected + call'[c].already + Cardinality(call'[c].left) = Cardinality(call'[c].candidates)
        /\ call'[c].affected \in Nat /\ call'[c].affected = Cardinality(call'[c].flips)
    <3>1. /\ call[c].affected \in Nat /\ call[c].already \in Nat /\ call[c].affected = Cardinality(call[c].flips)
          /\ call[c].affected + call[c].already + Cardinality(call[c].left) = Cardinality(call[c].candidates)
      BY <1>1, <1>5 DEF Account
    <3> QED BY ONLY <1>7, <2>1, <2>2, <3>1
  <2> QED BY <1>1, <1>3, <1>5, <1>7, <2>5, <2>6 DEF Account
<1>10. \A d \in Calls : Account(d)'
  <2> SUFFICES ASSUME NEW d \in Calls, d # c PROVE Account(d)'
    BY <1>9
  <2> QED BY <1>3, <1>6, AccountStands DEF Books
<1>11. Meetings'
  <2>1. \A d \in Calls : Active(d)' <=> Active(d)
    BY <1>1, <1>6, <1>7, SMT DEF Active
  <2> QED BY <1>1, <2>1 DEF Books, Meetings
<1>12. Windows'
  <2> SUFFICES ASSUME NEW d \in Calls, NEW i \in call'[d].left, NEW j \in DOMAIN flipped',
                      call'[d].pc = "append", \A k \in call'[d].left : i <= k, rows'[j].record.parent = i
               PROVE  {d, flipped'[j]} \in overlap
    BY <1>1 DEF Windows
  <2>1. d # c /\ call'[d] = call[d] /\ Active(d)
    BY <1>6, <1>7 DEF Active
  <2>2. CASE j = new
    BY <1>1, <1>4, <2>1, <2>2 DEF Books, Meetings
  <2>3. CASE j \in DOMAIN flipped
    BY <1>3, <1>4, <2>1, <2>3 DEF Books, Windows
  <2> QED BY <1>4, <2>2, <2>3
<1>13. FlipsOverlap'
  <2>1. \A j \in DOMAIN flipped : rows[j].record.parent = id => {c, flipped[j]} \in overlap
    BY <1>1 DEF Books, Windows
  <2>2. \A i, j \in DOMAIN flipped' :
            i # j /\ rows'[i].record.parent = rows'[j].record.parent => {flipped'[i], flipped'[j]} \in overlap'
    <3> TAKE i, j \in DOMAIN flipped'
    <3> HAVE i # j /\ rows'[i].record.parent = rows'[j].record.parent
    <3>1. CASE i = new
      BY <1>1, <1>2, <1>3, <1>4, <2>1, <3>1
    <3>2. CASE j = new
      <4>1. {flipped[i], c} = {c, flipped[i]}
        OBVIOUS
      <4> QED BY <1>1, <1>2, <1>3, <1>4, <2>1, <3>2, <4>1
    <3>3. CASE i # new /\ j # new
      BY <1>1, <1>3, <1>4, <3>3 DEF Books, FlipsOverlap
    <3> QED BY <3>1, <3>2, <3>3
  <2> QED BY ONLY <2>2, Zenon DEF FlipsOverlap
<1> QED BY <1>8, <1>10, <1>11, <1>12, <1>13 DEF Books

\* Every step keeps the books while storage is sound.
LEMMA StepKeepsBooks ==
    ASSUME BooksKept, [provNext]_provVars
    PROVE  BooksKept'
<1>1. DrawnIds /\ DrawnIds'
  BY StepKeeps DEF BooksKept
<1> SUFFICES ASSUME damage' = 0 PROVE Books'
  BY <1>1 DEF BooksKept
<1>2. damage = 0
  <2>1. Damage => damage' # 0
    BY <1>1, SMT DEF Damage, DrawnIds
  <2> QED BY <2>1, ZenonT(40) DEF provNext, provVars, SignProvenance, RotateKey, RecordOracleRun, RecordSafeDefaultAgreement,
             Deliver, QueryCandidates, CheckCandidate, AppendRepartitionEvent, Return, Abandon
<1>3. Books
  BY <1>2 DEF BooksKept
<1>4. CASE UNCHANGED <<rows, signed, flipped, call, overlap, damage>>
  BY <1>3, <1>4, SMT DEF Books, Chain, Account, Meetings, Windows, FlipsOverlap, Active, AlreadyRepartitioned, Children
<1>5. ASSUME NEW run, NEW s, NEW verdict, NEW sites, RecordOracleRun(run, s, verdict, sites)
      PROVE  UNCHANGED <<rows, signed, flipped, call, overlap, damage>>
  BY <1>5 DEF RecordOracleRun
<1>6. ASSUME NEW run, NEW s, RecordSafeDefaultAgreement(run, s)
      PROVE  UNCHANGED <<rows, signed, flipped, call, overlap, damage>>
  BY <1>5, <1>6 DEF RecordSafeDefaultAgreement
<1>7. RotateKey \/ UNCHANGED provVars => UNCHANGED <<rows, signed, flipped, call, overlap, damage>>
  BY DEF RotateKey, provVars
<1>8. ~Damage
  BY <1>1, <1>2, SMT DEF Damage, DrawnIds
<1> QED BY <1>1, <1>2, <1>3, <1>4, <1>5, <1>6, <1>7, <1>8, SignKeepsBooks, DeliverKeepsBooks, QueryKeepsBooks,
          CheckKeepsBooks, AppendKeepsBooks, EndKeepsBooks DEF provNext

\* A returned call's books say that it flipped and counted all it found.
LEMMA BooksAreSound ==
    ASSUME BooksKept
    PROVE  FlipsAreSound
<1>1. ASSUME NEW c \in Calls, damage = 0, call[c].pc = "returned"
      PROVE  /\ \A id \in call[c].candidates : EffectiveOrigin(id) = ORACLE
             /\ call[c].affected + call[c].already = Cardinality(call[c].candidates)
             /\ call[c].affected = Cardinality(call[c].flips)
  <2>1. Account(c) /\ call[c].left = {}
    BY <1>1 DEF BooksKept, Books, Account
  <2> QED BY <1>1, <2>1, FS_EmptySet, SMT DEF Account, EffectiveOrigin
<1> QED BY <1>1 DEF BooksKept, Books, FlipsAreSound, FlipsAreWhole, FlipsOverlap

\* For any number of records, deliveries and oracle runs: a re-partition that
\* returned flipped every core finding it found and counted each once, and only
\* calls that ran at the same time flip a finding twice.
THEOREM RepartitionsAreSound == provSpec => []FlipsAreSound
<1>1. provInit => BooksKept
  <2> SUFFICES ASSUME provInit PROVE BooksKept
    OBVIOUS
  <2>1. \A c \in Calls : call[c] = Idle
    BY DEF provInit
  <2>2. \A c \in Calls : Account(c) /\ ~Active(c) /\ call[c].pc # "append"
    BY <2>1, SMT DEF Account, Active, Idle, CallFields
  <2>3. Chain
    BY FS_EmptySet, SMT DEF provInit, Chain
  <2>4. Meetings /\ Windows /\ FlipsOverlap
    BY <2>2, SMT DEF provInit, Meetings, Windows, FlipsOverlap
  <2> QED BY <2>2, <2>3, <2>4 DEF provInit, BooksKept, DrawnIds, Books
<1>2. BooksKept /\ [provNext]_provVars => BooksKept'
  BY StepKeepsBooks
<1>3. BooksKept => FlipsAreSound
  BY BooksAreSound
<1> QED BY <1>1, <1>2, <1>3, PTL DEF provSpec

-----------------------------------------------------------------------------
(***************************************************************************)
(* The reader of an attempt's history.  HistoryWasShown is not inductive:  *)
(* an answer is compared while it is made, closes are paid for before they *)
(* happen.  The invariant says what a reader in the middle of its call     *)
(* knows and owes.                                                         *)
(***************************************************************************)
Looking == {"opening", "listing", "reading", "verifying", "finalizing"}
Ending == {"finish", "closing", "over"}
StillOpen == {i \in Directories : slots[i].state = "open"}

Slots == [Directories -> [state : {"free", "open", "closed"}, closes : Nat]]
Places == Looking \cup Ending \cup {"idle"}
Listings == [Directories -> SUBSET Pubs]
Works == SUBSET ((Pubs \cup Directories) \X {"final", "intent", "tried"})
Versions == [Pubs -> Nat]
Stamps == [Directories -> Nat]
Readers == [pc : Places, next : Nat, listed : Listings, todo : Works, versions : Versions, stamps : Stamps,
            answered : BOOLEAN, error : BOOLEAN]
ReaderTypes ==
    /\ reached \in [Pubs -> 0 .. 4] /\ version \in Versions /\ stamp \in Stamps
    /\ reader \in Readers
    /\ slots \in Slots
    /\ calls \in Nat /\ faults \in Nat

\* The directory's present state is among those it has shown; and an answer,
\* which only a call that is ending has, is one of them.
AnswerIsHeld ==
    /\ reader.pc # "idle" => Shown \in held
    /\ reader.answered => reader.pc \in Ending /\ Read \in held

\* A descriptor is closed once at most, and stays open only after the second
\* exception: the first one is followed by another try.
ClosingIsOnce ==
    /\ \A i \in Directories : slots[i].closes <= 1 /\ (slots[i].state # "closed" => slots[i].closes = 0)
    /\ reader.pc \notin Ending => \A i \in Directories : slots[i].closes = 0
    /\ reader.error => faults >= 1
    /\ reader.pc \in Ending /\ ~reader.answered => reader.error
    /\ reader.pc = "closing" => \A i \in StillOpen : i \in Tried => reader.error /\ (~reader.answered => faults >= 2)
    /\ reader.pc = "over" /\ StillOpen # {} => faults >= 2

\* The closes that may still come.
Owed ==
    CASE reader.pc = "finish" -> IF reader.answered THEN 2 * Cardinality(StillOpen) ELSE Cardinality(StillOpen)
      [] reader.pc = "closing" -> Cardinality(Unfinished) + (IF reader.answered THEN Cardinality(StillOpen) ELSE 0)
      [] OTHER -> 0
Budgeted ==
    /\ reader.pc = "idle" => StillOpen = {}
    /\ reader.pc \in Looking \cup {"idle"} => (calls = 0 /\ StillOpen = {}) \/ calls + CleanupReserve <= OsLimit
    /\ calls + Owed <= OsLimit

HistInv == ReaderTypes /\ AnswerIsHeld /\ ClosingIsOnce /\ Budgeted

-----------------------------------------------------------------------------
\* A publication has its home in one of the three final directories.
LEMMA HomeIsFinal ==
    ASSUME NEW p \in Pubs
    PROVE  Home(p) \in Directories \ {"staging"}
BY HistoryAssumption, SMT DEF Home, Directories

\* There are four directories, and finitely many descriptors of them.
LEMMA DirectorySets ==
    /\ Cardinality(Directories) = 4
    /\ \A S \in SUBSET Directories : IsFiniteSet(S) /\ Cardinality(S) \in 0 .. 4
<1>1. /\ IsFiniteSet({}) /\ Cardinality({}) = 0
  BY FS_EmptySet
<1>2. IsFiniteSet({"attempt"}) /\ Cardinality({"attempt"}) = 1
  BY FS_Singleton
<1>3. IsFiniteSet({"attempt", "events"}) /\ Cardinality({"attempt", "events"}) = 2
  <2>1. {"attempt", "events"} = {"attempt"} \cup {"events"} /\ "events" \notin {"attempt"}
    BY SMT
  <2> QED BY <1>2, <2>1, FS_AddElement, SMT
<1>4. IsFiniteSet({"attempt", "events", "blobs"}) /\ Cardinality({"attempt", "events", "blobs"}) = 3
  <2>1. {"attempt", "events", "blobs"} = {"attempt", "events"} \cup {"blobs"} /\ "blobs" \notin {"attempt", "events"}
    BY SMT
  <2> QED BY <1>3, <2>1, FS_AddElement, SMT
<1>5. IsFiniteSet(Directories) /\ Cardinality(Directories) = 4
  <2>1. Directories = {"attempt", "events", "blobs"} \cup {"staging"} /\ "staging" \notin {"attempt", "events", "blobs"}
    BY SMT DEF Directories
  <2> QED BY <1>4, <2>1, FS_AddElement, SMT
<1>6. ASSUME NEW S \in SUBSET Directories PROVE IsFiniteSet(S) /\ Cardinality(S) \in 0 .. 4
  <2>1. IsFiniteSet(S) /\ Cardinality(S) <= Cardinality(Directories)
    BY <1>5, FS_Subset
  <2>2. Cardinality(S) \in Nat
    BY <2>1, FS_CardinalityType
  <2> QED BY ONLY <1>5, <2>1, <2>2, SMT
<1> QED BY <1>5, <1>6

\* The calls the second look needs are a number.
LEMMA RemainingIsNat ==
    ASSUME ReaderTypes
    PROVE  FinalRemaining \in Nat
<1> DEFINE all == Pubs \X {"final", "intent"}
<1>1. IsFiniteSet({"final", "intent"})
  <2>1. {"final", "intent"} = {"final"} \cup {"intent"}
    OBVIOUS
  <2>2. IsFiniteSet({"final"})
    BY FS_Singleton
  <2>3. IsFiniteSet({"final"} \cup {"intent"})
    BY <2>2, FS_AddElement
  <2> QED BY <2>1, <2>3
<1>2. IsFiniteSet(all)
  BY <1>1, HistoryAssumption, FS_Product
<1>0. reader.listed \in Listings
  BY SMT DEF ReaderTypes, Readers
<1>3. \A d \in Directories : reader.listed[d] \subseteq Pubs
  BY <1>0, SMT DEF Listings
<1>4. Rows \subseteq all
  <2>1. UNION {reader.listed[d] : d \in Directories \ {"staging"}} \subseteq Pubs
    BY <1>3
  <2>2. reader.listed["staging"] \subseteq Pubs
    BY <1>3 DEF Directories
  <2> QED BY <2>1, <2>2 DEF Rows
<1>5. Cardinality(Rows) \in Nat
  BY <1>2, <1>4, FS_Subset, FS_CardinalityType
<1> QED BY ONLY <1>5, DirectorySets, SMT DEF FinalRemaining

-----------------------------------------------------------------------------
\* The places and the empty work list are of their types.
LEMMA PlaceTypes ==
    /\ \A x \in {"opening", "listing", "reading", "verifying", "finalizing", "finish", "closing", "over", "idle"} : x \in Places
    /\ {} \in Works
BY DEF Places, Looking, Ending, Works

\* Setting a flag of the reader keeps its type.
LEMMA FlagTypes ==
    \A r \in Readers : \A b \in BOOLEAN : [r EXCEPT !.error = b] \in Readers /\ [r EXCEPT !.answered = b] \in Readers
<1> TAKE r \in Readers
<1> TAKE b \in BOOLEAN
<1>1. [r EXCEPT !.error = b] \in Readers
  BY SMT DEF Readers
<1>2. [r EXCEPT !.answered = b] \in Readers
  BY SMT DEF Readers
<1> QED BY <1>1, <1>2

\* And so does giving it other work.
LEMMA WorkTypes == \A r \in Readers : \A work \in Works : [r EXCEPT !.todo = work] \in Readers
<1> TAKE r \in Readers
<1> TAKE work \in Works
<1> QED BY SMT DEF Readers

\* Every step keeps the types.
LEMMA ReaderTypesStep == ReaderTypes /\ [histNext]_histVars => ReaderTypes'
<1> SUFFICES ASSUME ReaderTypes, [histNext]_histVars PROVE ReaderTypes'
  OBVIOUS
<1> USE DEF ReaderTypes
<1>0. FinalRemaining \in Nat
  BY RemainingIsNat
<1>00. reader \in Readers /\ reader.todo \in Works /\ reader.versions \in Versions /\ reader.listed \in Listings
  BY SMT DEF Readers
<1>A. ASSUME Refuse, calls' \in Nat PROVE ReaderTypes'
  <2>1. reader' \in Readers
    <3> DEFINE moved == [reader EXCEPT !.pc = "finish"]
    <3>1. moved \in Readers
      BY <1>00, PlaceTypes, SMT DEF Readers
    <3>2. reader' = [moved EXCEPT !.error = TRUE]
      BY <1>A DEF Refuse
    <3> HIDE DEF moved
    <3> QED BY <3>1, <3>2, FlagTypes
  <2>2. faults' \in Nat
    BY <1>A, SMT DEF Refuse
  <2> QED BY <1>A, <2>1, <2>2 DEF Refuse
<1>1. CASE Begin
  <2>1. Unread \in Readers
    <3>1. [d \in Directories |-> {}] \in Listings /\ [d \in Directories |-> 0] \in Stamps /\ NoVersions \in Versions
      BY SMT DEF Listings, Stamps, Versions, NoVersions
    <3> QED BY <3>1, PlaceTypes, SMT DEF Unread, Readers
  <2>2. [Unread EXCEPT !.pc = "opening"] \in Readers
    BY <2>1, PlaceTypes, SMT DEF Readers
  <2> QED BY <1>1, <2>2 DEF Begin
<1>2. CASE Verify
  <2>1. CASE Explained
    <3>1. reader' \in Readers
      BY <1>2, <2>1, <1>00, PlaceTypes, SMT DEF Verify, Readers
    <3> QED BY <1>2, <2>1, <3>1 DEF Verify
  <2> QED BY <1>2, <2>1, <1>A DEF Verify
<1>3. CASE Finalize
  <2>1. calls' \in Nat
    BY <1>3, <1>0, SMT DEF Finalize, Charge
  <2>2. CASE Affordable(0) /\ Stable
    <3>1. reader' \in Readers
      <4> DEFINE moved == [reader EXCEPT !.pc = "finish"]
      <4>1. moved \in Readers
        BY <1>00, PlaceTypes, SMT DEF Readers
      <4>2. reader' = [moved EXCEPT !.answered = TRUE]
        BY <1>3, <2>2 DEF Finalize
      <4> HIDE DEF moved
      <4> QED BY <4>1, <4>2, FlagTypes
    <3> QED BY <1>3, <2>1, <2>2, <3>1 DEF Finalize
  <2> QED BY <1>3, <2>1, <2>2, <1>A DEF Finalize
<1>4. CASE CallRaises
  BY <1>4, <1>A DEF CallRaises
<1>5. CASE StartFinish
  <2>1. reader' \in Readers
    <3> DEFINE moved == [reader EXCEPT !.pc = "closing"]
    <3>1. moved \in Readers
      BY <1>00, PlaceTypes, SMT DEF Readers
    <3>2. reader' = [moved EXCEPT !.todo = {}]
      BY <1>5 DEF StartFinish
    <3> HIDE DEF moved
    <3> QED BY ONLY <3>1, <3>2, PlaceTypes, SMT DEF Readers
  <2> QED BY <1>5, <2>1 DEF StartFinish
<1>6. CASE Finished
  <2>1. reader' \in Readers
    <3> DEFINE moved == [reader EXCEPT !.pc = "finish"]
    <3>1. moved \in Readers /\ [reader EXCEPT !.pc = "over"] \in Readers
      BY <1>00, PlaceTypes, SMT DEF Readers
    <3>2. reader' = [moved EXCEPT !.answered = FALSE] \/ reader' = [reader EXCEPT !.pc = "over"]
      BY <1>6 DEF Finished
    <3> HIDE DEF moved
    <3>3. [moved EXCEPT !.answered = FALSE] \in Readers
      BY <3>1, FlagTypes
    <3> QED BY <3>1, <3>2, <3>3
  <2> QED BY <1>6, <2>1 DEF Finished
<1>7. ASSUME NEW p \in Pubs, Publish(p) PROVE ReaderTypes'
  <2>1. reached' \in [Pubs -> 0 .. 4] /\ stamp' \in Stamps
    BY <1>7, SMT DEF Publish, Stamps
  <2> QED BY <1>7, <2>1 DEF Publish
<1>8. ASSUME NEW p \in Pubs, Replace(p) PROVE ReaderTypes'
  <2>1. version' \in Versions
    BY <1>8, SMT DEF Replace, Versions
  <2>2. stamp' \in Stamps
    BY <1>8, HomeIsFinal, SMT DEF Replace, Stamps
  <2> QED BY <1>8, <2>1, <2>2 DEF Replace
<1>9. ASSUME NEW i \in Directories, CloseSlot(i) PROVE ReaderTypes'
  <2>1. slots' \in Slots /\ calls' \in Nat
    BY <1>9, SMT DEF CloseSlot, Charge, Slots
  <2> DEFINE more == reader.todo \cup {<<i, "tried">>}
  <2>2. more \in Works
    <3>1. <<i, "tried">> \in (Pubs \cup Directories) \X {"final", "intent", "tried"}
      OBVIOUS
    <3> QED BY <3>1, <1>00 DEF Works
  <2>3. reader' \in Readers
    <3>1. reader' = [reader EXCEPT !.todo = more]
      BY <1>9 DEF CloseSlot
    <3> HIDE DEF more
    <3> QED BY ONLY <2>2, <1>00, <3>1, SMT DEF Readers
  <2> QED BY <1>9, <2>1, <2>3 DEF CloseSlot
<1>10. ASSUME NEW i \in Directories, InterruptClose(i) PROVE ReaderTypes'
  <2>1. slots' \in Slots /\ calls' \in Nat /\ faults' \in Nat
    BY <1>10, SMT DEF InterruptClose, Charge, Slots
  <2> DEFINE more == reader.todo \cup {<<i, "tried">>}
  <2>2. more \in Works
    <3>1. <<i, "tried">> \in (Pubs \cup Directories) \X {"final", "intent", "tried"}
      OBVIOUS
    <3> QED BY <3>1, <1>00 DEF Works
  <2>3. reader' \in Readers
    <3> DEFINE tried == [reader EXCEPT !.todo = more]
    <3>2. reader' = [tried EXCEPT !.error = TRUE]
      BY <1>10 DEF InterruptClose
    <3> HIDE DEF more
    <3>1. tried \in Readers
      BY ONLY <2>2, <1>00, SMT DEF Readers
    <3> HIDE DEF tried
    <3> QED BY <3>1, <3>2, FlagTypes
  <2> QED BY <1>10, <2>1, <2>3 DEF InterruptClose
<1>11. ASSUME NEW d \in Directories, OpenDirectory(d) PROVE ReaderTypes'
  <2>1. CASE Affordable(1)
    <3>1. slots' \in Slots /\ calls' \in Nat
      BY <1>11, <2>1, SMT DEF OpenDirectory, Charge, Slots
    <3> DEFINE stamps == [reader.stamps EXCEPT ![d] = stamp[d]]
    <3>2. stamps \in Stamps
      BY SMT DEF Readers, Stamps
    <3>3. reader' = [reader EXCEPT !.stamps = stamps, !.next = IF d = "staging" THEN 1 ELSE @ + 1,
                                   !.pc = IF d = "staging" THEN "listing" ELSE @]
      BY <1>11, <2>1 DEF OpenDirectory
    <3> HIDE DEF stamps
    <3>4. reader' \in Readers
      <4> DEFINE kept == [reader EXCEPT !.stamps = stamps]
                 counted == [kept EXCEPT !.next = IF d = "staging" THEN 1 ELSE @ + 1]
      <4>1. kept \in Readers
        BY ONLY <3>2, <1>00, SMT DEF Readers
      <4>2. kept.next = reader.next /\ counted.pc = reader.pc
        BY ONLY <1>00, SMT DEF Readers
      <4>3. reader' = [counted EXCEPT !.pc = IF d = "staging" THEN "listing" ELSE @]
        BY <3>3, <4>2
      <4> HIDE DEF kept
      <4>4. counted \in Readers
        BY ONLY <4>1, SMT DEF Readers
      <4> HIDE DEF counted
      <4> QED BY ONLY <4>3, <4>4, PlaceTypes, SMT DEF Readers
    <3> QED BY <1>11, <2>1, <3>1, <3>4 DEF OpenDirectory
  <2> QED BY <1>11, <2>1, <1>A DEF OpenDirectory
<1>12. ASSUME NEW d \in Directories, ListDirectory(d) PROVE ReaderTypes'
  <2> DEFINE listed == [reader.listed EXCEPT ![d] = Listing(d)]
             finals == UNION {listed[e] : e \in Directories \ {"staging"}}
             found == finals \X {"final"} \cup listed["staging"] \X {"intent"}
  <2>0. Listing(d) \subseteq Pubs
    BY DEF Listing, Intents, Finals
  <2>1. listed \in Listings
    BY <2>0, <1>00, SMT DEF Listings
  <2> HIDE DEF listed
  <2>2. \A e \in Directories : listed[e] \subseteq Pubs
    BY <2>1, SMT DEF Listings
  <2>3. found \in Works
    <3>1. finals \subseteq Pubs /\ listed["staging"] \subseteq Pubs
      BY <2>2 DEF Directories
    <3> HIDE DEF finals
    <3>2. finals \X {"final"} \in Works
      BY <3>1 DEF Works
    <3>3. listed["staging"] \X {"intent"} \in Works
      BY <3>1 DEF Works
    <3> QED BY ONLY <3>2, <3>3, Zenon DEF Works, found
  <2> HIDE DEF found
  <2>4. CASE Refuse /\ UNCHANGED calls
    BY <2>4, <1>A
  <2>5. CASE /\ Charge(1) /\ UNCHANGED <<reached, version, stamp, held, slots, faults>>
             /\ reader' = [reader EXCEPT !.listed = listed, !.next = @ + 1,
                                 !.pc = IF d = "staging" THEN "reading" ELSE @,
                                 !.todo = IF d = "staging" THEN found ELSE @]
    <3>1. reader' \in Readers
      <4> DEFINE known == [reader EXCEPT !.listed = listed]
                 counted == [known EXCEPT !.next = @ + 1]
                 moved == [counted EXCEPT !.pc = IF d = "staging" THEN "reading" ELSE @]
      <4>1. known \in Readers
        BY ONLY <2>1, <1>00, SMT DEF Readers
      <4>3. reader' = [moved EXCEPT !.todo = IF d = "staging" THEN found ELSE @]
        BY <2>5
      <4> HIDE DEF known
      <4>4. counted \in Readers
        BY ONLY <4>1, SMT DEF Readers
      <4> HIDE DEF counted
      <4>5. moved \in Readers
        BY ONLY <4>4, PlaceTypes, SMT DEF Readers
      <4> HIDE DEF moved
      <4> QED BY ONLY <4>3, <4>5, <2>3, SMT DEF Readers
    <3>2. calls' \in Nat
      BY <2>5, SMT DEF Charge
    <3> QED BY <2>5, <3>1, <3>2
  <2> QED BY <1>12, <2>4, <2>5 DEF ListDirectory, listed, finals, found
<1>13. ASSUME NEW file \in Pubs \X {"final", "intent"}, ReadRow(file) PROVE ReaderTypes'
  <2>1. CASE Affordable(1)
    <3>1. file[1] \in Pubs
      OBVIOUS
    <3> DEFINE versions == IF file[2] = "final" THEN [reader.versions EXCEPT ![file[1]] = version[file[1]]] ELSE reader.versions
    <3>2. versions \in Versions
      BY <3>1, <1>00, SMT DEF Versions
    <3>3. reader' = [reader EXCEPT !.todo = @ \ {file}, !.versions = versions,
                             !.pc = IF reader.todo = {file} THEN "verifying" ELSE @]
      BY <1>13, <2>1 DEF ReadRow
    <3> HIDE DEF versions
    <3>4. reader.todo \ {file} \in Works
      BY <1>00 DEF Works
    <3>5. reader' \in Readers
      <4> DEFINE less == [reader EXCEPT !.todo = @ \ {file}]
                 taken == [less EXCEPT !.versions = versions]
      <4>1. less \in Readers
        BY <3>4, <1>00, WorkTypes
      <4>3. reader' = [taken EXCEPT !.pc = IF reader.todo = {file} THEN "verifying" ELSE @]
        BY <3>3
      <4> HIDE DEF less
      <4>4. taken \in Readers
        BY ONLY <4>1, <3>2, SMT DEF Readers
      <4> HIDE DEF taken
      <4> QED BY ONLY <4>3, <4>4, PlaceTypes, SMT DEF Readers
    <3>6. calls' \in Nat
      BY <1>13, <2>1, SMT DEF ReadRow, Charge
    <3> QED BY <1>13, <2>1, <3>5, <3>6 DEF ReadRow
  <2> QED BY <1>13, <2>1, <1>A DEF ReadRow
<1>14. CASE UNCHANGED histVars
  BY <1>14 DEF histVars
<1> QED BY <1>1, <1>2, <1>3, <1>4, <1>5, <1>6, <1>7, <1>8, <1>9, <1>10, <1>11, <1>12, <1>13, <1>14, ZenonT(40) DEF histNext

-----------------------------------------------------------------------------
\* The kinds of steps, by what the invariant depends on.
Elsewhere == UNCHANGED <<reader, slots, calls, faults>> /\ Reading /\ Seen
Starts ==
    /\ reader.pc = "idle" /\ reader'.pc = "opening" /\ reader'.answered = FALSE /\ reader'.error = FALSE
    /\ held' = {Shown} /\ UNCHANGED <<reached, version, slots, calls, faults>>
Looks ==
    /\ reader.pc \in Looking /\ reader'.pc \in Looking
    /\ reader'.answered = reader.answered /\ reader'.error = reader.error
    /\ UNCHANGED <<reached, version, held, faults>>
    /\ \/ UNCHANGED <<slots, calls>>
       \/ /\ calls' + CleanupReserve <= OsLimit
          /\ slots' = slots \/ \E d \in Directories : slots' = [slots EXCEPT ![d].state = "open"]
Refusal ==
    /\ reader.pc \in Looking /\ reader'.pc = "finish" /\ reader'.error = TRUE /\ reader'.answered = reader.answered
    /\ UNCHANGED <<reached, version, held, slots>> /\ faults' = faults + 1
    /\ calls' = calls \/ calls' + CleanupReserve <= OsLimit
Answers ==
    /\ reader.pc \in Looking /\ reader'.pc = "finish" /\ reader'.error = reader.error /\ reader'.answered = TRUE
    /\ reader'.listed = reader.listed /\ reader'.versions = reader.versions /\ Stable
    /\ UNCHANGED <<reached, version, held, slots, faults>>
    /\ calls' + CleanupReserve <= OsLimit
SameAnswer ==
    /\ reader'.listed = reader.listed /\ reader'.versions = reader.versions
    /\ UNCHANGED <<reached, version, held>>
Sweeps ==
    /\ reader.pc = "finish" /\ reader'.pc = "closing" /\ reader'.todo = {}
    /\ reader'.answered = reader.answered /\ reader'.error = reader.error
    /\ SameAnswer /\ UNCHANGED <<slots, calls, faults>>
Closes(i) ==
    /\ reader.pc = "closing" /\ reader'.pc = "closing" /\ i \in ToFinish
    /\ reader'.todo = reader.todo \cup {<<i, "tried">>}
    /\ reader'.answered = reader.answered
    /\ SameAnswer /\ calls' = calls + 1
    /\ \/ /\ slots' = [slots EXCEPT ![i] = [state |-> "closed", closes |-> @.closes + 1]]
          /\ reader'.error = reader.error /\ faults' = faults
       \/ /\ slots' = slots \/ slots' = [slots EXCEPT ![i] = [state |-> "closed", closes |-> @.closes + 1]]
          /\ reader'.error = TRUE /\ faults' = faults + 1
Swept ==
    /\ reader.pc = "closing" /\ Unfinished = {} /\ reader'.error = reader.error
    /\ \/ /\ reader.answered /\ reader.error /\ reader'.pc = "finish" /\ reader'.answered = FALSE
       \/ /\ ~(reader.answered /\ reader.error) /\ reader'.pc = "over" /\ reader'.answered = reader.answered
    /\ SameAnswer /\ UNCHANGED <<slots, calls, faults>>

\* Every step of the history is of one of the kinds above.
LEMMA StepKinds ==
    ASSUME ReaderTypes, histNext
    PROVE  Elsewhere \/ Starts \/ Looks \/ Refusal \/ Answers \/ Sweeps \/ (\E i \in Directories : Closes(i)) \/ Swept
<1>0. FinalRemaining \in Nat
  BY RemainingIsNat
<1>00. reader \in Readers /\ calls \in Nat /\ faults \in Nat
  BY DEF ReaderTypes
<1>01. OsLimit \in Nat /\ CleanupReserve \in Nat
  BY HistoryAssumption
<1>A. ASSUME Refuse, reader.pc \in Looking, calls' = calls \/ calls' + CleanupReserve <= OsLimit PROVE Refusal
  <2>1. reader'.pc = "finish" /\ reader'.error = TRUE /\ reader'.answered = reader.answered
    BY ONLY <1>A, <1>00, SMT DEF Refuse, Readers
  <2> QED BY <1>A, <2>1 DEF Refuse, Refusal
<1>B. ASSUME NEW cost \in Nat, Affordable(cost), Charge(cost) PROVE calls' + CleanupReserve <= OsLimit
  BY ONLY <1>B, <1>0, <1>00, <1>01, SMT DEF Affordable, Charge
<1>1. CASE Begin
  <2>1. reader'.pc = "opening" /\ reader'.answered = FALSE /\ reader'.error = FALSE
    BY <1>1, SMT DEF Begin, Unread
  <2> QED BY <1>1, <2>1 DEF Begin, Starts
<1>2. CASE Verify
  <2>0. reader.pc \in Looking
    BY <1>2 DEF Verify, Looking
  <2>1. CASE Explained
    <3>1. reader'.pc = "finalizing" /\ reader'.answered = reader.answered /\ reader'.error = reader.error
      BY ONLY <1>2, <2>1, <1>00, SMT DEF Verify, Readers
    <3> QED BY <1>2, <2>0, <2>1, <3>1 DEF Verify, Looks, Looking
  <2> QED BY <1>2, <2>0, <2>1, <1>A DEF Verify
<1>3. CASE Finalize
  <2>0. reader.pc \in Looking
    BY <1>3 DEF Finalize, Looking
  <2>1. CASE Affordable(0)
    <3>0. calls' + CleanupReserve <= OsLimit
      BY ONLY <1>3, <2>1, <1>0, <1>00, <1>01, SMT DEF Affordable, Finalize, Charge
    <3>1. CASE Stable
      <4>1. /\ reader'.pc = "finish" /\ reader'.error = reader.error /\ reader'.answered = TRUE
            /\ reader'.listed = reader.listed /\ reader'.versions = reader.versions
        <5>1. reader' = [reader EXCEPT !.pc = "finish", !.answered = TRUE]
          BY <1>3, <2>1, <3>1 DEF Finalize
        <5> QED BY ONLY <5>1, <1>00, SMT DEF Readers
      <4> QED BY <1>3, <2>0, <2>1, <3>0, <3>1, <4>1 DEF Finalize, Answers
    <3> QED BY <1>3, <2>0, <2>1, <3>0, <3>1, <1>A DEF Finalize
  <2> QED BY <1>3, <2>0, <2>1, <1>A DEF Finalize
<1>4. CASE CallRaises
  <2>1. reader.pc \in Looking
    BY <1>4 DEF CallRaises, Looking
  <2> QED BY <1>4, <2>1, <1>A DEF CallRaises
<1>5. CASE StartFinish
  <2>1. reader' = [reader EXCEPT !.pc = "closing", !.todo = {}]
    BY <1>5 DEF StartFinish
  <2>2. /\ reader'.pc = "closing" /\ reader'.todo = {} /\ reader'.answered = reader.answered /\ reader'.error = reader.error
        /\ reader'.listed = reader.listed /\ reader'.versions = reader.versions
    BY ONLY <2>1, <1>00, SMT DEF Readers
  <2> QED BY <1>5, <2>2 DEF StartFinish, Sweeps, SameAnswer
<1>6. CASE Finished
  <2>1. CASE reader.answered /\ reader.error
    <3>1. reader' = [reader EXCEPT !.pc = "finish", !.answered = FALSE]
      BY <1>6, <2>1 DEF Finished
    <3>2. /\ reader'.pc = "finish" /\ reader'.answered = FALSE /\ reader'.error = reader.error
          /\ reader'.listed = reader.listed /\ reader'.versions = reader.versions
      BY ONLY <3>1, <1>00, SMT DEF Readers
    <3> QED BY <1>6, <2>1, <3>2 DEF Finished, Swept, SameAnswer
  <2>2. CASE ~(reader.answered /\ reader.error)
    <3>1. reader' = [reader EXCEPT !.pc = "over"]
      BY <1>6, <2>2 DEF Finished
    <3>2. /\ reader'.pc = "over" /\ reader'.answered = reader.answered /\ reader'.error = reader.error
          /\ reader'.listed = reader.listed /\ reader'.versions = reader.versions
      BY ONLY <3>1, <1>00, SMT DEF Readers
    <3> QED BY <1>6, <2>2, <3>2 DEF Finished, Swept, SameAnswer
  <2> QED BY <2>1, <2>2
<1>7. ASSUME NEW p \in Pubs, Publish(p) \/ Replace(p) PROVE Elsewhere
  BY <1>7 DEF Publish, Replace, Elsewhere
<1>9. ASSUME NEW i \in Directories, CloseSlot(i) PROVE Closes(i)
  <2> DEFINE more == reader.todo \cup {<<i, "tried">>}
  <2>1. reader' = [reader EXCEPT !.todo = more]
    BY <1>9 DEF CloseSlot
  <2> HIDE DEF more
  <2>2. /\ reader'.pc = reader.pc /\ reader'.todo = more /\ reader'.answered = reader.answered /\ reader'.error = reader.error
        /\ reader'.listed = reader.listed /\ reader'.versions = reader.versions
    BY ONLY <2>1, <1>00, SMT DEF Readers
  <2> QED BY <1>9, <2>2 DEF CloseSlot, Charge, Closes, SameAnswer, more
<1>10. ASSUME NEW i \in Directories, InterruptClose(i) PROVE Closes(i)
  <2> DEFINE more == reader.todo \cup {<<i, "tried">>}
  <2>1. reader' = [reader EXCEPT !.todo = more, !.error = TRUE]
    BY <1>10 DEF InterruptClose
  <2> HIDE DEF more
  <2>2. /\ reader'.pc = reader.pc /\ reader'.todo = more /\ reader'.answered = reader.answered /\ reader'.error = TRUE
        /\ reader'.listed = reader.listed /\ reader'.versions = reader.versions
    BY ONLY <2>1, <1>00, SMT DEF Readers
  <2> QED BY <1>10, <2>2 DEF InterruptClose, Charge, Closes, SameAnswer, more
<1>11. ASSUME NEW d \in Directories, OpenDirectory(d) PROVE Looks \/ Refusal
  <2>0. reader.pc \in Looking
    BY <1>11 DEF OpenDirectory, Looking
  <2>1. CASE Affordable(1)
    <3>0. calls' + CleanupReserve <= OsLimit
      BY <1>11, <2>1, <1>B, SMT DEF OpenDirectory
    <3>1. /\ reader'.pc \in {"opening", "listing"} /\ reader'.answered = reader.answered /\ reader'.error = reader.error
      <4> DEFINE stamps == [reader.stamps EXCEPT ![d] = stamp[d]]
      <4>1. reader' = [reader EXCEPT !.stamps = stamps, !.next = IF d = "staging" THEN 1 ELSE @ + 1,
                                     !.pc = IF d = "staging" THEN "listing" ELSE @]
        BY <1>11, <2>1 DEF OpenDirectory
      <4>2. reader.pc = "opening"
        BY <1>11 DEF OpenDirectory
      <4> HIDE DEF stamps
      <4> QED BY ONLY <4>1, <4>2, <1>00, SMT DEF Readers
    <3> QED BY <1>11, <2>0, <2>1, <3>0, <3>1 DEF OpenDirectory, Looks, Looking
  <2> QED BY <1>11, <2>0, <2>1, <1>A DEF OpenDirectory
<1>12. ASSUME NEW d \in Directories, ListDirectory(d) PROVE Looks \/ Refusal
  <2>0. reader.pc \in Looking
    BY <1>12 DEF ListDirectory, Looking
  <2> DEFINE listed == [reader.listed EXCEPT ![d] = Listing(d)]
             finals == UNION {listed[e] : e \in Directories \ {"staging"}}
             found == finals \X {"final"} \cup listed["staging"] \X {"intent"}
  <2>1. CASE Refuse /\ UNCHANGED calls
    BY <2>0, <2>1, <1>A
  <2>2. CASE /\ Affordable(1) /\ Charge(1) /\ UNCHANGED <<reached, version, stamp, held, slots, faults>>
             /\ reader' = [reader EXCEPT !.listed = listed, !.next = @ + 1,
                                 !.pc = IF d = "staging" THEN "reading" ELSE @,
                                 !.todo = IF d = "staging" THEN found ELSE @]
    <3> HIDE DEF listed, found
    <3>0. calls' + CleanupReserve <= OsLimit
      BY <2>2, <1>B, SMT
    <3>1. /\ reader'.pc \in {reader.pc, "reading"} /\ reader'.answered = reader.answered /\ reader'.error = reader.error
      BY ONLY <2>2, <1>00, SMT DEF Readers
    <3> QED BY <2>0, <2>2, <3>0, <3>1 DEF Looks, Looking
  <2> QED BY <1>12, <2>1, <2>2 DEF ListDirectory
<1>13. ASSUME NEW file \in Pubs \X {"final", "intent"}, ReadRow(file) PROVE Looks \/ Refusal
  <2>0. reader.pc \in Looking
    BY <1>13 DEF ReadRow, Looking
  <2>1. CASE Affordable(1)
    <3>0. calls' + CleanupReserve <= OsLimit
      BY <1>13, <2>1, <1>B, SMT DEF ReadRow
    <3> DEFINE versions == IF file[2] = "final" THEN [reader.versions EXCEPT ![file[1]] = version[file[1]]] ELSE reader.versions
    <3>1. reader' = [reader EXCEPT !.todo = @ \ {file}, !.versions = versions,
                             !.pc = IF reader.todo = {file} THEN "verifying" ELSE @]
      BY <1>13, <2>1 DEF ReadRow
    <3> HIDE DEF versions
    <3>2. /\ reader'.pc \in {reader.pc, "verifying"} /\ reader'.answered = reader.answered /\ reader'.error = reader.error
      BY ONLY <3>1, <1>00, SMT DEF Readers
    <3> QED BY <1>13, <2>0, <2>1, <3>0, <3>2 DEF ReadRow, Looks, Looking
  <2> QED BY <1>13, <2>0, <2>1, <1>A DEF ReadRow
<1> QED BY <1>1, <1>2, <1>3, <1>4, <1>5, <1>6, <1>7, <1>9, <1>10, <1>11, <1>12, <1>13, ZenonT(40) DEF histNext

-----------------------------------------------------------------------------
\* The second look: the answer is what the directory shows.
LEMMA StableIsShown ==
    ASSUME ReaderTypes, Stable
    PROVE  Read = Shown
<1> DEFINE finals == UNION {reader.listed[d] : d \in Directories \ {"staging"}}
<1>1. \A d \in Directories : Listing(d) = reader.listed[d]
  BY DEF Stable
<1>2. \A d \in Directories \ {"staging"} : reader.listed[d] = {p \in Finals : Home(p) = d}
  BY <1>1 DEF Listing
<1>3. finals = Finals
  <2>1. \A p \in Finals : p \in reader.listed[Home(p)]
    BY <1>2, HomeIsFinal DEF Finals
  <2>2. \A p \in Finals : p \in finals
    BY <2>1, HomeIsFinal DEF Finals
  <2>3. finals \subseteq Finals
    BY <1>2, ZenonT(40)
  <2> QED BY <2>2, <2>3
<1>4. reader.listed["staging"] = Intents
  BY <1>1 DEF Listing, Directories
<1>5. \A p \in finals : reader.versions[p] = version[p]
  BY DEF Stable
<1> HIDE DEF finals
<1>6. [p \in Pubs |-> IF p \in finals THEN reader.versions[p] ELSE 0] = [p \in Pubs |-> IF p \in Finals THEN version[p] ELSE 0]
  BY <1>3, <1>5
<1> QED BY <1>3, <1>4, <1>6 DEF Read, Shown, finals

\* Every step keeps the directory, and the answer, among what was shown.
LEMMA AnswerIsHeldStep == ReaderTypes /\ AnswerIsHeld /\ [histNext]_histVars => AnswerIsHeld'
<1> SUFFICES ASSUME ReaderTypes, AnswerIsHeld, [histNext]_histVars PROVE AnswerIsHeld'
  OBVIOUS
<1>0. reader.pc \in Looking => ~reader.answered
  BY DEF AnswerIsHeld, Looking, Ending
<1>00. "idle" \notin Looking \cup Ending /\ Looking \cap Ending = {}
  BY DEF Looking, Ending
<1>S. ASSUME UNCHANGED <<reached, version>> PROVE Shown' = Shown
  BY <1>S DEF Shown, Finals, Intents
<1>R. ASSUME reader'.listed = reader.listed, reader'.versions = reader.versions PROVE Read' = Read
  BY <1>R DEF Read
<1>1. CASE Elsewhere
  <2>1. reader.pc # "idle" => Shown' \in held' /\ held \subseteq held'
    BY <1>1 DEF Elsewhere, Seen
  <2>2. Read' = Read /\ reader'.pc = reader.pc /\ reader'.answered = reader.answered
    BY <1>1, <1>R DEF Elsewhere
  <2> QED BY <2>1, <2>2, <1>00 DEF AnswerIsHeld
<1>2. CASE Starts
  <2>1. Shown' = Shown /\ held' = {Shown} /\ reader'.answered = FALSE
    BY <1>2, <1>S DEF Starts
  <2> QED BY <2>1 DEF AnswerIsHeld
<1>3. CASE Looks
  <2>1. Shown' = Shown /\ held' = held /\ reader'.answered = reader.answered /\ reader.pc \in Looking
    BY <1>3, <1>S DEF Looks
  <2> QED BY <2>1, <1>0, <1>00 DEF AnswerIsHeld
<1>4. CASE Refusal
  <2>1. Shown' = Shown /\ held' = held /\ reader'.answered = reader.answered /\ reader.pc \in Looking
    BY <1>4, <1>S DEF Refusal
  <2> QED BY <2>1, <1>0, <1>00 DEF AnswerIsHeld
<1>5. CASE Answers
  <2>1. Shown' = Shown /\ held' = held /\ Read' = Read /\ reader.pc \in Looking /\ Stable /\ reader'.pc = "finish"
    BY <1>5, <1>S, <1>R DEF Answers
  <2>2. Shown \in held
    BY <2>1, <1>00 DEF AnswerIsHeld
  <2>3. Read = Shown
    BY <2>1, StableIsShown
  <2> QED BY <2>1, <2>2, <2>3 DEF AnswerIsHeld, Ending
<1>6. ASSUME SameAnswer, reader.pc \in Ending, reader'.pc \in Ending, reader'.answered => reader.answered PROVE AnswerIsHeld'
  <2>1. Shown' = Shown /\ held' = held /\ Read' = Read
    BY <1>6, <1>S, <1>R DEF SameAnswer
  <2> QED BY <2>1, <1>6, <1>00 DEF AnswerIsHeld
<1>7. CASE Sweeps
  BY <1>6, <1>7 DEF Sweeps, Ending
<1>8. ASSUME NEW i \in Directories, Closes(i) PROVE AnswerIsHeld'
  BY <1>6, <1>8 DEF Closes, Ending
<1>9. CASE Swept
  BY <1>6, <1>9 DEF Swept, Ending
<1>10. CASE UNCHANGED histVars
  <2>1. Shown' = Shown /\ Read' = Read /\ held' = held /\ reader' = reader
    BY <1>10, <1>S, <1>R, ZenonT(40) DEF histVars
  <2> QED BY <2>1 DEF AnswerIsHeld
<1> QED BY <1>1, <1>2, <1>3, <1>4, <1>5, <1>7, <1>8, <1>9, <1>10, StepKinds

\* Every step keeps the account of closed descriptors.
LEMMA ClosingStep == ReaderTypes /\ ClosingIsOnce /\ [histNext]_histVars => ClosingIsOnce'
<1> SUFFICES ASSUME ReaderTypes, ClosingIsOnce, [histNext]_histVars PROVE ClosingIsOnce'
  OBVIOUS
<1>0. faults \in Nat /\ slots \in Slots
  BY DEF ReaderTypes
<1>00. "idle" \notin Looking \cup Ending /\ Looking \cap Ending = {} /\ "finish" \in Ending /\ "closing" \in Ending /\ "over" \in Ending
  BY DEF Looking, Ending
<1>O. ASSUME UNCHANGED slots PROVE StillOpen' = StillOpen
  BY <1>O DEF StillOpen
<1>1. ASSUME UNCHANGED <<reader, slots, faults>> PROVE ClosingIsOnce'
  <2>1. Tried' = Tried
    BY <1>1 DEF Tried
  <2> QED BY <1>1, <1>O, <2>1 DEF ClosingIsOnce
<1>2. CASE Elsewhere
  BY <1>1, <1>2 DEF Elsewhere
<1>3. CASE Starts
  <2>1. reader'.pc = "opening" /\ ~reader'.error /\ slots' = slots /\ reader.pc \notin Ending
    BY <1>3, <1>00 DEF Starts
  <2>2. reader'.pc \notin Ending
    BY <2>1 DEF Ending
  <2> QED BY <2>1, <2>2, <1>00 DEF ClosingIsOnce
<1>4. CASE Looks
  <2>1. reader'.pc \in Looking /\ reader.pc \in Looking /\ reader'.error = reader.error /\ faults' = faults
    BY <1>4 DEF Looks
  <2>2. \A i \in Directories : slots[i].closes = 0
    BY <2>1, <1>00 DEF ClosingIsOnce
  <2>3. \A i \in Directories : slots'[i].closes = 0
    <3>1. ASSUME NEW d \in Directories, slots' = [slots EXCEPT ![d].state = "open"], NEW i \in Directories PROVE slots'[i].closes = slots[i].closes
      BY ONLY <3>1, <1>0, SMT DEF Slots
    <3>2. slots' = slots \/ \E d \in Directories : slots' = [slots EXCEPT ![d].state = "open"]
      BY <1>4 DEF Looks
    <3> QED BY <2>2, <3>1, <3>2
  <2>4. \A i \in Directories : slots'[i].closes <= 1
    BY <2>3, SMT
  <2> QED BY <2>1, <2>3, <2>4, <1>00 DEF ClosingIsOnce
<1>5. CASE Refusal
  <2>1. reader'.pc = "finish" /\ reader'.error /\ slots' = slots /\ faults' = faults + 1
    BY <1>5 DEF Refusal
  <2>2. faults' >= 1
    BY <2>1, <1>0, SMT
  <2> QED BY <2>1, <2>2, <1>00 DEF ClosingIsOnce
<1>6. CASE Answers
  <2>1. reader'.pc = "finish" /\ reader'.error = reader.error /\ slots' = slots /\ faults' = faults /\ reader'.answered
    BY <1>6 DEF Answers
  <2> QED BY <2>1, <1>00 DEF ClosingIsOnce
<1>7. CASE Sweeps
  <2>1. /\ reader.pc = "finish" /\ reader'.pc = "closing" /\ reader'.error = reader.error /\ slots' = slots /\ faults' = faults
        /\ reader'.answered = reader.answered
    BY <1>7 DEF Sweeps
  <2>2. Tried' = {}
    BY <1>7 DEF Sweeps, Tried
  <2> QED BY <2>1, <2>2, <1>00 DEF ClosingIsOnce
<1>8. ASSUME NEW i \in Directories, Closes(i) PROVE ClosingIsOnce'
  <2>1. /\ reader.pc = "closing" /\ reader'.pc = "closing" /\ i \in ToFinish /\ reader'.answered = reader.answered
        /\ reader'.todo = reader.todo \cup {<<i, "tried">>}
    BY <1>8 DEF Closes
  <2>2. slots[i].state = "open"
    BY <2>1 DEF ToFinish, Unfinished
  <2>3. slots[i].closes = 0
    BY <2>2 DEF ClosingIsOnce
  <2>4. \/ faults' = faults /\ reader'.error = reader.error /\ slots' = [slots EXCEPT ![i] = [state |-> "closed", closes |-> @.closes + 1]]
        \/ faults' = faults + 1 /\ reader'.error = TRUE /\ (slots' = slots \/ slots' = [slots EXCEPT ![i] = [state |-> "closed", closes |-> @.closes + 1]])
    BY <1>8 DEF Closes
  <2>5. ASSUME slots' = [slots EXCEPT ![i] = [state |-> "closed", closes |-> @.closes + 1]]
        PROVE  slots'[i].state = "closed" /\ slots'[i].closes = 1 /\ \A j \in Directories \ {i} : slots'[j] = slots[j]
    BY ONLY <2>3, <2>5, <1>0, SMT DEF Slots
  <2>6. faults' \in Nat /\ faults' >= faults /\ (reader.error => reader'.error)
    BY ONLY <2>4, <1>0, SMT
  <2>7. reader'.error => faults' >= 1
    <3>1. CASE faults' = faults /\ reader'.error = reader.error
      BY <3>1 DEF ClosingIsOnce
    <3>2. CASE faults' = faults + 1
      BY ONLY <3>2, <1>0, SMT
    <3> QED BY <2>4, <3>1, <3>2
  <2>8. ASSUME NEW j \in Tried', j # i PROVE j \in Tried
    <3>1. <<i, "tried">>[1] = i
      OBVIOUS
    <3> QED BY <2>1, <2>8, <3>1 DEF Tried
  <2>9. ~reader.answered => reader.error
    BY <2>1, <1>00 DEF ClosingIsOnce
  <2>10. ASSUME NEW j \in Directories PROVE slots'[j].closes <= 1 /\ (slots'[j].state # "closed" => slots'[j].closes = 0)
    <3>1. CASE slots' = slots
      BY <3>1 DEF ClosingIsOnce
    <3>2. CASE slots' = [slots EXCEPT ![i] = [state |-> "closed", closes |-> @.closes + 1]]
      <4>1. CASE j = i
        BY <4>1, <3>2, <2>5, SMT
      <4>2. CASE j # i
        BY <4>2, <3>2, <2>5 DEF ClosingIsOnce
      <4> QED BY <4>1, <4>2
    <3> QED BY <2>4, <3>1, <3>2
  <2>11. ASSUME NEW j \in StillOpen', j \in Tried' PROVE reader'.error /\ (~reader'.answered => faults' >= 2)
    <3>0. j \in Directories /\ slots'[j].state = "open"
      BY <2>11 DEF StillOpen
    <3>1. CASE j = i
      <4>1. slots' = slots /\ faults' = faults + 1 /\ reader'.error
        BY <3>0, <3>1, <2>4, <2>5
      <4>2. ~reader.answered => faults >= 1
        BY <2>9 DEF ClosingIsOnce
      <4>3. faults >= 1 => faults' >= 2
        BY ONLY <4>1, <1>0, SMT
      <4> QED BY <4>1, <4>2, <4>3, <2>1
    <3>2. CASE j # i
      <4>1. j \in StillOpen /\ j \in Tried
        BY <3>0, <3>2, <2>4, <2>5, <2>8, <2>11 DEF StillOpen
      <4>2. reader.error /\ (~reader.answered => faults >= 2)
        BY <2>1, <4>1 DEF ClosingIsOnce
      <4>3. faults >= 2 => faults' >= 2
        BY ONLY <2>6, <1>0, SMT
      <4> QED BY <4>2, <4>3, <2>1, <2>6
    <3> QED BY <3>1, <3>2
  <2> QED BY <2>1, <2>6, <2>7, <2>9, <2>10, <2>11, <1>00 DEF ClosingIsOnce
<1>9. CASE Swept
  <2>1. /\ reader.pc = "closing" /\ Unfinished = {} /\ reader'.error = reader.error /\ slots' = slots /\ faults' = faults
        /\ StillOpen' = StillOpen
    BY <1>9, <1>O DEF Swept
  <2>2. CASE reader.answered /\ reader.error /\ reader'.pc = "finish" /\ reader'.answered = FALSE
    BY <2>1, <2>2, <1>00 DEF ClosingIsOnce
  <2>3. CASE ~(reader.answered /\ reader.error) /\ reader'.pc = "over" /\ reader'.answered = reader.answered
    <3>1. ASSUME NEW j \in StillOpen PROVE faults >= 2
      <4>1. j \in Tried
        BY <2>1, <3>1 DEF StillOpen, Unfinished
      <4> QED BY <2>1, <2>3, <4>1 DEF ClosingIsOnce
    <3>2. StillOpen # {} => faults >= 2
      BY <3>1
    <3>3. ~reader.answered => reader.error
      BY <2>1, <1>00 DEF ClosingIsOnce
    <3> QED BY <2>1, <2>3, <3>2, <3>3, <1>00 DEF ClosingIsOnce
  <2> QED BY <1>9, <2>2, <2>3 DEF Swept
<1>10. CASE UNCHANGED histVars
  BY <1>1, <1>10 DEF histVars
<1> QED BY <1>2, <1>3, <1>4, <1>5, <1>6, <1>7, <1>8, <1>9, <1>10, StepKinds

\* A reserve that fits leaves room for what it pays for.
LEMMA Room ==
    \A a, r, m \in Nat : \A k \in 0 .. 4 : a + r <= m /\ r >= 8 => a + 2 * k <= m /\ a + k <= m /\ a <= m
BY SMT

\* One call more, one close less to pay.
LEMMA Less ==
    \A a, m \in Nat : \A l, k, n \in 0 .. 4 : a + l + k <= m /\ n <= k => (a + 1) + (l - 1) + n <= m
BY SMT

\* Every step keeps the closes that may still come within the budget.
LEMMA BudgetStep == ReaderTypes /\ Budgeted /\ [histNext]_histVars => Budgeted'
<1> SUFFICES ASSUME ReaderTypes, Budgeted, [histNext]_histVars PROVE Budgeted'
  OBVIOUS
<1> DEFINE open == Cardinality(StillOpen)
           left == Cardinality(Unfinished)
<1>0. calls \in Nat /\ OsLimit \in Nat /\ CleanupReserve \in Nat /\ CleanupReserve >= 8
  <2>1. CleanupReserve >= 2 * Cardinality(Directories) /\ CleanupReserve \in Nat /\ OsLimit \in Nat
    BY HistoryAssumption
  <2>2. CleanupReserve >= 8
    BY ONLY <2>1, DirectorySets, SMT
  <2> QED BY <2>1, <2>2 DEF ReaderTypes
<1>00. "idle" \notin Looking \cup Ending /\ Looking \cap Ending = {} /\ "finish" \in Ending /\ "closing" \in Ending /\ "over" \in Ending
  BY DEF Looking, Ending
<1>T. calls' \in Nat
  BY ReaderTypesStep DEF ReaderTypes
<1>F. /\ open \in 0 .. 4 /\ left \in 0 .. 4 /\ open' \in 0 .. 4 /\ left' \in 0 .. 4
      /\ IsFiniteSet(StillOpen) /\ IsFiniteSet(Unfinished)
  <2>1. StillOpen \in SUBSET Directories /\ Unfinished \in SUBSET Directories
    BY DEF StillOpen, Unfinished
  <2>2. StillOpen' \in SUBSET Directories /\ Unfinished' \in SUBSET Directories
    BY DEF StillOpen, Unfinished
  <2> QED BY <2>1, <2>2, DirectorySets
<1>C. /\ reader.pc = "finish" => (IF reader.answered THEN calls + 2 * open <= OsLimit ELSE calls + open <= OsLimit)
      /\ reader.pc = "closing" => (IF reader.answered THEN calls + left + open <= OsLimit ELSE calls + left <= OsLimit)
  <2>1. calls + Owed <= OsLimit
    BY DEF Budgeted
  <2> HIDE DEF open, left
  <2> QED BY ONLY <2>1, <1>0, <1>F, SMT DEF Owed, open, left
<1>L. reader.pc \in Looking \cup {"idle"} => (calls = 0 /\ StillOpen = {}) \/ calls + CleanupReserve <= OsLimit
  BY DEF Budgeted
<1>E. StillOpen' = {} => open' = 0
  BY FS_EmptySet
<1>O. UNCHANGED slots => StillOpen' = StillOpen
  BY DEF StillOpen
<1>1. ASSUME reader'.pc = "finish", IF reader'.answered THEN calls' + 2 * open' <= OsLimit ELSE calls' + open' <= OsLimit PROVE Budgeted'
  <2>1. calls' + Owed' <= OsLimit
    <3> HIDE DEF open, left
    <3> QED BY ONLY <1>1, <1>T, <1>F, SMT DEF Owed, open
  <2> QED BY <1>1, <2>1, <1>00 DEF Budgeted
<1>2. ASSUME reader'.pc = "closing", IF reader'.answered THEN calls' + left' + open' <= OsLimit ELSE calls' + left' <= OsLimit PROVE Budgeted'
  <2>1. calls' + Owed' <= OsLimit
    <3> HIDE DEF open, left
    <3> QED BY ONLY <1>2, <1>0, <1>T, <1>F, SMT DEF Owed, open, left
  <2> QED BY <1>2, <2>1, <1>00 DEF Budgeted
<1>3. CASE Elsewhere \/ UNCHANGED histVars
  <2>1. UNCHANGED <<reader, slots, calls>>
    BY <1>3 DEF Elsewhere, histVars
  <2>2. StillOpen' = StillOpen /\ Unfinished' = Unfinished
    BY <2>1 DEF StillOpen, Unfinished, Tried
  <2>3. Owed' = Owed
    BY <2>1, <2>2 DEF Owed
  <2> QED BY <2>1, <2>2, <2>3 DEF Budgeted
<1>4. CASE Starts \/ Looks
  <2>1. reader'.pc \in Looking /\ reader.pc \in Looking \cup {"idle"}
    BY <1>4 DEF Starts, Looks, Looking
  <2>2. (calls' = 0 /\ StillOpen' = {}) \/ calls' + CleanupReserve <= OsLimit
    BY <1>4, <2>1, <1>L, <1>O DEF Starts, Looks
  <2>3. calls' <= OsLimit
    <3>1. calls' + CleanupReserve <= OsLimit => calls' <= OsLimit
      BY <1>T, <1>0, <1>F, Room
    <3>2. calls' = 0 => calls' <= OsLimit
      BY ONLY <1>0, SMT
    <3> QED BY <2>2, <3>1, <3>2
  <2>4. Owed' = 0
    <3>1. reader'.pc # "finish" /\ reader'.pc # "closing"
      BY <2>1 DEF Looking
    <3> QED BY <3>1, SMT DEF Owed
  <2>5. calls' + Owed' <= OsLimit
    BY ONLY <2>3, <2>4, <1>T, SMT
  <2> QED BY <2>1, <2>2, <2>5, <1>00 DEF Budgeted
<1>5. CASE Refusal \/ Answers
  <2>1. reader.pc \in Looking /\ reader'.pc = "finish" /\ slots' = slots
    BY <1>5 DEF Refusal, Answers
  <2>2. (calls' = 0 /\ StillOpen' = {}) \/ calls' + CleanupReserve <= OsLimit
    BY <1>5, <2>1, <1>L, <1>O DEF Refusal, Answers
  <2>3. (calls' = 0 /\ open' = 0) \/ calls' + CleanupReserve <= OsLimit
    BY <2>2, <1>E
  <2>4. calls' + 2 * open' <= OsLimit /\ calls' + open' <= OsLimit
    <3> HIDE DEF open, left
    <3>1. calls' + CleanupReserve <= OsLimit => calls' + 2 * open' <= OsLimit /\ calls' + open' <= OsLimit
      BY <1>T, <1>0, <1>F, Room
    <3>2. calls' = 0 /\ open' = 0 => calls' + 2 * open' <= OsLimit /\ calls' + open' <= OsLimit
      BY ONLY <1>0, SMT
    <3> QED BY <2>3, <3>1, <3>2
  <2> QED BY <2>1, <2>4, <1>1
<1>6. CASE Sweeps
  <2>1. reader.pc = "finish" /\ reader'.pc = "closing" /\ slots' = slots /\ calls' = calls /\ reader'.answered = reader.answered
    BY <1>6 DEF Sweeps
  <2>2. StillOpen' = StillOpen /\ Unfinished' = StillOpen
    BY <1>6 DEF Sweeps, StillOpen, Unfinished, Tried
  <2>3. open' = open /\ left' = open
    BY <2>2
  <2>4. IF reader'.answered THEN calls' + left' + open' <= OsLimit ELSE calls' + left' <= OsLimit
    <3> HIDE DEF open, left
    <3> QED BY ONLY <2>1, <2>3, <1>C, <1>0, <1>F, SMT
  <2> QED BY <2>1, <2>4, <1>2
<1>7. ASSUME NEW i \in Directories, Closes(i) PROVE Budgeted'
  <2>1. /\ reader.pc = "closing" /\ reader'.pc = "closing" /\ reader'.answered = reader.answered /\ calls' = calls + 1
        /\ i \in ToFinish /\ reader'.todo = reader.todo \cup {<<i, "tried">>}
    BY <1>7 DEF Closes
  <2>2. i \in Unfinished
    BY <2>1 DEF ToFinish
  <2>3. Tried' = Tried \cup {i}
    <3>1. <<i, "tried">>[1] = i /\ <<i, "tried">>[2] = "tried"
      OBVIOUS
    <3>2. Tried' = {file[1] : file \in {x \in reader.todo \cup {<<i, "tried">>} : x[2] = "tried"}}
      BY <2>1 DEF Tried
    <3> QED BY <3>1, <3>2 DEF Tried
  <2>4. StillOpen' \subseteq StillOpen /\ \A j \in StillOpen : j # i => j \in StillOpen'
    <3>0. slots \in Slots
      BY DEF ReaderTypes
    <3>1. ASSUME slots' = [slots EXCEPT ![i] = [state |-> "closed", closes |-> @.closes + 1]]
          PROVE  slots'[i].state = "closed" /\ \A j \in Directories \ {i} : slots'[j] = slots[j]
      BY ONLY <3>0, <3>1, SMT DEF Slots
    <3>2. slots' = slots \/ slots' = [slots EXCEPT ![i] = [state |-> "closed", closes |-> @.closes + 1]]
      BY <1>7 DEF Closes
    <3>3. CASE slots' = slots
      BY <3>3, <1>O
    <3>4. CASE slots' = [slots EXCEPT ![i] = [state |-> "closed", closes |-> @.closes + 1]]
      BY <3>1, <3>4 DEF StillOpen
    <3> QED BY <3>2, <3>3, <3>4
  <2>5. Unfinished' = Unfinished \ {i}
    <3>1. Unfinished = StillOpen \ Tried /\ Unfinished' = StillOpen' \ Tried'
      BY DEF Unfinished, StillOpen
    <3> QED BY <3>1, <2>3, <2>4
  <2>6. left' = left - 1
    BY <2>2, <2>5, <1>F, FS_RemoveElement
  <2>7. open' <= open
    BY <2>4, <1>F, FS_Subset
  <2>8. IF reader'.answered THEN calls' + left' + open' <= OsLimit ELSE calls' + left' <= OsLimit
    <3> HIDE DEF open, left
    <3>1. CASE reader.answered
      <4>1. calls + left + open <= OsLimit
        BY <2>1, <3>1, <1>C
      <4>2. calls' + left' + open' <= OsLimit
        BY <4>1, <2>1, <2>6, <2>7, <1>0, <1>F, Less
      <4> QED BY <2>1, <3>1, <4>2
    <3>2. CASE ~reader.answered
      <4>1. calls + left <= OsLimit
        BY <2>1, <3>2, <1>C
      <4>2. calls' + left' <= OsLimit
        BY ONLY <4>1, <2>1, <2>6, <1>0, <1>F, SMT
      <4> QED BY <2>1, <3>2, <4>2
    <3> QED BY <3>1, <3>2
  <2> QED BY <2>1, <2>8, <1>2
<1>8. CASE Swept
  <2>1. reader.pc = "closing" /\ slots' = slots /\ calls' = calls
    BY <1>8 DEF Swept
  <2>2. open' = open
    BY <2>1, <1>O
  <2>3. CASE reader'.pc = "finish"
    <3>1. reader.answered /\ ~reader'.answered
      BY <1>8, <2>3 DEF Swept
    <3>2. calls' + open' <= OsLimit
      <4> HIDE DEF open, left
      <4> QED BY ONLY <3>1, <2>1, <2>2, <1>C, <1>0, <1>F, SMT
    <3> QED BY <2>3, <3>1, <3>2, <1>1
  <2>4. CASE reader'.pc = "over"
    <3>1. Owed' = 0
      BY <2>4, SMT DEF Owed
    <3>2. calls' <= OsLimit
      <4> HIDE DEF open, left
      <4> QED BY ONLY <2>1, <1>C, <1>0, <1>F, SMT
    <3>3. calls' + Owed' <= OsLimit
      BY ONLY <3>1, <3>2, <1>T, SMT
    <3> QED BY <2>4, <3>3, <1>00 DEF Budgeted
  <2> QED BY <1>8, <2>3, <2>4 DEF Swept
<1> QED BY <1>3, <1>4, <1>5, <1>6, <1>7, <1>8, StepKinds

-----------------------------------------------------------------------------
\* The first state satisfies the invariant.
LEMMA HistInit == histInit => HistInv
<1> SUFFICES ASSUME histInit PROVE HistInv
  OBVIOUS
<1>1. /\ reader.pc = "idle" /\ reader.answered = FALSE /\ reader.error = FALSE
  BY SMT DEF histInit, Unread
<1>2. \A i \in Directories : slots[i].state = "free" /\ slots[i].closes = 0
  BY SMT DEF histInit
<1>3. StillOpen = {}
  BY <1>2 DEF StillOpen
<1>4. ReaderTypes
  <2>1. reader \in Readers
    <3>1. [d \in Directories |-> {}] \in Listings /\ [d \in Directories |-> 0] \in Stamps /\ NoVersions \in Versions
      BY SMT DEF Listings, Stamps, Versions, NoVersions
    <3> QED BY <3>1, PlaceTypes, SMT DEF Unread, Readers, histInit
  <2>2. reached \in [Pubs -> 0 .. 4]
    BY SMT DEF histInit
  <2>3. version \in Versions /\ stamp \in Stamps /\ slots \in Slots
    BY SMT DEF histInit, NoVersions, Versions, Stamps, Slots
  <2>4. calls \in Nat /\ faults \in Nat
    BY SMT DEF histInit
  <2> QED BY <2>1, <2>2, <2>3, <2>4 DEF ReaderTypes
<1>5. AnswerIsHeld
  BY <1>1 DEF AnswerIsHeld
<1>6. ClosingIsOnce
  <2>1. \A i \in Directories : slots[i].closes <= 1
    BY <1>2, SMT
  <2> QED BY <1>1, <1>2, <2>1 DEF ClosingIsOnce, Ending
<1>7. Budgeted
  <2>1. Owed = 0
    BY <1>1, SMT DEF Owed
  <2>2. calls = 0
    BY DEF histInit
  <2>3. calls + Owed <= OsLimit
    BY ONLY <2>1, <2>2, HistoryAssumption, SMT
  <2> QED BY <1>3, <2>2, <2>3 DEF Budgeted
<1> QED BY <1>4, <1>5, <1>6, <1>7 DEF HistInv

\* The invariant is enough.
LEMMA HistInvHolds == HistInv => HistoryWasShown
<1> SUFFICES ASSUME HistInv PROVE HistoryWasShown
  OBVIOUS
<1>1. AnswerWasShown
  BY DEF HistInv, AnswerIsHeld, AnswerWasShown
<1>2. DescriptorsClosedOnce
  <2>1. faults \in Nat
    BY DEF HistInv, ReaderTypes
  <2>2. faults <= 1 => ~(faults >= 2)
    BY <2>1, SMT
  <2> QED BY <2>2 DEF HistInv, ClosingIsOnce, DescriptorsClosedOnce, StillOpen
<1>3. CleanupIsAffordable
  <2>1. calls + Owed <= OsLimit /\ calls \in Nat
    BY DEF HistInv, Budgeted, ReaderTypes
  <2>2. Owed \in Nat
    <3>1. Cardinality(StillOpen) \in 0 .. 4 /\ Cardinality(Unfinished) \in 0 .. 4
      BY DirectorySets DEF StillOpen, Unfinished
    <3> QED BY ONLY <3>1, SMT DEF Owed
  <2> QED BY ONLY <2>1, <2>2, HistoryAssumption, SMT DEF CleanupIsAffordable
<1> QED BY <1>1, <1>2, <1>3 DEF HistoryWasShown

\* Whatever is published while an attempt's history is read and whichever system
\* calls raise: an answer of read_history is one state the directory was in, no
\* descriptor is closed twice or left open but after two exceptions, and the
\* cleanup stays within the reserved system calls.
THEOREM HistoryStaysShown == histSpec => []HistoryWasShown
<1>1. HistInv /\ [histNext]_histVars => HistInv'
  BY ReaderTypesStep, AnswerIsHeldStep, ClosingStep, BudgetStep DEF HistInv
<1> QED BY HistInit, <1>1, HistInvHolds, PTL DEF histSpec
=============================================================================
