-------------------------- MODULE ProvenanceChain --------------------------
(***************************************************************************)
(* The signed provenance records of a tenant and the re-partition of a     *)
(* snapshot's findings after the differential oracle disagreed with the    *)
(* closed-world detector.  The store is append-only and keyed by record    *)
(* id; repartition_snapshot is called once per delivery of a queue message *)
(* and so may run twice, at the same time, or stop half-way.               *)
(*                                                                         *)
(* Storage faults (a stored row, a SARIF blob or a public key changes or   *)
(* goes away) are not steps of the program: they are what verify_chain is  *)
(* for.  `signed` and `flipped` are history: what was signed under an id,  *)
(* and which call appended a re-partition row.                             *)
(***************************************************************************)
EXTENDS Integers, FiniteSets

CONSTANTS
    Ids,          \* the record ids, in the order they are drawn
    Snapshots,    \* the snapshots (each with one scan, and so one SARIF blob)
    Calls,        \* the deliveries of a re-partition message
    RunIds,       \* the ids of oracle runs
    Inputs,       \* the records a scan asks to have signed
    None,         \* Python's None
    MaxVersion,   \* bound on key rotations
    MaxFaults,    \* bound on storage faults
    MaxDamaged    \* bound on the rows in a store that has faults

\* The fields of a ProvenanceRecord that a guard, a digest or a verdict reads.
RecordFields == {"parent", "type", "annotated", "snapshot", "origin", "engine", "class", "hash", "sarif",
                 "precondition", "run", "schema", "identity"}

ASSUME ProvenanceAssumption ==
    /\ Ids \subseteq Nat /\ None \notin Ids /\ MaxVersion \in Nat /\ MaxFaults \in Nat
    /\ \A r \in Inputs : DOMAIN r = RecordFields

VARIABLES rows, signed, keyVersion, keys, blobs, oracle, call, flipped, overlap, damage
provVars == <<rows, signed, keyVersion, keys, blobs, oracle, call, flipped, overlap, damage>>

CORE == "deterministic-core"
ORACLE == "oracle-passthrough"
CORE_ENGINES == {"ifds", "ide"}

\* The identities of a version-2 record: the graph and slice states, and
\* whether their digests are the record's own.
Identity == [graph : {"completed", "unavailable"}, slice : {"completed", "unavailable"}, match : BOOLEAN]

\* A record has canonical bytes only if its version and its identities agree.
HasCanonicalBytes(r) ==
    /\ r.schema \in {1, 2}
    /\ r.schema = 1 => r.identity = None
    /\ r.schema = 2 =>
        /\ r.identity # None /\ r.class = None
        /\ r.origin = CORE => r.identity.graph = "completed" /\ r.identity.slice = "completed" /\ r.precondition # None
        /\ r.identity.match

\* The bytes: every field, but for version 1 not the two that version 2 added.
CanonicalRecordBytes(r) ==
    IF r.schema = 2 THEN r
    ELSE [r EXCEPT !.schema = None, !.identity = None]

\* The guards of sign_provenance before it calls the key service.
MayBeSigned(r) ==
    /\ r.annotated
    /\ r.type \in {"chain", "repartition"} => r.origin # None
    /\ HasCanonicalBytes(r)

\* kms:Sign answers with the version of the key it used.
Sign(r) == [record |-> r, canonical |-> CanonicalRecordBytes(r), version |-> keyVersion,
            signature |-> [version |-> keyVersion, message |-> CanonicalRecordBytes(r)]]

\* Mutant of VerifySignature: the stored canonical_bytes are trusted.
VerifySignature_Stored(row) == row.signature = [version |-> row.version, message |-> row.canonical]

\* The signature is checked against bytes made from the row, never against the
\* canonical_bytes stored beside it.
VerifySignature(row) == row.signature = [version |-> row.version, message |-> CanonicalRecordBytes(row.record)]

Children(id) == {i \in DOMAIN rows : rows[i].record.parent = id}

VerifyArtifacts(r) ==
    IF ~r.sarif \/ blobs[r.snapshot] = "intact" THEN "VERIFIED"
    ELSE IF blobs[r.snapshot] = "gone" THEN "ARTIFACT_MISSING" ELSE "TAMPERED"

\* The verdict on a stored record, with the artifact store and the record
\* store supplied.
VerifyChain[id \in Ids] ==
    LET row == rows[id]
        parent == row.record.parent
    IN  IF ~HasCanonicalBytes(row.record) THEN "TAMPERED"
        ELSE IF row.version \notin keys THEN "KEY_NOT_FOUND"
        ELSE IF ~VerifySignature(row) THEN "TAMPERED"
        ELSE IF VerifyArtifacts(row.record) # "VERIFIED" THEN VerifyArtifacts(row.record)
        ELSE IF row.record.type # "repartition" THEN "VERIFIED"
        ELSE IF parent = None THEN "TAMPERED"
        ELSE IF parent \notin DOMAIN rows THEN "ARTIFACT_MISSING"
        ELSE VerifyChain[parent]

\* What the auditor is given: the record, its envelope and its re-partitions.
ExportAuditorRecord(id) ==
    [record |-> rows[id].record, signature |-> rows[id].signature,
     history |-> {[id |-> c, run |-> rows[c].record.run, origin |-> rows[c].record.origin] : c \in Children(id)}]

IsCoreAtRisk(r) == r.type = "chain" /\ r.origin = CORE /\ r.engine \in CORE_ENGINES

\* Mutant of AlreadyRepartitioned: a redelivery does not look for the row.
AlreadyRepartitioned_Never(id) == FALSE

AlreadyRepartitioned(id) == \E c \in Children(id) : rows[c].record.type = "repartition"
EffectiveOrigin(id) ==
    IF AlreadyRepartitioned(id) \/ rows[id].record.origin = None THEN ORACLE ELSE rows[id].record.origin

\* The row append_repartition_event builds: a version-1 record that keeps the
\* parent's links except for the graph hash, and is always the oracle's.
Repartition(base, id, run) ==
    [base EXCEPT !.parent = id, !.type = "repartition", !.annotated = TRUE, !.class = None,
                 !.hash = None, !.origin = ORACLE, !.run = run, !.schema = 1, !.identity = None]

-----------------------------------------------------------------------------
Idle == [pc |-> "idle", snapshot |-> None, run |-> None, candidates |-> {}, left |-> {}, flips |-> {},
         affected |-> 0, already |-> 0]

provInit ==
    /\ rows = <<>> /\ signed = <<>> /\ flipped = <<>>
    /\ keyVersion = 1 /\ keys = {1}
    /\ blobs = [s \in Snapshots |-> "intact"]
    /\ oracle = <<>> /\ overlap = {} /\ damage = 0
    /\ call = [c \in Calls |-> Idle]

\* uuid4 never repeats: the ids ever drawn are the domain of `signed`.
Fresh == {i \in Ids : i \notin DOMAIN signed /\ \A j \in Ids \ DOMAIN signed : i <= j}

\* Mutant of Store: a re-partition is written over the row of its parent.
Store_InPlace(id, r) ==
    LET at == IF r.parent = None THEN id ELSE r.parent
    IN  /\ rows' = [i \in DOMAIN rows \cup {at} |-> IF i = at THEN Sign(r) ELSE rows[i]]
        /\ signed' = [i \in DOMAIN signed \cup {id} |-> IF i = id THEN r ELSE signed[i]]

Store(id, r) ==
    /\ rows' = [i \in DOMAIN rows \cup {id} |-> IF i = id THEN Sign(r) ELSE rows[i]]
    /\ signed' = [i \in DOMAIN signed \cup {id} |-> IF i = id THEN r ELSE signed[i]]

\* A scan has a record signed and stored; what fails a guard stores nothing.
SignProvenance(r) ==
    /\ MayBeSigned(r)
    /\ \E id \in Fresh : Store(id, r)
    /\ UNCHANGED <<keyVersion, keys, blobs, oracle, call, flipped, overlap, damage>>

\* The tenant's key gets new material; the old public keys stay available.
RotateKey ==
    /\ keyVersion < MaxVersion
    /\ keyVersion' = keyVersion + 1 /\ keys' = keys \cup {keyVersion + 1}
    /\ UNCHANGED <<rows, signed, blobs, oracle, call, flipped, overlap, damage>>

\* An oracle run is recorded once under its id; an agreement has no sites.
RecordOracleRun(run, snapshot, verdict, sites) ==
    /\ verdict = "closed-world" => sites = 0
    /\ run \notin DOMAIN oracle
    /\ oracle' = [i \in DOMAIN oracle \cup {run} |->
                    IF i = run THEN [snapshot |-> snapshot, agreed |-> verdict = "closed-world", sites |-> sites]
                    ELSE oracle[i]]
    /\ UNCHANGED <<rows, signed, keyVersion, keys, blobs, call, flipped, overlap, damage>>

\* An oracle that cannot run leaves every label as it is.
RecordSafeDefaultAgreement(run, snapshot) == RecordOracleRun(run, snapshot, "closed-world", 0)

\* A message of a disagreement is delivered (again).
Deliver(c) ==
    /\ call[c].pc = "idle"
    /\ \E run \in DOMAIN oracle :
        /\ ~oracle[run].agreed
        /\ call' = [call EXCEPT ![c] = [Idle EXCEPT !.pc = "query", !.run = run, !.snapshot = oracle[run].snapshot]]
    /\ overlap' = overlap \cup {{c, d} : d \in {d \in Calls : call[d].pc \in {"query", "check", "append"}}}
    /\ UNCHANGED <<rows, signed, keyVersion, keys, blobs, oracle, flipped, damage>>

\* The candidates are read once.
QueryCandidates(c) ==
    /\ call[c].pc = "query"
    /\ LET found == {i \in DOMAIN rows : rows[i].record.snapshot = call[c].snapshot /\ IsCoreAtRisk(rows[i].record)}
       IN  call' = [call EXCEPT ![c].pc = "check", ![c].candidates = found, ![c].left = found]
    /\ UNCHANGED <<rows, signed, keyVersion, keys, blobs, oracle, flipped, overlap, damage>>

\* The next candidate: already flipped, or to be flipped.
CheckCandidate(c) ==
    /\ call[c].pc = "check" /\ call[c].left # {}
    /\ \E id \in call[c].left :
        /\ \A j \in call[c].left : id <= j
        /\ call' = IF AlreadyRepartitioned(id)
                   THEN [call EXCEPT ![c].left = @ \ {id}, ![c].already = @ + 1]
                   ELSE [call EXCEPT ![c].pc = "append"]
    /\ UNCHANGED <<rows, signed, keyVersion, keys, blobs, oracle, flipped, overlap, damage>>

\* The re-partition row of the candidate just checked is signed and stored,
\* unless the parent is no longer there.
AppendRepartitionEvent(c) ==
    /\ call[c].pc = "append"
    /\ \E id \in call[c].left, new \in Fresh :
        /\ \A j \in call[c].left : id <= j
        /\ id \in DOMAIN rows
        /\ Store(new, Repartition(rows[id].record, id, call[c].run))
        /\ flipped' = [i \in DOMAIN flipped \cup {new} |-> IF i = new THEN c ELSE flipped[i]]
        /\ call' = [call EXCEPT ![c].pc = "check", ![c].left = @ \ {id}, ![c].flips = @ \cup {new},
                                ![c].affected = @ + 1]
    /\ UNCHANGED <<keyVersion, keys, blobs, oracle, overlap, damage>>

Return(c) ==
    /\ call[c].pc = "check" /\ call[c].left = {}
    /\ call' = [call EXCEPT ![c].pc = "returned"]
    /\ UNCHANGED <<rows, signed, keyVersion, keys, blobs, oracle, flipped, overlap, damage>>

\* A missing parent, a key service that fails or the death of the worker ends
\* a call; the message is delivered again.
Abandon(c) ==
    /\ call[c].pc \in {"query", "check", "append"}
    /\ call' = [call EXCEPT ![c].pc = "failed"]
    /\ UNCHANGED <<rows, signed, keyVersion, keys, blobs, oracle, flipped, overlap, damage>>

-----------------------------------------------------------------------------
\* Storage faults.
Alterations(row) ==
    {[row EXCEPT !.record.origin = ORACLE], [row EXCEPT !.record.origin = CORE], [row EXCEPT !.record.sarif = FALSE],
     [row EXCEPT !.record.parent = None], [row EXCEPT !.record.type = "chain"],
     [row EXCEPT !.record.schema = 2], [row EXCEPT !.record.schema = 1],
     [row EXCEPT !.record.identity = [graph |-> "completed", slice |-> "completed", match |-> TRUE]],
     [row EXCEPT !.version = MaxVersion], [row EXCEPT !.canonical = None]} \ {row}
AlterRow == \E i \in DOMAIN rows : \E row \in Alterations(rows[i]) : rows' = [rows EXCEPT ![i] = row]
LoseRow == \E i \in DOMAIN rows : rows' = [j \in DOMAIN rows \ {i} |-> rows[j]]
Damage ==
    /\ damage < MaxFaults /\ damage' = damage + 1
    /\ Cardinality(DOMAIN rows) <= MaxDamaged
    /\ \/ (AlterRow \/ LoseRow) /\ UNCHANGED <<keys, blobs>>
       \/ \E v \in keys : keys' = keys \ {v} /\ UNCHANGED <<rows, blobs>>
       \/ \E s \in Snapshots, b \in {"changed", "gone"} : blobs' = [blobs EXCEPT ![s] = b] /\ UNCHANGED <<rows, keys>>
    /\ UNCHANGED <<signed, keyVersion, oracle, call, flipped, overlap>>

provNext ==
    \/ \E r \in Inputs : SignProvenance(r)
    \/ RotateKey
    \/ \E run \in RunIds, s \in Snapshots :
        \/ \E verdict \in {"closed-world", "not-closed-world"}, sites \in 0..1 : RecordOracleRun(run, s, verdict, sites)
        \/ RecordSafeDefaultAgreement(run, s)
    \/ \E c \in Calls :
        \/ Deliver(c) \/ QueryCandidates(c) \/ CheckCandidate(c)
        \/ AppendRepartitionEvent(c) \/ Return(c) \/ Abandon(c)
    \/ Damage

provSpec == provInit /\ [][provNext]_provVars

-----------------------------------------------------------------------------
\* While storage is sound, a call of repartition_snapshot that returned left
\* every core finding its query saw in the oracle partition, whoever flipped
\* it, and counted each of them once: as affected or as already flipped.
FlipsAreWhole ==
    \A c \in Calls : damage = 0 /\ call[c].pc = "returned" =>
        /\ \A id \in call[c].candidates : EffectiveOrigin(id) = ORACLE
        /\ call[c].affected + call[c].already = Cardinality(call[c].candidates)
        /\ call[c].affected = Cardinality(call[c].flips)

\* A finding is flipped twice only by calls that ran at the same time: a
\* redelivery after the first call ended, even half-way, finds its rows
\* (_already_repartitioned).
FlipsOverlap ==
    damage = 0 => \A i, j \in DOMAIN flipped :
        i # j /\ rows[i].record.parent = rows[j].record.parent => {flipped[i], flipped[j]} \in overlap

\* Both: re-partition loses no finding and repeats none that it could see.
FlipsAreSound == FlipsAreWhole /\ FlipsOverlap

\* verify_chain answers VERIFIED exactly when the record and the parent of a
\* re-partition row read as they were signed, under keys that can be fetched,
\* and the SARIF blobs they name are there unchanged.
Sound(id) ==
    /\ CanonicalRecordBytes(rows[id].record) = CanonicalRecordBytes(signed[id]) /\ HasCanonicalBytes(rows[id].record)
    /\ rows[id].version \in keys /\ rows[id].version = rows[id].signature.version
    /\ rows[id].record.sarif => blobs[rows[id].record.snapshot] = "intact"
VerifyIsSound ==
    \A id \in DOMAIN rows :
        VerifyChain[id] = "VERIFIED"
            <=> /\ Sound(id)
                /\ signed[id].type = "repartition" => signed[id].parent \in DOMAIN rows /\ Sound(signed[id].parent)

\* While storage is sound the chain only grows: no stored row changes, no
\* finding returns from the oracle's partition to the core's, and what the
\* auditor was given of a record stays true, with its history extended.
OneWay ==
    [][damage' = 0 => \A id \in DOMAIN rows :
        /\ id \in DOMAIN rows' /\ rows'[id] = rows[id]
        /\ EffectiveOrigin(id) = ORACLE => EffectiveOrigin(id)' = ORACLE
        /\ ExportAuditorRecord(id).history \subseteq ExportAuditorRecord(id)'.history]_provVars
=============================================================================
