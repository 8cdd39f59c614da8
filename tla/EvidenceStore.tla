---------------------------- MODULE EvidenceStore ----------------------------
(***************************************************************************)
(* The crash-safe publication protocol of the runtime evidence store       *)
(* (tools/worker/runtime_evidence.py).  A scope (an attempt or a refusal)  *)
(* is a directory with a parent record and the members the parent refers   *)
(* to.  A publication p has up to three directory entries: its intent      *)
(* (staging/<id>.json), its staged bytes (staging/<id>.data) and, linked   *)
(* to the same inode, its final name.                                      *)
(*                                                                         *)
(* Every write to the file system is a step, so that a crash of the writer *)
(* or the loss of power can fall between any two.  The variables json,     *)
(* data, names and dirs are what a process sees; the variables that start  *)
(* with d are what has been fsynced.  A crash of the process keeps what it *)
(* saw, a loss of power keeps what was fsynced and, of everything younger, *)
(* an arbitrary part.                                                      *)
(*                                                                         *)
(* The flock on writer.lock lets one writer hold the store, so one program *)
(* counter is enough: "closed" is nobody holding the lock.  Readers change *)
(* nothing.  The census of the writer equals the directories, because only *)
(* the holder of the lock changes them.                                    *)
(***************************************************************************)
EXTENDS Naturals

CONSTANTS
    Scopes,       \* scope directories
    Pubs,         \* publications of all scopes, parents included
    scopeOf,      \* the scope of a publication
    parentOf,     \* manifest.json or refusal.json of a scope
    NoScope,      \* core.active is None
    MaxLosses     \* bound on losses of power

ASSUME EvidenceStoreAssumption ==
    /\ scopeOf \in [Pubs -> Scopes]
    /\ parentOf \in [Scopes -> Pubs]
    /\ \A s \in Scopes : scopeOf[parentOf[s]] = s
    /\ NoScope \notin Scopes
    /\ MaxLosses \in Nat

VARIABLES
    dirs, dDirs,    \* the directories of a scope: 0 absent, 1 some, 2 all
    json, dJson,    \* inode of an intent: 0 absent, 1 unfinished, 2 sealed
    data, dData,    \* inode of the published bytes, likewise
    names, dNames,  \* directory entries: "json", "stage", "final"
    pc,             \* where the writer is
    target,         \* the publication it works on
    active,         \* core.active
    acked,          \* publications a _PublicationAck was returned for
    losses

fs == <<dirs, json, data, names>>
disk == <<dDirs, dJson, dData, dNames>>
vars == <<dirs, dDirs, json, dJson, data, dData, names, dNames,
          pc, target, active, acked, losses>>

Entries == {"json", "stage", "final"}

Steps == {"mkdir", "mkdirs", "json-create", "json-seal", "json-sync", "json-dir",
          "data-create", "data-seal", "data-sync", "data-dir", "link", "unlink",
          "file-sync", "final-sync", "stage-sync", "file-resync", "final-resync",
          "intent-sync", "readback"}

Members(s) == {p \in Pubs : scopeOf[p] = s /\ p # parentOf[s]}

IsParent(p) == p = parentOf[scopeOf[p]]

\* The final names of p and q are entries of the same directory: blobs/ for
\* members, the scope directory for its parent.
SameDirectory(p, q) == scopeOf[p] = scopeOf[q] /\ (IsParent(p) <=> IsParent(q))

Init ==
    /\ dirs = [s \in Scopes |-> 0] /\ dDirs = dirs
    /\ json = [p \in Pubs |-> 0] /\ dJson = json
    /\ data = [p \in Pubs |-> 0] /\ dData = data
    /\ names = [p \in Pubs |-> {}] /\ dNames = names
    /\ pc = "closed" /\ target \in Pubs /\ active = NoScope
    /\ acked = {} /\ losses = 0

-----------------------------------------------------------------------------
(* fsync of the three directories: the entries now there, and only they,   *)
(* are on disk.                                                            *)

SyncedStaging(s) ==
    [p \in Pubs |-> IF scopeOf[p] = s
                    THEN (dNames[p] \cap {"final"}) \cup (names[p] \cap {"json", "stage"})
                    ELSE dNames[p]]

SyncedFinals(q) ==
    [p \in Pubs |-> IF SameDirectory(p, q)
                    THEN (dNames[p] \cap {"json", "stage"}) \cup (names[p] \cap {"final"})
                    ELSE dNames[p]]

-----------------------------------------------------------------------------
(* Opening the store.                                                      *)

\* What _cold_scope demands of one publication.  A staged member that was not
\* sealed is tolerated, as an unresolved one.
ColdPublication(p) ==
    /\ "json" \in names[p] => json[p] = 2 /\ names[p] \cap {"stage", "final"} # {}
    /\ "json" \notin names[p] => names[p] = {}
    /\ ("final" \in names[p] \/ (IsParent(p) /\ "stage" \in names[p])) => data[p] = 2

ColdScope(s) ==
    dirs[s] # 0 =>
        /\ dirs[s] = 2
        /\ "json" \in names[parentOf[s]]
        /\ \A p \in Pubs : scopeOf[p] = s => ColdPublication(p)

\* Variant: the census reads without fsync, as a reader's does.
Open_WithoutSync ==
    /\ pc = "closed"
    /\ \A s \in Scopes : ColdScope(s)
    /\ pc' = "idle" /\ active' = NoScope
    /\ UNCHANGED <<fs, disk, target, acked, losses>>

\* A new writer: flock, then the cold census of every scope, which fsyncs each
\* file it reads and each directory.  A census that is refused leaves nobody
\* holding the lock.
Open ==
    /\ pc = "closed"
    /\ \A s \in Scopes : ColdScope(s)
    /\ dJson' = json /\ dData' = data /\ dNames' = names
    /\ pc' = "idle" /\ active' = NoScope
    /\ UNCHANGED <<fs, dDirs, target, acked, losses>>

\* close() waits for no operation: the method lock is free or it raises.
Close ==
    /\ pc \in {"idle", "invalid"}
    /\ pc' = "closed" /\ active' = NoScope
    /\ UNCHANGED <<fs, disk, target, acked, losses>>

-----------------------------------------------------------------------------
(* The operations of the writer.  An operation that begins moves the       *)
(* program counter to its first write; a refused one changes nothing.      *)

Go(next) == pc' = next /\ UNCHANGED <<target, active, acked, losses>>

Start(p, next) == pc' = next /\ target' = p /\ UNCHANGED <<fs, disk, active, acked, losses>>

\* _publish: an unsealed staged file is an unsafe path and invalidates the core.
PublishFrom(p) ==
    IF "stage" \in names[p]
    THEN IF data[p] # 2 THEN "invalid"
         ELSE IF "final" \in names[p] THEN "unlink" ELSE "link"
    ELSE "file-resync"

\* _begin of a scope that is not there, or that is rebound.
BeginNew(s) ==
    /\ pc = "idle" /\ active = NoScope /\ dirs[s] = 0
    /\ Start(parentOf[s], "mkdir")

BeginAgain(s) ==
    /\ pc = "idle" /\ active = NoScope /\ dirs[s] # 0
    /\ active' = s
    /\ UNCHANGED <<fs, disk, pc, target, acked, losses>>

CloseScope ==
    /\ pc = "idle" /\ active # NoScope
    /\ active' = NoScope
    /\ UNCHANGED <<fs, disk, pc, target, acked, losses>>

PublishMember(p) ==
    /\ pc = "idle" /\ active = scopeOf[p] /\ ~IsParent(p)
    /\ Start(p, IF "json" \in names[p] THEN PublishFrom(p) ELSE "json-create")

\* Variant: a staged member counts as complete.
Closure_Staged(s) ==
    \A p \in Members(s) : names[p] # {} /\ json[p] = 2 /\ data[p] = 2

\* _closure: the intent and the bytes of every member are read back, the bytes
\* under their final name and no other.
Closure(s) ==
    \A p \in Members(s) : names[p] = {"json", "final"} /\ json[p] = 2 /\ data[p] = 2

Finalize(s) ==
    /\ pc = "idle" /\ active = s
    /\ Closure(s)
    /\ Start(parentOf[s], PublishFrom(parentOf[s]))

RecoverPublication(p) ==
    /\ pc = "idle" /\ "json" \in names[p]
    /\ IsParent(p) => Closure(scopeOf[p])
    /\ Start(p, PublishFrom(p))

-----------------------------------------------------------------------------
(* The writes of _new_scope.                                               *)

Mkdir ==
    /\ pc = "mkdir" /\ Go("mkdirs")
    /\ dirs' = [dirs EXCEPT ![scopeOf[target]] = 1]
    /\ UNCHANGED <<json, data, names, disk>>

Mkdirs ==
    /\ pc = "mkdirs" /\ Go("json-create")
    /\ dirs' = [dirs EXCEPT ![scopeOf[target]] = 2]
    /\ dDirs' = [dDirs EXCEPT ![scopeOf[target]] = 2]
    /\ UNCHANGED <<json, data, names, dJson, dData, dNames>>

-----------------------------------------------------------------------------
(* The writes of _stage: the intent, then the bytes, each by _write        *)
(* (create 0600 and fill, chmod 0400, fsync the file, fsync the            *)
(* directory).  O_EXCL makes a new inode, of which nothing is on disk yet. *)

JsonCreate ==
    /\ pc = "json-create" /\ Go("json-seal")
    /\ json' = [json EXCEPT ![target] = 1] /\ dJson' = [dJson EXCEPT ![target] = 0]
    /\ names' = [names EXCEPT ![target] = @ \cup {"json"}]
    /\ UNCHANGED <<dirs, data, dDirs, dData, dNames>>

JsonSeal ==
    /\ pc = "json-seal" /\ Go("json-sync")
    /\ json' = [json EXCEPT ![target] = 2]
    /\ UNCHANGED <<dirs, data, names, disk>>

JsonSync ==
    /\ pc = "json-sync" /\ Go("json-dir")
    /\ dJson' = [dJson EXCEPT ![target] = json[target]]
    /\ UNCHANGED <<fs, dDirs, dData, dNames>>

JsonDir ==
    /\ pc = "json-dir" /\ Go("data-create")
    /\ dNames' = SyncedStaging(scopeOf[target])
    /\ UNCHANGED <<fs, dDirs, dJson, dData>>

DataCreate ==
    /\ pc = "data-create" /\ Go("data-seal")
    /\ data' = [data EXCEPT ![target] = 1] /\ dData' = [dData EXCEPT ![target] = 0]
    /\ names' = [names EXCEPT ![target] = @ \cup {"stage"}]
    /\ UNCHANGED <<dirs, json, dDirs, dJson, dNames>>

DataSeal ==
    /\ pc = "data-seal" /\ Go("data-sync")
    /\ data' = [data EXCEPT ![target] = 2]
    /\ UNCHANGED <<dirs, json, names, disk>>

DataSync ==
    /\ pc = "data-sync" /\ Go("data-dir")
    /\ dData' = [dData EXCEPT ![target] = data[target]]
    /\ UNCHANGED <<fs, dDirs, dJson, dNames>>

\* The parent waits for its members (begin returns), a member is published.
DataDir ==
    /\ pc = "data-dir"
    /\ dNames' = SyncedStaging(scopeOf[target])
    /\ IF IsParent(target) THEN pc' = "idle" /\ active' = scopeOf[target]
                           ELSE pc' = "link" /\ active' = active
    /\ UNCHANGED <<fs, dDirs, dJson, dData, target, acked, losses>>

-----------------------------------------------------------------------------
(* The writes of _publish.                                                 *)

Link ==
    /\ pc = "link" /\ Go("unlink")
    /\ names' = [names EXCEPT ![target] = @ \cup {"final"}]
    /\ UNCHANGED <<dirs, json, data, disk>>

Unlink ==
    /\ pc = "unlink" /\ Go("file-sync")
    /\ names' = [names EXCEPT ![target] = @ \ {"stage"}]
    /\ UNCHANGED <<dirs, json, data, disk>>

FileSync ==
    /\ \/ pc = "file-sync" /\ Go("final-sync")
       \/ pc = "file-resync" /\ Go("final-resync")
    /\ dData' = [dData EXCEPT ![target] = data[target]]
    /\ UNCHANGED <<fs, dDirs, dJson, dNames>>

\* Variant: only the staging directory is fsynced.
FinalSync_Skipped ==
    /\ \/ pc = "final-sync" /\ Go("stage-sync")
       \/ pc = "final-resync" /\ Go("intent-sync")
    /\ UNCHANGED <<fs, disk>>

FinalSync ==
    /\ \/ pc = "final-sync" /\ Go("stage-sync")
       \/ pc = "final-resync" /\ Go("intent-sync")
    /\ dNames' = SyncedFinals(target)
    /\ UNCHANGED <<fs, dDirs, dJson, dData>>

StageSync ==
    /\ pc = "stage-sync" /\ Go("intent-sync")
    /\ dNames' = SyncedStaging(scopeOf[target])
    /\ UNCHANGED <<fs, dDirs, dJson, dData>>

IntentSync ==
    /\ pc = "intent-sync" /\ Go("readback")
    /\ dJson' = [dJson EXCEPT ![target] = json[target]]
    /\ dNames' = SyncedStaging(scopeOf[target])
    /\ UNCHANGED <<fs, dDirs, dData>>

\* _visible reads the file back under its final name; the ack is returned.
Acknowledge ==
    /\ pc = "readback"
    /\ names[target] = {"json", "final"} /\ data[target] = 2
    /\ pc' = "idle" /\ acked' = acked \cup {target}
    /\ UNCHANGED <<fs, disk, target, active, losses>>

-----------------------------------------------------------------------------
(* What goes wrong.                                                        *)

\* Any call of an operation may raise.  The handle refuses everything after it,
\* because effects had begun or the stored state looks wrong.
Fault ==
    /\ pc \in Steps \cup {"idle"}
    /\ pc' = "invalid"
    /\ UNCHANGED <<fs, disk, target, active, acked, losses>>

\* The process dies: the kernel drops its flock.
Crash ==
    /\ pc # "closed"
    /\ pc' = "closed" /\ active' = NoScope
    /\ UNCHANGED <<fs, disk, target, acked, losses>>

\* Entries made or removed since the last fsync of their directory.
Unsynced ==
    {x \in Pubs \X Entries :
        x[2] \in (names[x[1]] \ dNames[x[1]]) \cup (dNames[x[1]] \ names[x[1]])}

\* After a loss of power a file or directory is anything between what was
\* fsynced and what was seen, and an entry not fsynced is there or is not.
PowerLoss ==
    /\ losses < MaxLosses /\ losses' = losses + 1
    /\ \E i \in {f \in [Scopes -> 0..2] : \A s \in Scopes : f[s] \in dDirs[s]..dirs[s]} :
          dirs' = i /\ dDirs' = i
    /\ \E i \in {f \in [Pubs -> 0..2] : \A p \in Pubs : f[p] \in dJson[p]..json[p]} :
          json' = i /\ dJson' = i
    /\ \E i \in {f \in [Pubs -> 0..2] : \A p \in Pubs : f[p] \in dData[p]..data[p]} :
          data' = i /\ dData' = i
    /\ \E kept \in SUBSET Unsynced :
          /\ names' = [p \in Pubs |-> (names[p] \cap dNames[p])
                                       \cup {e \in Entries : <<p, e>> \in kept}]
          /\ dNames' = names'
    /\ pc' = "closed" /\ active' = NoScope
    /\ UNCHANGED <<target, acked>>

-----------------------------------------------------------------------------
Writes ==
    \/ Mkdir \/ Mkdirs \/ JsonCreate \/ JsonSeal \/ JsonSync \/ JsonDir
    \/ DataCreate \/ DataSeal \/ DataSync \/ DataDir
    \/ Link \/ Unlink \/ FileSync \/ FinalSync \/ StageSync \/ IntentSync
    \/ Acknowledge

Next ==
    \/ Open \/ Close \/ CloseScope \/ Fault \/ Crash \/ PowerLoss \/ Writes
    \/ \E s \in Scopes : BeginNew(s) \/ BeginAgain(s) \/ Finalize(s)
    \/ \E p \in Pubs : PublishMember(p) \/ RecoverPublication(p)

Spec == Init /\ [][Next]_vars

-----------------------------------------------------------------------------
\* Files, directory entries and the writer's handle have their types, in sight and
\* on disk: an inode is absent, unfinished or sealed.
TypeOK ==
    /\ dirs \in [Scopes -> 0..2] /\ dDirs \in [Scopes -> 0..2]
    /\ json \in [Pubs -> 0..2] /\ dJson \in [Pubs -> 0..2]
    /\ data \in [Pubs -> 0..2] /\ dData \in [Pubs -> 0..2]
    /\ names \in [Pubs -> SUBSET Entries] /\ dNames \in [Pubs -> SUBSET Entries]
    /\ pc \in Steps \cup {"closed", "idle", "invalid"}
    /\ target \in Pubs /\ active \in Scopes \cup {NoScope}
    /\ acked \subseteq Pubs /\ losses \in 0..MaxLosses

\* An acknowledgement is worth its name (_PublicationAck "local-fsync-readback"):
\* whatever crashes or power losses follow, the acknowledged bytes are on disk
\* under their final name only, complete, with the intent that explains them.
AckedIsDurable ==
    \A p \in acked :
        /\ dNames[p] = {"json", "final"} /\ names[p] = dNames[p]
        /\ dData[p] = 2 /\ dJson[p] = 2

\* A final name never shows, now or after a loss of power, bytes that are
\* incomplete or not read-only: the file is sealed and fsynced before link.
FinalIsSealed ==
    \A p \in Pubs : "final" \in names[p] \cup dNames[p] => data[p] = 2 /\ dData[p] = 2

\* finalize and recover_publication make a parent visible only over members
\* that no loss of power can take back, whoever published them: this needs the
\* fsyncs of the cold census and the invalidation of a handle after a fault.
ParentCommitsLast ==
    \A s \in Scopes : "final" \in names[parentOf[s]] \cup dNames[parentOf[s]] =>
        \A p \in Members(s) : "final" \in dNames[p] /\ dData[p] = 2

\* Bytes, staged or final, are always explained by an intent that is complete
\* and on disk; _cold_scope would otherwise refuse them as unknown.
BytesAreExplained ==
    \A p \in Pubs : (names[p] \cup dNames[p]) \cap {"stage", "final"} # {} =>
        "json" \in names[p] \cap dNames[p] /\ json[p] = 2 /\ dJson[p] = 2

\* The three together: whatever is seen or comes back after a loss of power is
\* sealed, explained, and, for a parent, over stored members.
StoreIsDurable == FinalIsSealed /\ ParentCommitsLast /\ BytesAreExplained

\* A writer that dies while it stages one publication leaves the others usable:
\* the residue is set aside, and the store opens again (cold census).
ResidueIsSetAside ==
    acked # {} /\ pc = "closed" => \A s \in Scopes : ColdScope(s)

\* What a loss of power cannot take from the store.
Stored == {p \in Pubs : "final" \in dNames[p] /\ dData[p] = 2}

Promise == INSTANCE PublicationStore WITH stored <- Stored

\* Through every crash, fault, loss of power and recovery the publisher is an
\* atomic store: what is stored stays, parents come after their members, and
\* only stored publications are acknowledged.
ImplementsStore == Promise!Spec
=============================================================================
