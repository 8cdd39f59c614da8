------------------------- MODULE EvidenceStoreProofs -------------------------
(***************************************************************************)
(* The publication protocol keeps its promises for every number of scopes, *)
(* members and losses of power, and implements the atomic store.           *)
(*                                                                         *)
(* First the inductive invariant, and what a step does to it.  Every step  *)
(* is of one of four kinds: it leaves the files alone, opens the store,    *)
(* loses power, or writes.  A write touches no publication but its target, *)
(* and Progress says how it leaves the target.  Then each property, once   *)
(* for a publication that a write spares and once for the one at work.     *)
(***************************************************************************)
EXTENDS EvidenceStore, TLAPS

\* Zenon proves what has no arithmetic; a step that needs SMT cites it.
USE Zenon

\* What is on disk never runs ahead of what is seen.
BehindAt(p) ==
    /\ dJson[p] <= json[p] /\ dData[p] <= data[p]
    /\ "final" \in dNames[p] => "final" \in names[p]

Behind ==
    /\ \A s \in Scopes : dDirs[s] <= dirs[s]
    /\ \A p \in Pubs : BehindAt(p)

\* Nothing is stored in a scope whose directories may still vanish.
Rooted ==
    \A p \in Pubs : dDirs[scopeOf[p]] # 2 => names[p] = {} /\ dNames[p] = {}

\* A usable handle knows only scopes whose directories are on disk.
Placed ==
    pc \in Steps \cup {"idle"} =>
        /\ \A s \in Scopes : dirs[s] # 0 =>
              \/ dDirs[s] = 2 /\ "json" \in names[parentOf[s]]
              \/ target = parentOf[s] /\ pc \in {"mkdirs", "json-create"}
        /\ active # NoScope => dDirs[active] = 2 /\ "json" \in names[parentOf[active]]
        /\ pc \in {"mkdir", "mkdirs", "idle"} \/ dDirs[scopeOf[target]] = 2

\* A publication that is on disk as it is seen, and has bytes if it has an intent.
InSync(p) ==
    /\ dNames[p] = names[p] /\ dJson[p] = json[p] /\ dData[p] = data[p]
    /\ "json" \in names[p] => names[p] \cap {"stage", "final"} # {}

\* A usable handle is in sync with the disk but for the publication it works on.
HandleInSync ==
    /\ pc \in Steps \cup {"idle"} => \A p \in Pubs : p # target => InSync(p)
    /\ pc = "idle" => InSync(target)

\* The publication at work, as its writes so far have left it.
Fresh == names[target] = {} /\ dNames[target] = {}

Intended == names[target] = {"json"} /\ dNames[target] \subseteq {"json"}

Explained == json[target] = 2 /\ dJson[target] = 2 /\ "json" \in dNames[target]

Staged == names[target] = {"json", "stage"} /\ "final" \notin dNames[target]

Linked == names[target] = Entries /\ "stage" \in dNames[target]

Final == names[target] = {"json", "final"}

Sealed == data[target] = 2 /\ dData[target] = 2

MembersStored(s) == \A p \in Members(s) : "final" \in dNames[p] /\ dData[p] = 2

Over == IsParent(target) => MembersStored(scopeOf[target])

Progress ==
    /\ pc \in {"mkdir", "mkdirs", "json-create"} => Fresh
    /\ pc \in {"mkdir", "mkdirs"} => IsParent(target)
    /\ pc = "mkdir" => dirs[scopeOf[target]] = 0
    /\ pc \in {"json-seal", "json-sync", "json-dir", "data-create"} => Intended
    /\ pc \in {"json-sync", "json-dir"} => json[target] = 2
    /\ pc = "json-dir" => dJson[target] = 2
    /\ pc \in Steps \ {"mkdir", "mkdirs", "json-create", "json-seal", "json-sync", "json-dir"} =>
          Explained
    /\ pc \in {"data-seal", "data-sync", "data-dir", "link"} => Staged
    /\ pc = "data-sync" => data[target] = 2
    /\ pc \in {"data-dir", "link", "unlink", "file-sync", "final-sync", "stage-sync",
               "file-resync", "final-resync", "intent-sync", "readback"} => Sealed
    /\ pc = "link" => "stage" \in dNames[target]
    /\ pc = "unlink" => Linked
    /\ pc \in {"file-sync", "final-sync", "stage-sync", "file-resync", "final-resync",
               "intent-sync", "readback"} => Final
    /\ pc \in {"stage-sync", "intent-sync", "readback"} => "final" \in dNames[target]
    /\ pc \in {"file-resync", "final-resync", "intent-sync", "readback"} =>
          "stage" \notin dNames[target]
    /\ pc \in {"link", "unlink", "file-sync", "final-sync", "stage-sync", "file-resync",
               "final-resync", "intent-sync", "readback"} => Over

IInv ==
    /\ TypeOK /\ Behind /\ Rooted /\ Placed /\ HandleInSync /\ Progress
    /\ BytesAreExplained /\ FinalIsSealed /\ ParentCommitsLast /\ AckedIsDurable

-----------------------------------------------------------------------------
(* The four kinds of step.                                                 *)

\* A step that leaves the files and the acknowledgements alone.
Quiet == UNCHANGED <<fs, disk, acked>>

LEMMA StepKinds == [Next]_vars => Quiet \/ Open \/ PowerLoss \/ Writes
  <1> SUFFICES ASSUME [Next]_vars PROVE Quiet \/ Open \/ PowerLoss \/ Writes
    OBVIOUS
  <1> USE DEF Quiet
  <1>1. CASE Close \/ CloseScope \/ Fault \/ Crash
    BY <1>1 DEF Close, CloseScope, Fault, Crash
  <1>2. ASSUME NEW s \in Scopes, BeginNew(s) \/ BeginAgain(s) \/ Finalize(s)
        PROVE  Quiet
    BY <1>2 DEF BeginNew, BeginAgain, Finalize, Start
  <1>3. ASSUME NEW p \in Pubs, PublishMember(p) \/ RecoverPublication(p)
        PROVE  Quiet
    BY <1>3 DEF PublishMember, RecoverPublication, Start
  <1>4. CASE UNCHANGED vars
    BY <1>4 DEF vars, fs, disk
  <1> QED
    BY <1>1, <1>2, <1>3, <1>4 DEF Next

\* A loss of power leaves a publication between what was fsynced and what was seen.
Kept(p) ==
    /\ dNames'[p] = names'[p]
    /\ names[p] \cap dNames[p] \subseteq names'[p]
    /\ names'[p] \subseteq names[p] \cup dNames[p]
    /\ dJson'[p] = json'[p] /\ json'[p] \in 0..2
    /\ dJson[p] <= json'[p] /\ json'[p] <= json[p]
    /\ dData'[p] = data'[p] /\ data'[p] \in 0..2
    /\ dData[p] <= data'[p] /\ data'[p] <= data[p]

LEMMA LossKeeps == TypeOK /\ PowerLoss => \A p \in Pubs : Kept(p)
  <1> SUFFICES ASSUME TypeOK, PowerLoss, NEW p \in Pubs PROVE Kept(p)
    OBVIOUS
  <1>1. dNames'[p] = names'[p] /\ names[p] \cap dNames[p] \subseteq names'[p]
    BY DEF PowerLoss
  <1>2. names'[p] \subseteq names[p] \cup dNames[p]
    BY SMT DEF PowerLoss, Unsynced
  <1>3. dJson'[p] = json'[p] /\ json'[p] \in 0..2 /\ dJson[p] <= json'[p] /\ json'[p] <= json[p]
    BY SMT DEF PowerLoss, TypeOK
  <1>4. dData'[p] = data'[p] /\ data'[p] \in 0..2 /\ dData[p] <= data'[p] /\ data'[p] <= data[p]
    BY SMT DEF PowerLoss, TypeOK
  <1> QED
    BY <1>1, <1>2, <1>3, <1>4 DEF Kept

\* fsync of a directory changes nothing for a publication that is on disk as seen.
LEMMA SyncKeeps ==
  ASSUME TypeOK, NEW p \in Pubs, NEW s \in Scopes, NEW q \in Pubs, names[p] = dNames[p]
  PROVE  SyncedStaging(s)[p] = names[p] /\ SyncedFinals(q)[p] = names[p]
  <1>1. names[p] = (names[p] \cap {"final"}) \cup (names[p] \cap {"json", "stage"})
    BY DEF TypeOK, Entries
  <1> QED
    BY <1>1 DEF SyncedStaging, SyncedFinals

\* A write is a step of an operation on the same target.
LEMMA WriteGoesOn == Writes => pc \in Steps /\ target' = target /\ pc' \in Steps \cup {"idle"}
  <1> SUFFICES ASSUME Writes
               PROVE  pc \in Steps /\ target' = target /\ pc' \in Steps \cup {"idle"}
    OBVIOUS
  <1> USE DEF Go, Steps
  <1>1. CASE Mkdir
    BY <1>1 DEF Mkdir
  <1>2. CASE Mkdirs
    BY <1>2 DEF Mkdirs
  <1>3. CASE JsonCreate
    BY <1>3 DEF JsonCreate
  <1>4. CASE JsonSeal
    BY <1>4 DEF JsonSeal
  <1>5. CASE JsonSync
    BY <1>5 DEF JsonSync
  <1>6. CASE JsonDir
    BY <1>6 DEF JsonDir
  <1>7. CASE DataCreate
    BY <1>7 DEF DataCreate
  <1>8. CASE DataSeal
    BY <1>8 DEF DataSeal
  <1>9. CASE DataSync
    BY <1>9 DEF DataSync
  <1>10. CASE DataDir
    BY <1>10 DEF DataDir
  <1>11. CASE Link
    BY <1>11 DEF Link
  <1>12. CASE Unlink
    BY <1>12 DEF Unlink
  <1>13. CASE FileSync
    BY <1>13 DEF FileSync
  <1>14. CASE FinalSync
    BY <1>14 DEF FinalSync
  <1>15. CASE StageSync
    BY <1>15 DEF StageSync
  <1>16. CASE IntentSync
    BY <1>16 DEF IntentSync
  <1>17. CASE Acknowledge
    BY <1>17 DEF Acknowledge
  <1> QED
    BY <1>1, <1>2, <1>3, <1>4, <1>5, <1>6, <1>7, <1>8, <1>9, <1>10, <1>11,
        <1>12, <1>13, <1>14, <1>15, <1>16, <1>17 DEF Writes

Untouched(p) ==
    /\ names'[p] = names[p] /\ dNames'[p] = dNames[p]
    /\ json'[p] = json[p] /\ dJson'[p] = dJson[p]
    /\ data'[p] = data[p] /\ dData'[p] = dData[p]

\* A write touches its target alone: the directories it fsyncs hold nothing
\* else that is not on disk.
LEMMA WriteSpares == IInv /\ Writes => \A p \in Pubs : p # target => Untouched(p)
  <1> SUFFICES ASSUME IInv, Writes, NEW p \in Pubs, p # target PROVE Untouched(p)
    OBVIOUS
  <1>a. names[p] = dNames[p]
    BY WriteGoesOn DEF IInv, HandleInSync, InSync
  <1>b. TypeOK
    BY DEF IInv
  <1>c. scopeOf[target] \in Scopes /\ target \in Pubs
    BY <1>b, EvidenceStoreAssumption DEF TypeOK
  <1>d. SyncedStaging(scopeOf[target])[p] = dNames[p] /\ SyncedFinals(target)[p] = dNames[p]
    BY <1>a, <1>b, <1>c, SyncKeeps
  <1> USE DEF Untouched, fs, disk, Go, TypeOK
  <1>1. CASE Mkdir
    BY <1>1, <1>a, <1>b, <1>d DEF Mkdir
  <1>2. CASE Mkdirs
    BY <1>2, <1>a, <1>b, <1>d DEF Mkdirs
  <1>3. CASE JsonCreate
    BY <1>3, <1>a, <1>b, <1>d DEF JsonCreate
  <1>4. CASE JsonSeal
    BY <1>4, <1>a, <1>b, <1>d DEF JsonSeal
  <1>5. CASE JsonSync
    BY <1>5, <1>a, <1>b, <1>d DEF JsonSync
  <1>6. CASE JsonDir
    BY <1>6, <1>a, <1>b, <1>d DEF JsonDir
  <1>7. CASE DataCreate
    BY <1>7, <1>a, <1>b, <1>d DEF DataCreate
  <1>8. CASE DataSeal
    BY <1>8, <1>a, <1>b, <1>d DEF DataSeal
  <1>9. CASE DataSync
    BY <1>9, <1>a, <1>b, <1>d DEF DataSync
  <1>10. CASE DataDir
    BY <1>10, <1>a, <1>b, <1>d DEF DataDir
  <1>11. CASE Link
    BY <1>11, <1>a, <1>b, <1>d DEF Link
  <1>12. CASE Unlink
    BY <1>12, <1>a, <1>b, <1>d DEF Unlink
  <1>13. CASE FileSync
    BY <1>13, <1>a, <1>b, <1>d DEF FileSync
  <1>14. CASE FinalSync
    BY <1>14, <1>a, <1>b, <1>d DEF FinalSync
  <1>15. CASE StageSync
    BY <1>15, <1>a, <1>b, <1>d DEF StageSync
  <1>16. CASE IntentSync
    BY <1>16, <1>a, <1>b, <1>d DEF IntentSync
  <1>17. CASE Acknowledge
    BY <1>17, <1>a, <1>b, <1>d DEF Acknowledge
  <1> QED
    BY <1>1, <1>2, <1>3, <1>4, <1>5, <1>6, <1>7, <1>8, <1>9, <1>10, <1>11,
        <1>12, <1>13, <1>14, <1>15, <1>16, <1>17 DEF Writes

\* The members of a parent at work are spared.
LEMMA OverStays == IInv /\ Writes /\ Over => Over'
  <1> SUFFICES ASSUME IInv, Writes, IsParent(target), MembersStored(scopeOf[target]),
                      NEW p \in Members(scopeOf[target])
               PROVE  "final" \in dNames'[p] /\ dData'[p] = 2
    BY WriteGoesOn DEF Over, IsParent, MembersStored, Members
  <1>1. p \in Pubs /\ p # target /\ "final" \in dNames[p] /\ dData[p] = 2
    BY DEF IsParent, Members, MembersStored
  <1> QED
    BY <1>1, WriteSpares DEF Untouched

-----------------------------------------------------------------------------
(* The steps preserve the invariant.                                       *)

\* Types are preserved.
LEMMA TypeStep == IInv /\ [Next]_vars => TypeOK'
  <1> SUFFICES ASSUME IInv, [Next]_vars PROVE TypeOK'
    OBVIOUS
  <1> USE EvidenceStoreAssumption DEF IInv, TypeOK, fs, disk, Go, Start,
        Entries, Steps, IsParent
  <1>1. CASE Open
    BY <1>1 DEF Open
  <1>2. CASE Close
    BY <1>2 DEF Close
  <1>3. CASE CloseScope
    BY <1>3 DEF CloseScope
  <1>4. CASE Fault
    BY <1>4 DEF Fault
  <1>5. CASE Crash
    BY <1>5 DEF Crash
  <1>6. CASE PowerLoss
    BY <1>6, SMT DEF PowerLoss, Unsynced
  <1>7. ASSUME NEW s \in Scopes, BeginNew(s)
        PROVE  TypeOK'
    BY <1>7 DEF BeginNew
  <1>8. ASSUME NEW s \in Scopes, BeginAgain(s)
        PROVE  TypeOK'
    BY <1>8 DEF BeginAgain
  <1>9. ASSUME NEW s \in Scopes, Finalize(s)
        PROVE  TypeOK'
    BY <1>9 DEF Finalize, PublishFrom
  <1>10. ASSUME NEW p \in Pubs, PublishMember(p)
        PROVE  TypeOK'
    BY <1>10 DEF PublishMember, PublishFrom
  <1>11. ASSUME NEW p \in Pubs, RecoverPublication(p)
        PROVE  TypeOK'
    BY <1>11 DEF RecoverPublication, PublishFrom
  <1>12. CASE Mkdir
    BY <1>12, SMT DEF Mkdir
  <1>13. CASE Mkdirs
    BY <1>13, SMT DEF Mkdirs
  <1>14. CASE JsonCreate
    BY <1>14, SMT DEF JsonCreate
  <1>15. CASE JsonSeal
    BY <1>15, SMT DEF JsonSeal
  <1>16. CASE JsonSync
    BY <1>16 DEF JsonSync
  <1>17. CASE JsonDir
    BY <1>17 DEF JsonDir, SyncedStaging
  <1>18. CASE DataCreate
    BY <1>18, SMT DEF DataCreate
  <1>19. CASE DataSeal
    BY <1>19, SMT DEF DataSeal
  <1>20. CASE DataSync
    BY <1>20 DEF DataSync
  <1>21. CASE DataDir
    BY <1>21, SMT DEF DataDir, SyncedStaging, IsParent
  <1>22. CASE Link
    BY <1>22 DEF Link
  <1>23. CASE Unlink
    BY <1>23 DEF Unlink
  <1>24. CASE FileSync
    BY <1>24 DEF FileSync
  <1>25. CASE FinalSync
    BY <1>25 DEF FinalSync, SyncedFinals, SameDirectory, IsParent
  <1>26. CASE StageSync
    BY <1>26 DEF StageSync, SyncedStaging
  <1>27. CASE IntentSync
    BY <1>27 DEF IntentSync, SyncedStaging
  <1>28. CASE Acknowledge
    BY <1>28 DEF Acknowledge
  <1>29. CASE UNCHANGED vars
    BY <1>29 DEF vars
  <1> HIDE DEF IInv, TypeOK, fs, disk, Go, Start, Entries, Steps, IsParent
  <1> QED
    BY <1>1, <1>2, <1>3, <1>4, <1>5, <1>6, <1>7, <1>8, <1>9, <1>10, <1>11,
        <1>12, <1>13, <1>14, <1>15, <1>16, <1>17, <1>18, <1>19, <1>20, <1>21,
        <1>22, <1>23, <1>24, <1>25, <1>26, <1>27, <1>28,
        <1>29 DEF Next, Writes

\* A write leaves its target no further on disk than it is seen.
LEMMA BehindTarget == IInv /\ Writes => BehindAt(target)'
  <1> SUFFICES ASSUME IInv, Writes PROVE BehindAt(target)'
    OBVIOUS
  <1>a. TypeOK /\ target \in Pubs /\ BehindAt(target) /\ target' = target
    BY WriteGoesOn DEF IInv, TypeOK, Behind
  <1> USE <1>a DEF BehindAt, fs, disk, Go, TypeOK
  <1>1. CASE Mkdir
    BY <1>1 DEF Mkdir
  <1>2. CASE Mkdirs
    BY <1>2 DEF Mkdirs
  <1>3. CASE JsonCreate
    BY <1>3, SMT DEF JsonCreate
  <1>4. CASE JsonSeal
    BY <1>4, SMT DEF JsonSeal
  <1>5. CASE JsonSync
    BY <1>5, SMT DEF JsonSync
  <1>6. CASE JsonDir
    BY <1>6 DEF JsonDir, SyncedStaging
  <1>7. CASE DataCreate
    BY <1>7, SMT DEF DataCreate
  <1>8. CASE DataSeal
    BY <1>8, SMT DEF DataSeal
  <1>9. CASE DataSync
    BY <1>9, SMT DEF DataSync
  <1>10. CASE DataDir
    BY <1>10 DEF DataDir, SyncedStaging, IsParent
  <1>11. CASE Link
    BY <1>11, SMT DEF Link
  <1>12. CASE Unlink
    BY <1>12, SMT DEF Unlink
  <1>13. CASE FileSync
    BY <1>13, SMT DEF FileSync
  <1>14. CASE FinalSync
    BY <1>14 DEF FinalSync, SyncedFinals, SameDirectory, IsParent
  <1>15. CASE StageSync
    BY <1>15 DEF StageSync, SyncedStaging
  <1>16. CASE IntentSync
    BY <1>16, SMT DEF IntentSync, SyncedStaging
  <1>17. CASE Acknowledge
    BY <1>17 DEF Acknowledge
  <1> QED
    BY <1>1, <1>2, <1>3, <1>4, <1>5, <1>6, <1>7, <1>8, <1>9, <1>10, <1>11,
        <1>12, <1>13, <1>14, <1>15, <1>16, <1>17 DEF Writes

\* A write only advances what is seen, an fsync copies it.
LEMMA BehindStep == IInv /\ [Next]_vars => Behind'
  <1> SUFFICES ASSUME IInv, [Next]_vars PROVE Behind'
    OBVIOUS
  <1>1. CASE Quiet
    BY <1>1 DEF Quiet, fs, disk, IInv, Behind, BehindAt
  <1>2. CASE Open
    BY <1>2, SMT DEF Open, fs, IInv, Behind, BehindAt, TypeOK
  <1>3. CASE PowerLoss
    <2>1. \A s \in Scopes : dDirs'[s] = dirs'[s] /\ dirs'[s] \in 0..2
      BY <1>3 DEF PowerLoss
    <2>2. ASSUME NEW p \in Pubs PROVE BehindAt(p)'
      BY <1>3, LossKeeps, SMT DEF IInv, Kept, BehindAt
    <2> QED
      BY <2>1, <2>2, SMT DEF Behind
  <1>4. CASE Writes
    <2>1. ASSUME NEW p \in Pubs PROVE BehindAt(p)'
      <3>1. CASE p = target
        BY <1>4, <3>1, BehindTarget, WriteGoesOn
      <3>2. CASE p # target
        BY <1>4, <3>2, WriteSpares DEF IInv, Behind, BehindAt, Untouched
      <3> QED
        BY <3>1, <3>2
    <2>2. CASE Mkdir \/ Mkdirs
      <3>1. scopeOf[target] \in Scopes /\ TypeOK /\ Behind
        BY EvidenceStoreAssumption DEF IInv, TypeOK
      <3>2. CASE Mkdir
        <4>1. dirs[scopeOf[target]] = 0
          BY <3>2 DEF Mkdir, IInv, Progress
        <4> QED
          BY <2>1, <3>1, <3>2, <4>1, SMT DEF Mkdir, TypeOK, Behind, disk
      <3>3. CASE Mkdirs
        BY <2>1, <3>1, <3>3, SMT DEF Mkdirs, TypeOK, Behind
      <3> QED
        BY <2>2, <3>2, <3>3
    <2>3. CASE UNCHANGED <<dirs, dDirs>>
      BY <2>1, <2>3 DEF IInv, Behind
    <2> QED
      BY <1>4, <2>2, <2>3
      DEF Writes, JsonCreate, JsonSeal, JsonSync, JsonDir, DataCreate, DataSeal,
          DataSync, DataDir, Link, Unlink, FileSync, FinalSync, StageSync,
          IntentSync, Acknowledge, fs, disk
  <1> QED
    BY <1>1, <1>2, <1>3, <1>4, StepKinds

\* No write takes a directory from the disk.
LEMMA WriteKeepsDirs ==
  ASSUME IInv, Writes, NEW s \in Scopes, dDirs'[s] # 2
  PROVE  dDirs[s] # 2
  <1>1. CASE Mkdir \/ Mkdirs
    BY <1>1 DEF Mkdir, Mkdirs, IInv, TypeOK, disk
  <1>2. CASE UNCHANGED dDirs
    BY <1>2
  <1> QED
    BY <1>1, <1>2
    DEF Writes, JsonCreate, JsonSeal, JsonSync, JsonDir, DataCreate, DataSeal,
        DataSync, DataDir, Link, Unlink, FileSync, FinalSync, StageSync,
        IntentSync, Acknowledge, fs, disk

\* The first entry is made after the directories are on disk.
LEMMA RootedStep == IInv /\ [Next]_vars => Rooted'
  <1> SUFFICES ASSUME IInv, [Next]_vars PROVE Rooted'
    OBVIOUS
  <1>1. CASE Quiet
    BY <1>1 DEF Quiet, fs, disk, IInv, Rooted
  <1>2. CASE Open
    <2>1. UNCHANGED <<names, dDirs>> /\ dNames' = names
      BY <1>2 DEF Open, fs
    <2> QED
      BY <2>1 DEF IInv, Rooted
  <1>3. CASE PowerLoss
    <2> SUFFICES ASSUME NEW p \in Pubs, dDirs'[scopeOf[p]] # 2
                 PROVE  names'[p] = {} /\ dNames'[p] = {}
      BY DEF Rooted
    <2>1. scopeOf[p] \in Scopes
      BY EvidenceStoreAssumption
    <2>2. dDirs[scopeOf[p]] # 2
      BY <1>3, <2>1, SMT DEF PowerLoss, IInv, TypeOK, Behind
    <2>3. names[p] = {} /\ dNames[p] = {}
      BY <2>2 DEF IInv, Rooted
    <2> QED
      BY <1>3, <2>3, LossKeeps DEF IInv, Kept
  <1>4. CASE Writes
    <2> SUFFICES ASSUME NEW p \in Pubs, dDirs'[scopeOf[p]] # 2
                 PROVE  names'[p] = {} /\ dNames'[p] = {}
      BY DEF Rooted
    <2>1. scopeOf[p] \in Scopes /\ dDirs[scopeOf[p]] # 2
      BY <1>4, WriteKeepsDirs, EvidenceStoreAssumption
    <2>2. names[p] = {} /\ dNames[p] = {}
      BY <2>1 DEF IInv, Rooted
    <2>3. Untouched(p)
      <3>1. CASE p # target
        BY <1>4, <3>1, WriteSpares
      <3>2. CASE p = target
        <4>1. Mkdir \/ Mkdirs
          BY <1>4, <2>1, <3>2, WriteGoesOn, ZenonT(40) DEF IInv, Placed, Writes, Steps, JsonCreate,
             JsonSeal, JsonSync, JsonDir, DataCreate, DataSeal, DataSync, DataDir, Link,
             Unlink, FileSync, FinalSync, StageSync, IntentSync, Acknowledge
        <4> QED
          BY <4>1 DEF Mkdir, Mkdirs, Untouched, disk
      <3> QED
        BY <3>1, <3>2
    <2> QED
      BY <2>2, <2>3 DEF Untouched
  <1> QED
    BY <1>1, <1>2, <1>3, <1>4, StepKinds

\* No write removes an intent.
LEMMA WriteKeepsIntent ==
  ASSUME IInv, Writes, NEW p \in Pubs, "json" \in names[p]
  PROVE  "json" \in names'[p]
  <1>1. CASE p # target
    BY <1>1, WriteSpares DEF Untouched
  <1>2. CASE JsonCreate \/ DataCreate \/ Link
    BY <1>2, SMT DEF JsonCreate, DataCreate, Link, IInv, TypeOK
  <1>3. CASE Unlink
    BY <1>3 DEF Unlink, IInv, TypeOK
  <1>4. CASE UNCHANGED names
    BY <1>4
  <1> QED
    BY <1>1, <1>2, <1>3, <1>4
    DEF Writes, Mkdir, Mkdirs, JsonSeal, JsonSync, JsonDir, DataSeal, DataSync,
        DataDir, FileSync, FinalSync, StageSync, IntentSync, Acknowledge, fs

\* A usable handle knows only scopes whose directories are on disk.
LEMMA PlacedStep == IInv /\ [Next]_vars => Placed'
  <1> SUFFICES ASSUME IInv, [Next]_vars PROVE Placed'
    OBVIOUS
  <1> USE EvidenceStoreAssumption DEF IInv, TypeOK, fs, disk, Go, Start,
        Entries, Steps, Behind, Rooted, Placed
  <1>1. CASE Open
    BY <1>1, SMT DEF Open, ColdScope
  <1>2. CASE Close
    BY <1>2 DEF Close
  <1>3. CASE CloseScope
    BY <1>3 DEF CloseScope
  <1>4. CASE Fault
    BY <1>4 DEF Fault
  <1>5. CASE Crash
    BY <1>5 DEF Crash
  <1>6. CASE PowerLoss
    BY <1>6 DEF PowerLoss, Unsynced
  <1>7. ASSUME NEW s \in Scopes, BeginNew(s)
        PROVE  Placed'
    BY <1>7 DEF BeginNew
  <1>8. ASSUME NEW s \in Scopes, BeginAgain(s)
        PROVE  Placed'
    BY <1>8 DEF BeginAgain
  <1>9. ASSUME NEW s \in Scopes, Finalize(s)
        PROVE  Placed'
    BY <1>9 DEF Finalize, PublishFrom
  <1>10. ASSUME NEW p \in Pubs, PublishMember(p)
        PROVE  Placed'
    BY <1>10, SMT DEF PublishMember, PublishFrom
  <1>11. ASSUME NEW p \in Pubs, RecoverPublication(p)
        PROVE  Placed'
    BY <1>11 DEF RecoverPublication, PublishFrom
  <1>12. CASE Writes
    <2>a. TypeOK /\ Placed /\ Progress /\ pc \in Steps /\ target' = target
      BY <1>12, WriteGoesOn DEF IInv
    <2>b. target \in Pubs /\ scopeOf[target] \in Scopes /\ scopeOf[parentOf[scopeOf[target]]] = scopeOf[target]
      BY <2>a DEF TypeOK
    <2>c. \A s \in Scopes : parentOf[s] \in Pubs
                         /\ ("json" \in names[parentOf[s]] => "json" \in names'[parentOf[s]])
      BY <1>12, WriteKeepsIntent
    <2>d. \A s \in Scopes : dDirs[s] = 2 => dDirs'[s] = 2
      BY <1>12, WriteKeepsDirs
    <2> HIDE DEF IInv, Entries
    <2>1. CASE Mkdir
      BY <2>1, <2>a, <2>b, <2>c DEF Mkdir, Placed, Progress, IsParent
    <2>2. CASE Mkdirs
      BY <2>2, <2>a, <2>b, <2>c, SMT DEF Mkdirs, Placed, Progress, IsParent
    <2>3. CASE JsonCreate
      <3>1. "json" \in names'[target] /\ dDirs[scopeOf[target]] = 2
        BY <2>3, <2>a, <2>b DEF JsonCreate, Placed
      <3> QED
        BY <2>3, <2>a, <2>b, <2>c, <2>d, <3>1 DEF JsonCreate, Placed
    <2>4. CASE DataDir
      <3>1. "json" \in names[target] /\ dDirs[scopeOf[target]] = 2
        BY <2>4, <2>a DEF DataDir, Placed, Progress, Staged
      <3> QED
        BY <2>4, <2>a, <2>b, <2>c, <2>d, <3>1 DEF DataDir, Placed, IsParent
    <2>5. CASE /\ UNCHANGED <<dirs, active>> /\ target' = target
               /\ pc \notin {"mkdir", "mkdirs", "json-create"}
      BY <2>5, <2>a, <2>b, <2>c, <2>d DEF Placed
    <2> QED
      BY <1>12, <2>1, <2>2, <2>3, <2>4, <2>5
      DEF Writes, JsonSeal, JsonSync, JsonDir, DataCreate, DataSeal,
          DataSync, Link, Unlink, FileSync, FinalSync, StageSync, IntentSync,
          Acknowledge
  <1>13. CASE UNCHANGED vars
    BY <1>13 DEF vars
  <1> HIDE DEF IInv, TypeOK, fs, disk, Go, Start, Entries, Steps, Behind,
        Rooted, Placed
  <1> QED
    BY <1>1, <1>2, <1>3, <1>4, <1>5, <1>6, <1>7, <1>8, <1>9, <1>10, <1>11,
        <1>12, <1>13 DEF Next

\* An operation begins in sync, changes its target alone, and ends in sync.
LEMMA HandleStep == IInv /\ [Next]_vars => HandleInSync'
  <1> SUFFICES ASSUME IInv, [Next]_vars PROVE HandleInSync'
    OBVIOUS
  <1>1. CASE Open
    <2>1. names' = names /\ dNames' = names /\ dJson' = json /\ json' = json /\ dData' = data /\ data' = data
      BY <1>1 DEF Open, fs
    <2>2. target' = target /\ target \in Pubs
      BY <1>1 DEF Open, IInv, TypeOK
    <2>3. ASSUME NEW p \in Pubs, "json" \in names[p] PROVE names[p] \cap {"stage", "final"} # {}
      <3>1. names[p] # {} /\ scopeOf[p] \in Scopes
        BY <2>3, EvidenceStoreAssumption
      <3>2. dDirs[scopeOf[p]] = 2
        BY <3>1 DEF IInv, Rooted
      <3>3. dirs[scopeOf[p]] # 0
        BY <3>1, <3>2, SMT DEF IInv, Behind, TypeOK
      <3> QED
        BY <1>1, <2>3, <3>1, <3>3 DEF Open, ColdScope, ColdPublication
    <2>4. \A p \in Pubs : InSync(p)'
      BY <2>1, <2>3 DEF InSync
    <2> QED
      BY <2>2, <2>4 DEF HandleInSync
  <1>2. CASE Close
    BY <1>2 DEF Close, Start, fs, disk, Steps, IInv, TypeOK, HandleInSync,
        InSync
  <1>3. CASE CloseScope
    BY <1>3 DEF CloseScope, Start, fs, disk, Steps, IInv, TypeOK,
        HandleInSync, InSync
  <1>4. CASE Fault
    BY <1>4 DEF Fault, Start, fs, disk, Steps, IInv, TypeOK, HandleInSync,
        InSync
  <1>5. CASE Crash
    BY <1>5 DEF Crash, Start, fs, disk, Steps, IInv, TypeOK, HandleInSync,
        InSync
  <1>6. CASE PowerLoss
    BY <1>6 DEF PowerLoss, Start, fs, disk, Steps, IInv, TypeOK, HandleInSync,
        InSync
  <1>7. ASSUME NEW s \in Scopes, BeginNew(s)
        PROVE  HandleInSync'
    BY <1>7 DEF BeginNew, Start, fs, disk, Steps, IInv, TypeOK, HandleInSync,
        InSync
  <1>8. ASSUME NEW s \in Scopes, BeginAgain(s)
        PROVE  HandleInSync'
    BY <1>8 DEF BeginAgain, Start, fs, disk, Steps, IInv, TypeOK,
        HandleInSync, InSync
  <1>9. ASSUME NEW s \in Scopes, Finalize(s)
        PROVE  HandleInSync'
    BY <1>9 DEF Finalize, PublishFrom, Start, fs, disk, Steps, IInv, TypeOK,
        HandleInSync, InSync
  <1>10. ASSUME NEW p \in Pubs, PublishMember(p)
        PROVE  HandleInSync'
    BY <1>10 DEF PublishMember, PublishFrom, Start, fs, disk, Steps, IInv,
        TypeOK, HandleInSync, InSync
  <1>11. ASSUME NEW p \in Pubs, RecoverPublication(p)
        PROVE  HandleInSync'
    BY <1>11 DEF RecoverPublication, PublishFrom, Start, fs, disk, Steps,
        IInv, TypeOK, HandleInSync, InSync
  <1>12. CASE Writes
    <2>a. pc \in Steps /\ target' = target /\ TypeOK /\ HandleInSync
      BY <1>12, WriteGoesOn DEF IInv
    <2>1. ASSUME NEW p \in Pubs, p # target PROVE InSync(p)'
      BY <1>12, <2>1, <2>a, WriteSpares DEF Untouched, HandleInSync, InSync
    <2>2. ASSUME pc' = "idle" PROVE InSync(target)'
      <3>1. CASE DataDir
        <4>1. Staged /\ Explained /\ Sealed /\ target \in Pubs
          BY <3>1 DEF DataDir, IInv, TypeOK, Progress, Steps
        <4>2. BehindAt(target) /\ data'[target] = data[target] /\ dData'[target] = dData[target]
              /\ json'[target] = json[target] /\ dJson'[target] = dJson[target]
              /\ names'[target] = names[target]
          BY <3>1, <4>1 DEF DataDir, IInv, Behind, fs
        <4>3. dNames'[target] = names[target]
          BY <3>1, <4>1 DEF DataDir, SyncedStaging, Staged
        <4> QED
          BY <2>a, <4>1, <4>2, <4>3 DEF InSync, Staged, Explained, Sealed
      <3>2. CASE Acknowledge
        <4>1. Final /\ Explained /\ Sealed /\ target \in Pubs
              /\ "final" \in dNames[target] /\ "stage" \notin dNames[target]
          BY <3>2 DEF Acknowledge, IInv, TypeOK, Progress, Steps
        <4>2. dNames[target] = names[target]
          BY <4>1, SMT DEF Final, Explained, IInv, TypeOK, Entries
        <4> QED
          BY <2>a, <3>2, <4>1, <4>2 DEF Acknowledge, fs, disk, InSync, Final, Explained, Sealed
      <3> QED
        BY <1>12, <2>2, <3>1, <3>2 DEF Writes, Go, Mkdir, Mkdirs, JsonCreate,
           JsonSeal, JsonSync, JsonDir, DataCreate, DataSeal, DataSync, Link, Unlink,
           FileSync, FinalSync, StageSync, IntentSync
    <2> QED
      BY <2>a, <2>1, <2>2 DEF HandleInSync
  <1>13. CASE UNCHANGED vars
    BY <1>13 DEF vars, Start, fs, disk, Steps, IInv, TypeOK, HandleInSync,
        InSync
  <1> QED
    BY <1>1, <1>2, <1>3, <1>4, <1>5, <1>6, <1>7, <1>8, <1>9, <1>10, <1>11,
        <1>12, <1>13 DEF Next

\* Publication begins where the census left it, with members that are on disk
\* when it is a parent's.
LEMMA PublishStarts ==
  ASSUME IInv, pc = "idle", NEW p \in Pubs, "json" \in names[p],
         IsParent(p) => Closure(scopeOf[p]), Start(p, PublishFrom(p))
  PROVE  Progress'
  <1>1. InSync(p) /\ names[p] \subseteq Entries /\ BehindAt(p) /\ target \in Pubs
    BY DEF IInv, HandleInSync, TypeOK, Behind
  <1>2. pc' = PublishFrom(p) /\ target' = p /\ UNCHANGED <<fs, disk>>
    BY DEF Start
  <1>3. Explained'
    <2>1. names[p] \cap {"stage", "final"} # {}
      BY <1>1 DEF InSync
    <2>2. json[p] = 2 /\ dJson[p] = 2 /\ "json" \in dNames[p]
      BY <2>1 DEF IInv, BytesAreExplained
    <2> QED
      BY <1>2, <2>2 DEF Explained, fs, disk
  <1>4. Over'
    <2> SUFFICES ASSUME IsParent(p), NEW q \in Members(scopeOf[p])
                 PROVE  "final" \in dNames[q] /\ dData[q] = 2
      BY <1>2 DEF Over, IsParent, MembersStored, Members, fs, disk
    <2>1. names[q] = {"json", "final"} /\ data[q] = 2 /\ q \in Pubs
      BY DEF Closure, Members
    <2>2. InSync(q)
      BY <2>1 DEF IInv, HandleInSync
    <2> QED
      BY <2>1, <2>2 DEF InSync
  <1>5. CASE "stage" \in names[p] /\ data[p] # 2
    <2>1. pc' = "invalid"
      BY <1>2, <1>5 DEF PublishFrom
    <2> QED
      BY <2>1 DEF Progress, Steps
  <1>6. CASE "stage" \in names[p] /\ data[p] = 2
    <2>1. Sealed' /\ "stage" \in dNames'[target']
      BY <1>1, <1>2, <1>6 DEF Sealed, InSync, fs, disk
    <2>2. CASE "final" \in names[p]
      <3>1. names[p] = Entries
        BY <1>1, <1>6, <2>2 DEF Entries
      <3>2. Linked' /\ pc' = "unlink"
        BY <1>2, <1>6, <2>1, <2>2, <3>1 DEF Linked, PublishFrom, fs, disk
      <3> QED
        BY ONLY <1>3, <1>4, <2>1, <3>2, Zenon DEF Progress, Steps
    <2>3. CASE "final" \notin names[p]
      <3>1. names[p] = {"json", "stage"} /\ "final" \notin dNames[p]
        BY <1>1, <1>6, <2>3 DEF Entries, InSync
      <3>2. Staged' /\ pc' = "link"
        BY <1>2, <1>6, <2>3, <3>1 DEF Staged, PublishFrom, fs, disk
      <3> QED
        BY ONLY <1>3, <1>4, <2>1, <3>2, Zenon DEF Progress, Steps
    <2> QED
      BY <2>2, <2>3
  <1>7. CASE "stage" \notin names[p]
    <2>1. names[p] = {"json", "final"} /\ "stage" \notin dNames[p]
      BY <1>1, <1>7 DEF Entries, InSync
    <2>2. data[p] = 2 /\ dData[p] = 2
      BY <2>1 DEF IInv, FinalIsSealed
    <2>3. Final' /\ Sealed' /\ pc' = "file-resync" /\ "stage" \notin dNames'[target']
      BY <1>2, <1>7, <2>1, <2>2 DEF Final, Sealed, PublishFrom, fs, disk
    <2> QED
      BY ONLY <1>3, <1>4, <2>3, Zenon DEF Progress, Steps
  <1> QED
    BY <1>5, <1>6, <1>7

\* Each write finds its target as the writes before it left it.
LEMMA WriteProgresses == IInv /\ Writes => Progress'
  <1> SUFFICES ASSUME IInv, Writes PROVE Progress'
    OBVIOUS
  <1>a. TypeOK /\ target \in Pubs /\ target' = target /\ scopeOf[target] \in Scopes
    BY WriteGoesOn, EvidenceStoreAssumption DEF IInv, TypeOK
  <1>b. Progress
    BY DEF IInv
  <1> USE DEF TypeOK
  <1>1. CASE Mkdir
    <2>1. pc = "mkdir" /\ pc' = "mkdirs" /\ Fresh /\ IsParent(target)
      BY <1>1, <1>b DEF Mkdir, Go, Progress, Steps
    <2>2. Fresh' /\ IsParent(target)'
      BY <1>1, <1>a, <2>1 DEF Mkdir, fs, disk, Fresh, IsParent
    <2> QED
      BY ONLY <2>1, <2>2, Zenon DEF Progress, Steps
  <1>2. CASE Mkdirs
    <2>1. pc = "mkdirs" /\ pc' = "json-create" /\ Fresh
      BY <1>2, <1>b DEF Mkdirs, Go, Progress, Steps
    <2>2. Fresh'
      BY <1>2, <1>a, <2>1 DEF Mkdirs, fs, disk, Fresh
    <2> QED
      BY ONLY <2>1, <2>2, Zenon DEF Progress, Steps
  <1>3. CASE JsonCreate
    <2>1. pc = "json-create" /\ pc' = "json-seal" /\ Fresh
      BY <1>3, <1>b DEF JsonCreate, Go, Progress, Steps
    <2>2. Intended'
      BY <1>3, <1>a, <2>1 DEF JsonCreate, fs, disk, Fresh, Intended
    <2> QED
      BY ONLY <2>1, <2>2, Zenon DEF Progress, Steps
  <1>4. CASE JsonSeal
    <2>1. pc = "json-seal" /\ pc' = "json-sync" /\ Intended
      BY <1>4, <1>b DEF JsonSeal, Go, Progress, Steps
    <2>2. Intended' /\ json'[target'] = 2
      BY <1>4, <1>a, <2>1 DEF JsonSeal, fs, disk, Intended
    <2> QED
      BY ONLY <2>1, <2>2, Zenon DEF Progress, Steps
  <1>5. CASE JsonSync
    <2>1. pc = "json-sync" /\ pc' = "json-dir" /\ Intended
          /\ json[target] = 2
      BY <1>5, <1>b DEF JsonSync, Go, Progress, Steps
    <2>2. Intended' /\ json'[target'] = 2 /\ dJson'[target'] = 2
      BY <1>5, <1>a, <2>1 DEF JsonSync, fs, disk, Intended
    <2> QED
      BY ONLY <2>1, <2>2, Zenon DEF Progress, Steps
  <1>6. CASE JsonDir
    <2>1. pc = "json-dir" /\ pc' = "data-create" /\ Intended
          /\ json[target] = 2 /\ dJson[target] = 2
      BY <1>6, <1>b DEF JsonDir, Go, Progress, Steps
    <2>2. Intended' /\ Explained'
      BY <1>6, <1>a, <2>1 DEF JsonDir, fs, disk, Intended, Explained,
        SyncedStaging
    <2> QED
      BY ONLY <2>1, <2>2, Zenon DEF Progress, Steps
  <1>7. CASE DataCreate
    <2>1. pc = "data-create" /\ pc' = "data-seal" /\ Intended /\ Explained
      BY <1>7, <1>b DEF DataCreate, Go, Progress, Steps
    <2>2. Staged' /\ Explained'
      BY <1>7, <1>a, <2>1 DEF DataCreate, fs, disk, Intended, Explained,
        Staged
    <2> QED
      BY ONLY <2>1, <2>2, Zenon DEF Progress, Steps
  <1>8. CASE DataSeal
    <2>1. pc = "data-seal" /\ pc' = "data-sync" /\ Staged /\ Explained
      BY <1>8, <1>b DEF DataSeal, Go, Progress, Steps
    <2>2. Staged' /\ Explained' /\ data'[target'] = 2
      BY <1>8, <1>a, <2>1 DEF DataSeal, fs, disk, Explained, Staged
    <2> QED
      BY ONLY <2>1, <2>2, Zenon DEF Progress, Steps
  <1>9. CASE DataSync
    <2>1. pc = "data-sync" /\ pc' = "data-dir" /\ Staged /\ Explained
          /\ data[target] = 2
      BY <1>9, <1>b DEF DataSync, Go, Progress, Steps
    <2>2. Staged' /\ Explained' /\ Sealed'
      BY <1>9, <1>a, <2>1 DEF DataSync, fs, disk, Explained, Staged, Sealed
    <2> QED
      BY ONLY <2>1, <2>2, Zenon DEF Progress, Steps
  <1>10. CASE DataDir
    <2>1. Staged /\ Explained /\ Sealed
      BY <1>10, <1>b DEF DataDir, Progress, Steps
    <2>2. Staged' /\ Explained' /\ Sealed' /\ "stage" \in dNames'[target']
      BY <1>10, <1>a, <2>1 DEF DataDir, fs, Staged, Explained, Sealed, SyncedStaging
    <2>3. CASE IsParent(target)
      <3>1. pc' = "idle"
        BY <1>10, <2>3 DEF DataDir
      <3> QED
        BY ONLY <3>1, Zenon DEF Progress, Steps
    <2>4. CASE ~IsParent(target)
      <3>1. pc' = "link" /\ Over'
        BY <1>10, <1>a, <2>4 DEF DataDir, Over, IsParent
      <3> QED
        BY ONLY <2>2, <3>1, SMTT(20) DEF Progress, Steps
    <2> QED
      BY <2>3, <2>4
  <1>11. CASE Link
    <2>1. pc = "link" /\ pc' = "unlink" /\ Staged /\ Explained /\ Sealed
          /\ "stage" \in dNames[target] /\ Over
      BY <1>11, <1>b DEF Link, Go, Progress, Steps
    <2>2. Linked' /\ Explained' /\ Sealed'
      BY <1>11, <1>a, <2>1 DEF Link, fs, disk, Explained, Staged, Linked,
        Sealed, Entries
    <2>3. Over'
      BY <2>1, OverStays
    <2> QED
      BY ONLY <2>1, <2>2, <2>3, Zenon DEF Progress, Steps
  <1>12. CASE Unlink
    <2>1. pc = "unlink" /\ pc' = "file-sync" /\ Linked /\ Explained
          /\ Sealed /\ Over
      BY <1>12, <1>b DEF Unlink, Go, Progress, Steps
    <2>2. Final' /\ Explained' /\ Sealed'
      BY <1>12, <1>a, <2>1 DEF Unlink, fs, disk, Explained, Linked, Final,
        Sealed, Entries
    <2>3. Over'
      BY <2>1, OverStays
    <2> QED
      BY ONLY <2>1, <2>2, <2>3, Zenon DEF Progress, Steps
  <1>13. CASE FileSync
    <2>1. Final /\ Explained /\ Sealed /\ Over
      BY <1>13, <1>b DEF FileSync, Progress, Steps
    <2>2. Final' /\ Explained' /\ Sealed'
      BY <1>13, <1>a, <2>1 DEF FileSync, fs, Final, Explained, Sealed
    <2>3. Over'
      BY <2>1, OverStays
    <2>4. CASE pc = "file-sync"
      <3>1. pc' = "final-sync"
        BY <1>13, <2>4 DEF FileSync, Go
      <3> QED
        BY ONLY <2>2, <2>3, <3>1, Zenon DEF Progress, Steps
    <2>5. CASE pc = "file-resync"
      <3>1. pc' = "final-resync" /\ "stage" \notin dNames[target]
        BY <1>13, <1>b, <2>5 DEF FileSync, Go, Progress
      <3>2. "stage" \notin dNames'[target']
        BY <1>13, <1>a, <3>1 DEF FileSync
      <3> QED
        BY ONLY <2>2, <2>3, <3>1, <3>2, Zenon DEF Progress, Steps
    <2> QED
      BY <1>13, <2>4, <2>5 DEF FileSync
  <1>14. CASE FinalSync
    <2>1. Final /\ Explained /\ Sealed /\ Over
      BY <1>14, <1>b DEF FinalSync, Progress, Steps
    <2>2. Final' /\ Explained' /\ Sealed' /\ "final" \in dNames'[target']
      BY <1>14, <1>a, <2>1 DEF FinalSync, fs, Final, Explained, Sealed,
        SyncedFinals, SameDirectory, IsParent
    <2>3. Over'
      BY <2>1, OverStays
    <2>4. CASE pc = "final-sync"
      <3>1. pc' = "stage-sync"
        BY <1>14, <2>4 DEF FinalSync, Go
      <3> QED
        BY ONLY <2>2, <2>3, <3>1, Zenon DEF Progress, Steps
    <2>5. CASE pc = "final-resync"
      <3>1. pc' = "intent-sync" /\ "stage" \notin dNames[target]
        BY <1>14, <1>b, <2>5 DEF FinalSync, Go, Progress
      <3>2. "stage" \notin dNames'[target']
        BY <1>14, <1>a, <3>1 DEF FinalSync, SyncedFinals, SameDirectory,
        IsParent
      <3> QED
        BY ONLY <2>2, <2>3, <3>1, <3>2, SMTT(20) DEF Progress, Steps
    <2> QED
      BY <1>14, <2>4, <2>5 DEF FinalSync
  <1>15. CASE StageSync
    <2>1. pc = "stage-sync" /\ pc' = "intent-sync" /\ Final /\ Explained
          /\ Sealed /\ Over /\ "final" \in dNames[target]
      BY <1>15, <1>b DEF StageSync, Go, Progress, Steps
    <2>2. Final' /\ Explained' /\ Sealed' /\ "final" \in dNames'[target']
          /\ "stage" \notin dNames'[target']
      BY <1>15, <1>a, <2>1 DEF StageSync, fs, disk, Explained, Final, Sealed,
        SyncedStaging
    <2>3. Over'
      BY <2>1, OverStays
    <2> QED
      BY ONLY <2>1, <2>2, <2>3, Zenon DEF Progress, Steps
  <1>16. CASE IntentSync
    <2>1. pc = "intent-sync" /\ pc' = "readback" /\ Final /\ Explained
          /\ Sealed /\ Over /\ "final" \in dNames[target]
          /\ "stage" \notin dNames[target]
      BY <1>16, <1>b DEF IntentSync, Go, Progress, Steps
    <2>2. Final' /\ Explained' /\ Sealed' /\ "final" \in dNames'[target']
          /\ "stage" \notin dNames'[target']
      BY <1>16, <1>a, <2>1 DEF IntentSync, fs, disk, Explained, Final, Sealed,
        SyncedStaging
    <2>3. Over'
      BY <2>1, OverStays
    <2> QED
      BY ONLY <2>1, <2>2, <2>3, SMTT(20) DEF Progress, Steps
  <1>17. CASE Acknowledge
    <2>1. pc' = "idle"
      BY <1>17 DEF Acknowledge
    <2> QED
      BY ONLY <2>1, Zenon DEF Progress, Steps
  <1> QED
    BY <1>1, <1>2, <1>3, <1>4, <1>5, <1>6, <1>7, <1>8, <1>9, <1>10, <1>11,
        <1>12, <1>13, <1>14, <1>15, <1>16, <1>17 DEF Writes

\* An operation starts from what is there, and each write takes it one step on.
LEMMA ProgressStep == IInv /\ [Next]_vars => Progress'
  <1> SUFFICES ASSUME IInv, [Next]_vars PROVE Progress'
    OBVIOUS
  <1>1. CASE Open
    <2>1. pc' \notin Steps
      BY <1>1 DEF Open, Steps
    <2> QED
      BY <2>1 DEF Progress, Steps
  <1>2. CASE Close
    <2>1. pc' \notin Steps
      BY <1>2 DEF Close, Steps
    <2> QED
      BY <2>1 DEF Progress, Steps
  <1>3. CASE CloseScope
    <2>1. pc' \notin Steps
      BY <1>3 DEF CloseScope, Steps
    <2> QED
      BY <2>1 DEF Progress, Steps
  <1>4. CASE Fault
    <2>1. pc' \notin Steps
      BY <1>4 DEF Fault, Steps
    <2> QED
      BY <2>1 DEF Progress, Steps
  <1>5. CASE Crash
    <2>1. pc' \notin Steps
      BY <1>5 DEF Crash, Steps
    <2> QED
      BY <2>1 DEF Progress, Steps
  <1>6. CASE PowerLoss
    <2>1. pc' \notin Steps
      BY <1>6 DEF PowerLoss, Steps
    <2> QED
      BY <2>1 DEF Progress, Steps
  <1>7. ASSUME NEW s \in Scopes, BeginNew(s)
        PROVE  Progress'
    <2>1. pc' = "mkdir" /\ target' = parentOf[s] /\ UNCHANGED <<names, dNames, dirs>> /\ dirs[s] = 0
      BY <1>7 DEF BeginNew, Start, fs, disk
    <2>2. parentOf[s] \in Pubs /\ scopeOf[parentOf[s]] = s
      BY EvidenceStoreAssumption
    <2>3. dDirs[s] # 2
      BY <2>1, SMT DEF IInv, Behind, TypeOK
    <2>4. names[parentOf[s]] = {} /\ dNames[parentOf[s]] = {}
      BY <2>2, <2>3 DEF IInv, Rooted
    <2>5. Fresh' /\ IsParent(target)' /\ dirs'[scopeOf[target']] = 0
      BY <2>1, <2>2, <2>4 DEF Fresh, IsParent
    <2> QED
      BY ONLY <2>1, <2>5, Zenon DEF Progress, Steps
  <1>8. ASSUME NEW s \in Scopes, BeginAgain(s)
        PROVE  Progress'
    <2>1. pc' \notin Steps
      BY <1>8 DEF BeginAgain, Steps
    <2> QED
      BY <2>1 DEF Progress, Steps
  <1>9. ASSUME NEW s \in Scopes, Finalize(s)
        PROVE  Progress'
    <2>1. parentOf[s] \in Pubs /\ scopeOf[parentOf[s]] = s /\ "json" \in names[parentOf[s]]
      BY <1>9, EvidenceStoreAssumption DEF Finalize, IInv, Placed
    <2> QED
      BY <1>9, <2>1, PublishStarts DEF Finalize
  <1>10. ASSUME NEW p \in Pubs, PublishMember(p)
        PROVE  Progress'
    <2>1. CASE "json" \in names[p]
      BY <1>10, <2>1, PublishStarts DEF PublishMember
    <2>2. CASE "json" \notin names[p]
      <3>1. pc' = "json-create" /\ target' = p /\ UNCHANGED <<names, dNames>>
        BY <1>10, <2>2 DEF PublishMember, Start, fs, disk
      <3>2. InSync(p)
        BY <1>10 DEF PublishMember, IInv, HandleInSync, TypeOK
      <3>3. names[p] = {}
        <4>1. names[p] \cap {"stage", "final"} = {}
          BY <2>2 DEF IInv, BytesAreExplained
        <4> QED
          BY <2>2, <4>1 DEF IInv, TypeOK, Entries
      <3>4. Fresh'
        BY <3>1, <3>2, <3>3 DEF Fresh, InSync
      <3> QED
        BY ONLY <3>1, <3>4, SMTT(20) DEF Progress, Steps
    <2> QED
      BY <2>1, <2>2
  <1>11. ASSUME NEW p \in Pubs, RecoverPublication(p)
        PROVE  Progress'
    BY <1>11, PublishStarts DEF RecoverPublication
  <1>12. CASE Writes
    BY <1>12, WriteProgresses
  <1>13. CASE UNCHANGED vars
    BY <1>13, ZenonT(40) DEF vars, Progress, Fresh, Intended, Explained, Staged, Linked,
        Final, Sealed, Over, MembersStored, Members, IsParent, IInv, TypeOK
  <1> QED
    BY <1>1, <1>2, <1>3, <1>4, <1>5, <1>6, <1>7, <1>8, <1>9, <1>10, <1>11,
        <1>12, <1>13 DEF Next

-----------------------------------------------------------------------------
(* The properties, publication by publication.                             *)

ExplainedAt(p) ==
    (names[p] \cup dNames[p]) \cap {"stage", "final"} # {} =>
        "json" \in names[p] \cap dNames[p] /\ json[p] = 2 /\ dJson[p] = 2

SealedAt(p) == "final" \in names[p] \cup dNames[p] => data[p] = 2 /\ dData[p] = 2

OverAt(p) == "final" \in names[p] \cup dNames[p] /\ IsParent(p) => MembersStored(scopeOf[p])

StoredAt(p) == "final" \in dNames[p] /\ dData[p] = 2

Durable(p) ==
    /\ dNames[p] = {"json", "final"} /\ names[p] = dNames[p]
    /\ dData[p] = 2 /\ dJson[p] = 2

\* Wherever the writer stands, the publication at work has the properties.
LEMMA WorkIsSound ==
  TypeOK /\ Progress /\ pc \in Steps => ExplainedAt(target) /\ SealedAt(target) /\ OverAt(target)
  <1> SUFFICES ASSUME TypeOK, Progress, pc \in Steps
               PROVE  ExplainedAt(target) /\ SealedAt(target) /\ OverAt(target)
    OBVIOUS
  <1>1. CASE pc \in {"mkdir", "mkdirs", "json-create"}
    <2>1. Fresh
      BY <1>1 DEF Progress
    <2> QED
      BY <2>1 DEF Fresh, ExplainedAt, SealedAt, OverAt
  <1>2. CASE pc \in {"json-seal", "json-sync", "json-dir", "data-create"}
    <2>1. Intended
      BY <1>2 DEF Progress
    <2> QED
      BY <2>1 DEF Intended, ExplainedAt, SealedAt, OverAt
  <1>3. CASE pc \in {"data-seal", "data-sync", "data-dir", "link"}
    <2>1. Staged /\ Explained
      BY <1>3 DEF Progress, Steps
    <2> QED
      BY <2>1 DEF Staged, Explained, ExplainedAt, SealedAt, OverAt
  <1>4. CASE pc \in {"unlink", "file-sync", "final-sync", "stage-sync", "file-resync",
                     "final-resync", "intent-sync", "readback"}
    <2>1. (Linked \/ Final) /\ Explained /\ Sealed /\ Over
      BY <1>4 DEF Progress, Steps
    <2>2. "json" \in names[target]
      BY <2>1 DEF Linked, Final, Entries
    <2> QED
      BY <2>1, <2>2 DEF Explained, Sealed, Over, ExplainedAt, SealedAt, OverAt
  <1> QED
    BY <1>1, <1>2, <1>3, <1>4 DEF Steps

LEMMA WorkStaysSound ==
  (TypeOK /\ Progress /\ pc \in Steps)' => (ExplainedAt(target) /\ SealedAt(target) /\ OverAt(target))'
  BY WorkIsSound, PTL

\* A write that ends an operation makes no change but the fsync of a directory.
LEMMA WriteEnds ==
  IInv /\ Writes /\ pc' = "idle" =>
      /\ names'[target] = names[target] /\ dNames'[target] = names[target]
      /\ json'[target] = json[target] /\ dJson'[target] = dJson[target]
      /\ data'[target] = data[target] /\ dData'[target] = dData[target]
  <1> SUFFICES ASSUME IInv, Writes, pc' = "idle"
               PROVE  /\ names'[target] = names[target] /\ dNames'[target] = names[target]
                      /\ json'[target] = json[target] /\ dJson'[target] = dJson[target]
                      /\ data'[target] = data[target] /\ dData'[target] = dData[target]
    OBVIOUS
  <1>1. DataDir \/ Acknowledge
    BY DEF Writes, Go, Mkdir, Mkdirs, JsonCreate, JsonSeal, JsonSync, JsonDir,
       DataCreate, DataSeal, DataSync, Link, Unlink, FileSync, FinalSync, StageSync,
       IntentSync
  <1>2. UNCHANGED <<names, json, dJson, data, dData, target>>
    BY <1>1 DEF DataDir, Acknowledge, fs, disk
  <1>3. InSync(target)'
    BY HandleStep DEF HandleInSync, Next
  <1> QED
    BY <1>2, <1>3 DEF InSync

\* A write leaves its target with the properties.
LEMMA TargetIsSound ==
  IInv /\ Writes => (ExplainedAt(target) /\ SealedAt(target) /\ OverAt(target))'
  <1> SUFFICES ASSUME IInv, Writes
               PROVE  (ExplainedAt(target) /\ SealedAt(target) /\ OverAt(target))'
    OBVIOUS
  <1>1. TypeOK' /\ Progress'
    BY TypeStep, WriteProgresses DEF Next
  <1>2. CASE pc' \in Steps
    BY <1>1, <1>2, WorkStaysSound
  <1>3. CASE pc' = "idle"
    <2>1. ExplainedAt(target) /\ SealedAt(target) /\ OverAt(target) /\ target' = target
      BY WorkIsSound, WriteGoesOn DEF IInv
    <2>2. OverAt(target)'
      <3> SUFFICES ASSUME IsParent(target), "final" \in names[target] PROVE Over'
        BY <1>3, <2>1, WriteEnds, ZenonT(40) DEF OverAt, Over, IsParent
      <3> QED
        BY <2>1, OverStays DEF OverAt, Over
    <2> QED
      BY <1>3, <2>1, <2>2, WriteEnds DEF ExplainedAt, SealedAt
  <1> QED
    BY <1>2, <1>3, WriteGoesOn

\* A publication that is stored is no target of a write that unmakes it.
LEMMA StoredTarget == IInv /\ Writes /\ StoredAt(target) => StoredAt(target)'
  <1> SUFFICES ASSUME IInv, Writes, StoredAt(target) PROVE StoredAt(target)'
    OBVIOUS
  <1>a. TypeOK /\ Progress /\ target \in Pubs /\ target' = target /\ pc \in Steps
    BY WriteGoesOn DEF IInv, TypeOK
  <1>b. "final" \in names[target] /\ data[target] = 2 /\ "final" \in dNames[target] /\ dData[target] = 2
    <2>1. BehindAt(target) /\ data[target] \in 0..2
      BY <1>a DEF IInv, Behind, TypeOK
    <2>2. "final" \in dNames[target] /\ dData[target] = 2
      BY DEF StoredAt
    <2> QED
      BY ONLY <2>1, <2>2 DEF BehindAt
  <1>c. ~Fresh /\ ~Intended /\ ~Staged
    BY ONLY <1>b, Zenon DEF Fresh, Intended, Staged
  <1>d. pc \notin {"mkdir", "mkdirs", "json-create", "json-seal", "json-sync", "json-dir",
                   "data-create", "data-seal", "data-sync", "data-dir", "link"}
    BY ONLY <1>a, <1>c, SMTT(20) DEF Progress
  <1>1. CASE Unlink \/ Acknowledge
    BY <1>1, <1>a, <1>b DEF Unlink, Acknowledge, StoredAt, fs, disk
  <1>2. CASE FileSync
    BY <1>2, <1>a, <1>b DEF FileSync, StoredAt, TypeOK
  <1>3. CASE FinalSync
    BY <1>3, <1>a, <1>b DEF FinalSync, SyncedFinals, SameDirectory, StoredAt
  <1>4. CASE StageSync \/ IntentSync
    BY <1>4, <1>a, <1>b DEF StageSync, IntentSync, SyncedStaging, StoredAt
  <1> QED
    BY <1>d, <1>1, <1>2, <1>3, <1>4
    DEF Writes, Mkdir, Mkdirs, JsonCreate, JsonSeal, JsonSync, JsonDir, DataCreate,
        DataSeal, DataSync, DataDir, Link

\* Nor is an acknowledged one.
LEMMA DurableTarget == IInv /\ Writes /\ Durable(target) => Durable(target)'
  <1> SUFFICES ASSUME IInv, Writes, Durable(target) PROVE Durable(target)'
    OBVIOUS
  <1>a. TypeOK /\ Progress /\ target \in Pubs /\ target' = target /\ pc \in Steps
        /\ scopeOf[target] \in Scopes
    BY WriteGoesOn, EvidenceStoreAssumption DEF IInv, TypeOK
  <1>b. names[target] = dNames[target] /\ "final" \in names[target] /\ "stage" \notin names[target]
    BY SMT DEF Durable
  <1>c. data[target] = 2 /\ json[target] = 2
    <2>1. BehindAt(target) /\ data[target] \in 0..2 /\ json[target] \in 0..2
      BY <1>a DEF IInv, Behind, TypeOK
    <2>2. dData[target] = 2 /\ dJson[target] = 2
      BY DEF Durable
    <2> QED
      BY ONLY <2>1, <2>2, SMTT(20) DEF BehindAt
  <1>d. SyncedStaging(scopeOf[target])[target] = names[target] /\ SyncedFinals(target)[target] = names[target]
    BY <1>a, <1>b, SyncKeeps, ZenonT(40)
  <1>e. ~Fresh /\ ~Intended /\ ~Staged /\ ~Linked
    BY ONLY <1>b DEF Fresh, Intended, Staged, Linked
  <1>f. pc \notin {"mkdir", "mkdirs", "json-create", "json-seal", "json-sync", "json-dir",
                   "data-create", "data-seal", "data-sync", "data-dir", "link", "unlink"}
    BY ONLY <1>a, <1>e, Zenon DEF Progress
  <1>1. CASE Acknowledge
    BY <1>1, <1>a DEF Acknowledge, Durable, fs, disk
  <1>2. CASE FileSync
    BY <1>2, <1>a, <1>c, SMTT(20) DEF FileSync, Durable, TypeOK, fs
  <1>3. CASE FinalSync \/ StageSync
    BY <1>3, <1>a, <1>d DEF FinalSync, StageSync, Durable, fs
  <1>4. CASE IntentSync
    BY <1>4, <1>a, <1>c, <1>d DEF IntentSync, Durable, TypeOK, fs
  <1> QED
    BY <1>f, <1>1, <1>2, <1>3, <1>4
    DEF Writes, Mkdir, Mkdirs, JsonCreate, JsonSeal, JsonSync, JsonDir, DataCreate,
        DataSeal, DataSync, DataDir, Link, Unlink

\* The intent is on disk before the bytes are created, and is never removed.
LEMMA ExplainedStep == IInv /\ [Next]_vars => BytesAreExplained'
  <1> SUFFICES ASSUME IInv, [Next]_vars PROVE BytesAreExplained'
    OBVIOUS
  <1>1. CASE Quiet
    BY <1>1 DEF Quiet, fs, disk, IInv, BytesAreExplained
  <1>2. CASE Open
    <2>1. UNCHANGED <<names, json>> /\ dNames' = names /\ dJson' = json
      BY <1>2 DEF Open, fs
    <2> QED
      BY <2>1 DEF IInv, BytesAreExplained
  <1>3. CASE PowerLoss
    <2> SUFFICES ASSUME NEW p \in Pubs PROVE ExplainedAt(p)'
      BY DEF BytesAreExplained, ExplainedAt
    <2>1. Kept(p) /\ ExplainedAt(p)
      BY <1>3, LossKeeps DEF IInv, BytesAreExplained, ExplainedAt
    <2> QED
      BY ONLY <2>1, SMTT(20) DEF Kept, ExplainedAt
  <1>4. CASE Writes
    <2> SUFFICES ASSUME NEW p \in Pubs PROVE ExplainedAt(p)'
      BY DEF BytesAreExplained, ExplainedAt
    <2>1. CASE p = target
      BY <1>4, <2>1, TargetIsSound, WriteGoesOn
    <2>2. CASE p # target
      BY <1>4, <2>2, WriteSpares DEF IInv, BytesAreExplained, ExplainedAt, Untouched
    <2> QED
      BY <2>1, <2>2
  <1> QED
    BY <1>1, <1>2, <1>3, <1>4, StepKinds

\* The link is made to a file that is complete and on disk.
LEMMA SealedStep == IInv /\ [Next]_vars => FinalIsSealed'
  <1> SUFFICES ASSUME IInv, [Next]_vars PROVE FinalIsSealed'
    OBVIOUS
  <1>1. CASE Quiet
    BY <1>1 DEF Quiet, fs, disk, IInv, FinalIsSealed
  <1>2. CASE Open
    <2>1. UNCHANGED <<names, data>> /\ dNames' = names /\ dData' = data
      BY <1>2 DEF Open, fs
    <2> QED
      BY <2>1 DEF IInv, FinalIsSealed
  <1>3. CASE PowerLoss
    <2> SUFFICES ASSUME NEW p \in Pubs PROVE SealedAt(p)'
      BY DEF FinalIsSealed, SealedAt
    <2>1. Kept(p) /\ SealedAt(p)
      BY <1>3, LossKeeps DEF IInv, FinalIsSealed, SealedAt
    <2> QED
      BY ONLY <2>1, SMTT(20) DEF Kept, SealedAt
  <1>4. CASE Writes
    <2> SUFFICES ASSUME NEW p \in Pubs PROVE SealedAt(p)'
      BY DEF FinalIsSealed, SealedAt
    <2>1. CASE p = target
      BY <1>4, <2>1, TargetIsSound, WriteGoesOn
    <2>2. CASE p # target
      BY <1>4, <2>2, WriteSpares DEF IInv, FinalIsSealed, SealedAt, Untouched
    <2> QED
      BY <2>1, <2>2
  <1> QED
    BY <1>1, <1>2, <1>3, <1>4, StepKinds

\* What is stored stays, through writes, crashes and losses of power.
LEMMA StoredStays ==
  ASSUME IInv, [Next]_vars, NEW p \in Pubs, StoredAt(p)
  PROVE  StoredAt(p)'
  <1>1. CASE Quiet
    BY <1>1 DEF Quiet, disk, StoredAt
  <1>a. "final" \in names[p] /\ data[p] = 2
    BY SMT DEF IInv, Behind, BehindAt, TypeOK, StoredAt
  <1>2. CASE Open
    BY <1>2, <1>a DEF Open, StoredAt
  <1>3. CASE PowerLoss
    <2>1. Kept(p)
      BY <1>3, LossKeeps DEF IInv
    <2> QED
      BY ONLY <1>a, <2>1, StoredAt(p) DEF Kept, StoredAt
  <1>4. CASE Writes
    <2>1. CASE p = target
      BY <1>4, <2>1, StoredTarget, WriteGoesOn
    <2>2. CASE p # target
      BY <1>4, <2>2, WriteSpares DEF Untouched, StoredAt
    <2> QED
      BY <2>1, <2>2
  <1> QED
    BY <1>1, <1>2, <1>3, <1>4, StepKinds

\* A parent is linked when its members are on disk, and they stay there.
LEMMA ParentStep == IInv /\ [Next]_vars => ParentCommitsLast'
  <1> SUFFICES ASSUME IInv, [Next]_vars, NEW s \in Scopes,
                      "final" \in names'[parentOf[s]] \cup dNames'[parentOf[s]],
                      NEW p \in Members(s)
               PROVE  StoredAt(p)'
    BY DEF ParentCommitsLast, StoredAt, Members
  <1>a. p \in Pubs /\ parentOf[s] \in Pubs /\ scopeOf[parentOf[s]] = s
    BY EvidenceStoreAssumption DEF Members
  <1>b. ASSUME "final" \in names[parentOf[s]] \cup dNames[parentOf[s]] PROVE StoredAt(p)'
    <2>1. StoredAt(p)
      BY <1>b DEF IInv, ParentCommitsLast, StoredAt
    <2> QED
      BY <1>a, <2>1, StoredStays
  <1>1. CASE Quiet
    BY <1>1, <1>b DEF Quiet, fs, disk
  <1>2. CASE Open
    BY <1>2, <1>b DEF Open, fs
  <1>3. CASE PowerLoss
    BY <1>3, <1>a, <1>b, LossKeeps, ZenonT(40) DEF IInv, Kept
  <1>4. CASE Writes
    <2>1. CASE parentOf[s] = target
      <3>1. OverAt(target)' /\ target' = target
        BY <1>4, TargetIsSound, WriteGoesOn
      <3>2. MembersStored(s)'
        BY <1>a, <2>1, <3>1 DEF OverAt, IsParent
      <3> QED
        BY <3>2 DEF MembersStored, StoredAt, Members
    <2>2. CASE parentOf[s] # target
      BY <1>4, <1>a, <1>b, <2>2, WriteSpares DEF Untouched
    <2> QED
      BY <2>1, <2>2
  <1> QED
    BY <1>1, <1>2, <1>3, <1>4, StepKinds

\* The acknowledgement follows the last fsync, and no later write touches it.
LEMMA AckedStep == IInv /\ [Next]_vars => AckedIsDurable'
  <1> SUFFICES ASSUME IInv, [Next]_vars, NEW p \in acked' PROVE Durable(p)'
    BY DEF AckedIsDurable, Durable
  <1>a. ASSUME p \in acked PROVE Durable(p) /\ p \in Pubs
    BY <1>a DEF IInv, TypeOK, AckedIsDurable, Durable
  <1>1. CASE Quiet
    BY <1>1, <1>a DEF Quiet, fs, disk, Durable
  <1>2. CASE Open
    <2>1. p \in acked /\ names' = names /\ dNames' = names /\ dData' = data /\ dJson' = json
      BY <1>2 DEF Open, fs
    <2>2. Durable(p) /\ BehindAt(p) /\ data[p] \in 0..2 /\ json[p] \in 0..2
      BY <1>a, <2>1 DEF IInv, TypeOK, Behind
    <2> QED
      BY ONLY <2>1, <2>2 DEF Durable, BehindAt
  <1>3. CASE PowerLoss
    <2>1. p \in acked
      BY <1>3 DEF PowerLoss
    <2>2. Kept(p) /\ Durable(p) /\ BehindAt(p) /\ data[p] \in 0..2 /\ json[p] \in 0..2
      BY <1>3, <1>a, <2>1, LossKeeps DEF IInv, TypeOK, Behind
    <2>3. dNames'[p] = names'[p] /\ names'[p] = {"json", "final"}
      BY ONLY <2>2, Zenon DEF Kept, Durable
    <2>4. dData'[p] = data'[p] /\ data'[p] \in 0..2 /\ dData[p] = 2 /\ dData[p] <= data'[p]
      BY ONLY <2>2, Zenon DEF Kept, Durable
    <2>5. dJson'[p] = json'[p] /\ json'[p] \in 0..2 /\ dJson[p] = 2 /\ dJson[p] <= json'[p]
      BY ONLY <2>2, Zenon DEF Kept, Durable
    <2>6. dData'[p] = 2 /\ dJson'[p] = 2
      <3>1. \A n \in 0..2 : 2 <= n => n = 2
        BY SMT
      <3> QED BY ONLY <2>4, <2>5, <3>1, Zenon
    <2> QED
      BY <2>3, <2>6 DEF Durable
  <1>4. CASE Writes
    <2>1. CASE p \in acked /\ p = target
      BY <1>4, <1>a, <2>1, DurableTarget, WriteGoesOn
    <2>2. CASE p \in acked /\ p # target
      BY <1>4, <1>a, <2>2, WriteSpares DEF Untouched, Durable
    <2>3. CASE p \notin acked
      <3>1. Acknowledge /\ p = target
        BY <1>4, <2>3, ZenonT(40) DEF Writes, Go, Mkdir, Mkdirs, JsonCreate, JsonSeal, JsonSync,
           JsonDir, DataCreate, DataSeal, DataSync, DataDir, Link, Unlink, FileSync,
           FinalSync, StageSync, IntentSync, Acknowledge
      <3>2. Final /\ Explained /\ Sealed /\ "final" \in dNames[target]
            /\ "stage" \notin dNames[target] /\ dNames[target] \subseteq Entries
        BY <3>1 DEF Acknowledge, IInv, TypeOK, Progress, Steps
      <3>3. dNames[target] = {"json", "final"}
        BY ONLY <3>2, Zenon DEF Explained, Entries
      <3> QED
        BY <3>1, <3>2, <3>3 DEF Acknowledge, fs, disk, Final, Explained, Sealed, Durable
    <2> QED
      BY <2>1, <2>2, <2>3
  <1> QED
    BY <1>1, <1>2, <1>3, <1>4, StepKinds

LEMMA InitIInv == Init => IInv
  <1> SUFFICES ASSUME Init PROVE IInv
    OBVIOUS
  <1>1. TypeOK
    BY EvidenceStoreAssumption, SMT DEF Init, TypeOK
  <1>2. Behind /\ Rooted
    BY EvidenceStoreAssumption, SMT DEF Init, Behind, BehindAt, Rooted
  <1>3. Placed /\ HandleInSync /\ Progress
    BY DEF Init, Placed, HandleInSync, Progress, Steps
  <1>4. BytesAreExplained /\ FinalIsSealed /\ ParentCommitsLast /\ AckedIsDurable
    BY EvidenceStoreAssumption
    DEF Init, BytesAreExplained, FinalIsSealed, ParentCommitsLast, AckedIsDurable
  <1> QED
    BY <1>1, <1>2, <1>3, <1>4 DEF IInv

LEMMA NextIInv == IInv /\ [Next]_vars => IInv'
  BY TypeStep, BehindStep, RootedStep, PlacedStep, HandleStep, ProgressStep,
     ExplainedStep, SealedStep, ParentStep, AckedStep DEF IInv

\* The strengthened invariant holds through every crash and loss of power.
THEOREM InvariantHolds == Spec => []IInv
  BY InitIInv, NextIInv, PTL DEF Spec

\* The types hold for any number of scopes, publications and losses.
THEOREM TypesCorrect == Spec => []TypeOK
  <1>1. IInv => TypeOK
    BY DEF IInv
  <1> QED
    BY InvariantHolds, <1>1, PTL

\* An acknowledged publication is on disk, whole and under its final name, for
\* ever after.
THEOREM AcknowledgementsAreDurable == Spec => []AckedIsDurable
  <1>1. IInv => AckedIsDurable
    BY DEF IInv
  <1> QED
    BY InvariantHolds, <1>1, PTL

\* A final name never shows incomplete bytes.
THEOREM FinalNamesAreSealed == Spec => []FinalIsSealed
  <1>1. IInv => FinalIsSealed
    BY DEF IInv
  <1> QED
    BY InvariantHolds, <1>1, PTL

\* A parent becomes visible only over members that are on disk.
THEOREM ParentsCommitLast == Spec => []ParentCommitsLast
  <1>1. IInv => ParentCommitsLast
    BY DEF IInv
  <1> QED
    BY InvariantHolds, <1>1, PTL

\* Bytes in the store are explained by a complete intent on disk.
THEOREM AllBytesExplained == Spec => []BytesAreExplained
  <1>1. IInv => BytesAreExplained
    BY DEF IInv
  <1> QED
    BY InvariantHolds, <1>1, PTL

\* The three together, after any number of failures, restarts and losses of power.
THEOREM StoreStaysDurable == Spec => []StoreIsDurable
  BY FinalNamesAreSealed, ParentsCommitLast, AllBytesExplained, PTL DEF StoreIsDurable

-----------------------------------------------------------------------------
(* The publisher implements the atomic store.                              *)

\* A final name reaches the disk after it was seen.
LEMMA SeenFirst ==
  ASSUME IInv, [Next]_vars, NEW p \in Pubs, "final" \in dNames'[p]
  PROVE  "final" \in names[p] \cup dNames[p]
  <1>1. CASE Quiet
    BY <1>1 DEF Quiet, disk
  <1>2. CASE Open
    BY <1>2 DEF Open
  <1>3. CASE PowerLoss
    BY <1>3, LossKeeps DEF IInv, Kept
  <1>4. CASE Writes
    <2>1. CASE UNCHANGED dNames
      BY <2>1
    <2>2. CASE dNames' = SyncedStaging(scopeOf[target]) \/ dNames' = SyncedFinals(target)
      BY <2>2 DEF SyncedStaging, SyncedFinals
    <2> QED
      BY <1>4, <2>1, <2>2
      DEF Writes, disk, Mkdir, Mkdirs, JsonCreate, JsonSeal, JsonSync, JsonDir, DataCreate,
          DataSeal, DataSync, DataDir, Link, Unlink, FileSync, FinalSync, StageSync,
          IntentSync, Acknowledge
  <1> QED
    BY <1>1, <1>2, <1>3, <1>4, StepKinds

\* Only the last step of a publication acknowledges it, and changes nothing else.
LEMMA AckIsOfStored ==
  IInv /\ [Next]_vars =>
      acked' = acked \/ (target \in Stored /\ acked' = acked \cup {target} /\ Stored' = Stored)
  <1> SUFFICES ASSUME IInv, [Next]_vars, acked' # acked
               PROVE  target \in Stored /\ acked' = acked \cup {target} /\ Stored' = Stored
    OBVIOUS
  <1>1. Writes
    BY StepKinds DEF Quiet, Open, PowerLoss
  <1>2. Acknowledge
    BY <1>1, ZenonT(40) DEF Writes, Go, Mkdir, Mkdirs, JsonCreate, JsonSeal, JsonSync, JsonDir,
       DataCreate, DataSeal, DataSync, DataDir, Link, Unlink, FileSync, FinalSync,
       StageSync, IntentSync
  <1>3. Sealed /\ "final" \in dNames[target] /\ target \in Pubs
    BY <1>2 DEF Acknowledge, IInv, TypeOK, Progress
  <1> QED
    BY <1>2, <1>3 DEF Acknowledge, fs, disk, Stored, Sealed

\* Every step of the publisher is a step of the atomic store, or none.
LEMMA SimulationStep == IInv /\ [Next]_vars => [Promise!Next]_<<Stored, acked>>
  <1> SUFFICES ASSUME IInv, [Next]_vars PROVE [Promise!Next]_<<Stored, acked>>
    OBVIOUS
  <1>1. \A p \in Stored : p \in Stored'
    BY StoredStays DEF Stored, StoredAt
  <1>2. CASE acked' = acked
    <2> DEFINE S == Stored' \ Stored
    <2>1. S \in SUBSET (Pubs \ Stored) /\ Stored' = Stored \cup S
      BY <1>1 DEF Stored
    <2>2. ASSUME NEW s \in Scopes, parentOf[s] \in S
          PROVE  Promise!MembersOf(s) \subseteq Stored
      <3>1. parentOf[s] \in Pubs /\ "final" \in dNames'[parentOf[s]]
        BY <2>2, EvidenceStoreAssumption DEF Stored
      <3>2. "final" \in names[parentOf[s]] \cup dNames[parentOf[s]]
        BY <3>1, SeenFirst
      <3> QED
        BY <3>2 DEF IInv, ParentCommitsLast, Members, Promise!MembersOf, Stored
    <2> QED
      BY <1>2, <2>1, <2>2 DEF Promise!Next, Promise!Store
  <1>3. CASE acked' # acked
    BY <1>3, AckIsOfStored DEF Promise!Next, Promise!Ack
  <1> QED
    BY <1>2, <1>3

\* The publication protocol implements PublicationStore: what is stored stays,
\* parents follow their members, and only stored publications are acknowledged.
THEOREM PublisherImplementsStore == Spec => ImplementsStore
  <1>1. Init => Promise!Init
    BY DEF Init, Promise!Init, Stored
  <1> QED
    BY InvariantHolds, SimulationStep, <1>1, PTL DEF Spec, ImplementsStore, Promise!Spec
=============================================================================
