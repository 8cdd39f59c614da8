------------------------- MODULE SourceAcquisition -------------------------
(***************************************************************************)
(* Offline source acquisition (src/integrations/scm/source_acquisition.py  *)
(* over src/services/scan/source_capture.py and git_objects.py): one call  *)
(* of capture_offline_objects reads a directory of Git objects, stages the *)
(* checkout, hands it to the custody store, publishes a proof and replays  *)
(* it; anyone holding the result may replay it later.                      *)
(*                                                                         *)
(* A file is its content and its stamp (_stamp: inode, size and times).    *)
(* Every change of a file changes its stamp; the content is "good" when it *)
(* is the blob the commit names at that path and "other" when it is not.   *)
(*                                                                         *)
(* Around the call: files change behind its back, any system call may fail,*)
(* the operator may interrupt, and power may be lost.                      *)
(***************************************************************************)
EXTENDS Naturals, FiniteSets

CONSTANTS Files,        \* the paths of the commit's tree
          Requests,     \* the calls: are limits, binding and paths in order?
          MaxChanges    \* how often files are changed behind the process's back

Absent == [content |-> "absent", stamp |-> 0]
Written(content) == [content |-> content, stamp |-> 0]
Changed(file, content) == [content |-> content, stamp |-> file.stamp + 1]
FileStates == [content : {"absent", "good", "other"}, stamp : 0 .. MaxChanges]

EmptyDirectory == [f \in Files |-> Absent]
Whole(dir) == \A f \in Files : dir[f].content = "good"

(***************************************************************************)
(* One pass of _tree_evidence over a directory: walk it and record every   *)
(* stamp, read file by file against the recorded stamp, walk it again.     *)
(***************************************************************************)
NoPass == [phase |-> "none", todo |-> {}, stamps |-> [f \in Files |-> 0], got |-> [f \in Files |-> "absent"]]
StartPass == [NoPass EXCEPT !.phase = "walk", !.todo = Files]

\* _stamp: what os.stat tells about a file.
Stamp(file) == file.stamp

Passes == [phase : {"none", "walk", "read", "again", "done"}, todo : SUBSET Files,
           stamps : [Files -> 0 .. MaxChanges], got : [Files -> {"absent", "good", "other"}]]

\* The walk, the reads and the second walk visit every file once.
Advance(pass, f, phase, next) ==
    LET left == pass.todo \ {f}
    IN  [pass EXCEPT !.todo = IF left = {} /\ next # "done" THEN Files ELSE left,
                     !.phase = IF left = {} THEN next ELSE phase]

\* _walk: every entry is a regular file or a directory; its stamp is recorded.
WalkFile(pass, f, dir) == [Advance(pass, f, "walk", "read") EXCEPT !.stamps[f] = Stamp(dir[f])]

\* The file is opened, its stamp compared with the walk's, and its bytes hashed.
ReadFile(pass, f, dir) == [Advance(pass, f, "read", "again") EXCEPT !.got[f] = dir[f].content]

\* The second walk must find the entries of the first.
AgainFile(pass, f, dir) == Advance(pass, f, "again", "done")

\* "source file changed before copying" and "source tree changed during capture".
Refused(pass, f, dir) ==
    \/ dir[f].content = "absent"
    \/ pass.phase # "walk" /\ Stamp(dir[f]) # pass.stamps[f]

NextPass(pass, f, dir) ==
    CASE pass.phase = "walk" -> WalkFile(pass, f, dir)
      [] pass.phase = "read" -> ReadFile(pass, f, dir)
      [] pass.phase = "again" -> AgainFile(pass, f, dir)

\* The evidence of a finished pass: the inventory with its count and digests.
Evidence(pass) == [inventory |-> pass.got, count |-> Cardinality({f \in Files : pass.got[f] # "absent"})]
NoReceipt == [inventory |-> [f \in Files |-> "absent"], count |-> 0]
\* _receipt: a receipt is used only when its counts agree with its inventory.
ReceiptOk(receipt) == receipt.count = Cardinality({f \in Files : receipt.inventory[f] # "absent"})

(***************************************************************************)
(* What survives power loss: a file's bytes once fsync'ed, a directory's   *)
(* entry once its directory is.  An item names the pair; Markers are the   *)
(* files whose presence says that an object or a proof is finished.        *)
(***************************************************************************)
ObjectItems == {"bytes", "entries", "manifest", "object"}
\* The four JSON documents and the commit; the producer's modules; the trees.
Artifacts == {"documents", "code", "trees", "proof.json"}
ProofItems == Artifacts \cup {"proof"}
Markers == {"SEALED", "COMPLETE"}
Items == ObjectItems \cup ProofItems \cup Markers

\* What each marker vouches for.
Vouched(marker) == IF marker = "SEALED" THEN {"bytes", "entries", "manifest"} ELSE Artifacts

\* LocalSourceCaptureStore.verify before it reads the source: mode 0555 and
\* exactly the three names, the manifest and the marker of the receipt.
Published(disk, closed) == closed /\ {"SEALED", "manifest", "entries", "object"} \subseteq disk

-----------------------------------------------------------------------------
VARIABLES
    input,     \* the preimages of the commit's blobs, one file per path
    staged,    \* attempt-<id>/source
    object,    \* <store>/<object id>/source
    disk,      \* which of Items exist
    durable,   \* which of them power loss cannot take
    run,       \* the locals of capture_offline_objects
    failure,   \* attempt-<id>/failure.json
    outcome,   \* what the call gave its caller
    replay,    \* verify_offline_capture called on the result
    changes,   \* how many changes behind the process's back
    power      \* FALSE once power was lost

acqVars == <<input, staged, object, disk, durable, run, failure, outcome, replay, changes, power>>

NoFailure == [written |-> FALSE, stage |-> "input", reason |-> "none", state |-> "not-started", receipt |-> FALSE, proof |-> FALSE]
NoReplay == [pc |-> "idle", pass |-> NoPass, shown |-> FALSE]

Stages == {"input", "objects", "staging", "custody", "capture-verification", "proof-publication", "result"}
Labels == {"input", "load", "attempt", "materialize", "match", "recheck", "allocate", "copy", "readback", "manifest",
           "seal", "receipt", "verify", "retained", "again", "proof", "artifacts", "complete", "check", "checksource",
           "return", "failing", "closing", "over"}

acqTypeOK ==
    /\ input \in [Files -> FileStates] /\ staged \in [Files -> FileStates] /\ object \in [Files -> FileStates]
    /\ disk \subseteq Items /\ durable \subseteq disk
    /\ run.pc \in Labels /\ run.stage \in Stages /\ run.todo \subseteq Files /\ run.pass \in Passes
    /\ outcome \in {"none", "result", "refused", "interrupted"}
    /\ replay.pc \in {"idle", "reading", "verified", "accepted", "refused"}
    /\ changes \in 0 .. MaxChanges

acqInit ==
    /\ input \in [Files -> {Written("good"), Absent}]
    /\ staged = EmptyDirectory /\ object = EmptyDirectory
    /\ disk = {} /\ durable = {}
    /\ run = [pc |-> "input", stage |-> "input", state |-> "not-started", tree |-> [f \in Files |-> 0], todo |-> {},
              pass |-> NoPass, copied |-> NoReceipt, attempt |-> FALSE, receipt |-> FALSE,
              proof |-> FALSE, error |-> "none"]
    /\ failure = NoFailure /\ outcome = "none" /\ replay = NoReplay /\ changes = 0 /\ power = TRUE

At(label) == power /\ run.pc = label
Goto(label) == run' = [run EXCEPT !.pc = label]
Keep == UNCHANGED <<input, failure, outcome, replay, changes, power>>
Create(items) == disk' = disk \cup items
Flush(items) == durable' = durable \cup items
Raise(reason) ==
    /\ run' = [run EXCEPT !.pc = "failing", !.error = reason]
    /\ UNCHANGED <<input, staged, object, disk, durable, failure, outcome, replay, changes, power>>

-----------------------------------------------------------------------------
\* freeze_limits, _binding, _disjoint and open_directory: what a call needs
\* before anything is read.
FreezeLimits(request) == request.limits
Binding(request) == request.binding
Disjoint(request) == \A a, b \in 1 .. 3 : a # b => request.paths[a] # request.paths[b]
OpenDirectories(request) == \A a \in 1 .. 3 : request.paths[a] # "missing"

\* Freeze limits, binding and claim; hold the three disjoint directories.
Input ==
    /\ At("input")
    /\ \E request \in Requests :
          IF FreezeLimits(request) /\ Binding(request) /\ Disjoint(request) /\ OpenDirectories(request)
          THEN /\ run' = [run EXCEPT !.pc = "load", !.stage = "objects"]
               /\ UNCHANGED <<staged, object, disk, durable>> /\ Keep
          ELSE Raise("invalid-input")

\* load_object_directory: every object hashes to its name and the commit
\* expands to exactly the objects that are there; the stamps are remembered.
Loadable == \A f \in Files : input[f].content = "good"
Load ==
    /\ At("load")
    /\ IF Loadable
       THEN /\ run' = [run EXCEPT !.pc = "attempt", !.stage = "staging", !.tree = [f \in Files |-> Stamp(input[f])]]
            /\ UNCHANGED <<staged, object, disk, durable>> /\ Keep
       ELSE Raise("changed-input")

\* attempt = _mkdir(evidence, ...): the descriptor is held only when every
\* call of _mkdir succeeds.
MakeAttempt ==
    /\ At("attempt")
    /\ run' = [run EXCEPT !.pc = "materialize", !.attempt = TRUE, !.todo = Files]
    /\ UNCHANGED <<staged, object, disk, durable>> /\ Keep

\* copy_verified_blob: rehash the object while writing it out.
Materialize(f) ==
    /\ At("materialize") /\ f \in run.todo
    /\ IF input[f].content = "good" /\ Stamp(input[f]) = run.tree[f]
       THEN /\ staged' = [staged EXCEPT ![f] = Written("good")]
            /\ run' = [run EXCEPT !.todo = IF run.todo = {f} THEN Files ELSE @ \ {f},
                                  !.pc = IF run.todo = {f} THEN "match" ELSE @]
            /\ UNCHANGED <<object, disk, durable>> /\ Keep
       ELSE Raise("changed-input")

\* _match_source: what was staged is the tree, file by file.
MatchStaged(f) ==
    /\ At("match") /\ f \in run.todo
    /\ IF staged[f].content = "good"
       THEN /\ run' = [run EXCEPT !.todo = @ \ {f}, !.pc = IF run.todo = {f} THEN "recheck" ELSE @]
            /\ UNCHANGED <<staged, object, disk, durable>> /\ Keep
       ELSE Raise("changed-input")

\* recheck_object_directory: load it all again and compare with the tree.
Unchanged == Loadable /\ \A f \in Files : Stamp(input[f]) = run.tree[f]
Recheck_NotMarked ==
    /\ At("recheck")
    /\ IF Unchanged
       THEN /\ run' = [run EXCEPT !.pc = "allocate", !.stage = "custody"]
            /\ UNCHANGED <<staged, object, disk, durable>> /\ Keep
       ELSE Raise("changed-input")
Recheck ==
    /\ At("recheck")
    /\ IF Unchanged
       THEN /\ run' = [run EXCEPT !.pc = "allocate", !.stage = "custody", !.state = "unknown"]
            /\ UNCHANGED <<staged, object, disk, durable>> /\ Keep
       ELSE Raise("changed-input")

-----------------------------------------------------------------------------
(***************************************************************************)
(* LocalSourceCaptureStore.capture.                                        *)
(***************************************************************************)
Allocate ==
    /\ At("allocate")
    /\ Create({"object", "bytes", "entries"})
    /\ run' = [run EXCEPT !.pc = "copy", !.pass = StartPass]
    /\ UNCHANGED <<staged, object, durable>> /\ Keep

\* A pass over the stored source that must give the evidence of the copy.
Reread(label, f, after) ==
    /\ At(label) /\ f \in run.pass.todo
    /\ LET next == NextPass(run.pass, f, object)
           differs == next.phase = "done" /\ Evidence(next) # run.copied
       IN  IF Refused(run.pass, f, object) \/ differs
           THEN Raise("evidence")
           ELSE /\ run' = [run EXCEPT !.pass = next, !.todo = Files, !.pc = IF next.phase = "done" THEN after ELSE @]
                /\ UNCHANGED <<staged, object, disk, durable>> /\ Keep

\* _tree_evidence(src, destination=dst): a file read in the pass is written
\* out and fsync'ed; the walk that closes the pass syncs the directories.
CopyFile(f) ==
    /\ At("copy") /\ f \in run.pass.todo
    /\ IF Refused(run.pass, f, staged)
       THEN Raise("evidence")
       ELSE LET next == NextPass(run.pass, f, staged) IN
            /\ object' = IF run.pass.phase = "read" THEN [object EXCEPT ![f] = Written(staged[f].content)] ELSE object
            /\ run' = IF next.phase = "done"
                      THEN [run EXCEPT !.pc = "readback", !.pass = StartPass, !.copied = Evidence(next)]
                      ELSE [run EXCEPT !.pass = next]
            /\ IF next.phase = "done" THEN Flush({"bytes"}) ELSE UNCHANGED durable
            /\ UNCHANGED <<staged, disk>> /\ Keep

\* The stored source is read back and must give the same evidence.
ReadBack(f) == Reread("readback", f, "manifest")

\* _write_file(manifest.json), read back, os.fsync(obj).
WriteManifest ==
    /\ At("manifest")
    /\ Create({"manifest"}) /\ Flush({"entries", "manifest"})
    /\ Goto("seal") /\ UNCHANGED <<staged, object>> /\ Keep

\* _write_file(SEALED), read back.
WriteSeal ==
    /\ At("seal")
    /\ Create({"SEALED"}) /\ Goto("receipt")
    /\ UNCHANGED <<staged, object, durable>> /\ Keep

\* Mode 0555, os.fsync(obj), os.fsync(store); the receipt is returned.
ReturnReceipt ==
    /\ At("receipt")
    /\ Flush({"SEALED", "object"})
    /\ run' = [run EXCEPT !.pc = "verify", !.receipt = TRUE, !.state = "receipt-returned-unverified",
                          !.stage = "capture-verification", !.pass = StartPass]
    /\ UNCHANGED <<staged, object, disk>> /\ Keep

-----------------------------------------------------------------------------
\* backend.verify(receipt): the object is published, its source is the receipt's.
VerifyCapture(f) ==
    IF Published(disk, run.receipt) THEN Reread("verify", f, "retained") ELSE At("verify") /\ Raise("evidence")

\* _match_source(retained): the captured files are the tree.
MatchRetained(f) ==
    /\ At("retained") /\ f \in run.todo
    /\ IF object[f].content = "good"
       THEN /\ run' = [run EXCEPT !.todo = @ \ {f}, !.pc = IF run.todo = {f} THEN "again" ELSE @,
                                  !.state = IF run.todo = {f} THEN "verified-orphan" ELSE @]
            /\ UNCHANGED <<staged, object, disk, durable>> /\ Keep
       ELSE Raise("changed-input")

RecheckAgain ==
    /\ At("again")
    /\ IF Unchanged
       THEN /\ run' = [run EXCEPT !.pc = "proof", !.stage = "proof-publication"]
            /\ UNCHANGED <<staged, object, disk, durable>> /\ Keep
       ELSE Raise("changed-input")

\* The directory is made exclusively; only then is the identity reported.
AllocateProof ==
    /\ At("proof")
    /\ Create({"proof"})
    /\ run' = [run EXCEPT !.pc = "artifacts", !.proof = TRUE]
    /\ UNCHANGED <<staged, object, durable>> /\ Keep

\* _publish: every artifact is written, fsync'ed and read back, one by one.
PublishArtifact(name) ==
    /\ At("artifacts") /\ name \in Artifacts \ disk
    /\ Create({name})
    /\ UNCHANGED <<staged, object, durable, run>> /\ Keep

\* code/ and trees/ are closed and fsync'ed; then the proof's directory is.
CloseProof ==
    /\ At("artifacts") /\ Artifacts \subseteq disk
    /\ Flush(Artifacts) /\ Goto("complete")
    /\ UNCHANGED <<staged, object, disk>> /\ Keep

\* COMPLETE, mode 0555, fsync of the proof and of the evidence directory.
PublishComplete ==
    /\ At("complete")
    /\ \/ Create({"COMPLETE"}) /\ Flush({"COMPLETE", "proof"})
          /\ run' = [run EXCEPT !.pc = "check", !.pass = StartPass]
       \/ Create({"COMPLETE"}) /\ UNCHANGED durable
          /\ run' = [run EXCEPT !.pc = "failing", !.error = "storage"]
    /\ UNCHANGED <<staged, object>> /\ Keep

-----------------------------------------------------------------------------
(***************************************************************************)
(* verify_offline_capture, called by the producer before it returns and by *)
(* whoever holds the result afterwards.                                    *)
(***************************************************************************)
\* _read_artifacts: exactly the names of a finished proof.
ReadArtifacts == {"proof", "COMPLETE"} \cup Artifacts \subseteq disk
Replayable == ReceiptOk(run.copied) /\ ReadArtifacts /\ Published(disk, TRUE)

Check(f) ==
    IF Replayable THEN Reread("check", f, "checksource") ELSE At("check") /\ Raise("evidence")

\* _source_objects and expand_objects: the files give the tree once more.
CheckSource(f) ==
    /\ At("checksource") /\ f \in run.todo
    /\ IF object[f].content = "good"
       THEN /\ run' = [run EXCEPT !.todo = @ \ {f}, !.pc = IF run.todo = {f} THEN "return" ELSE @,
                                  !.stage = IF run.todo = {f} THEN "result" ELSE @]
            /\ UNCHANGED <<staged, object, disk, durable>> /\ Keep
       ELSE Raise("evidence")

\* The result is built; the descriptors are closed before it is returned.
ReturnResult ==
    /\ At("return")
    /\ Goto("closing")
    /\ UNCHANGED <<staged, object, disk, durable>> /\ Keep

\* Any call of the attempt may fail, and the operator may interrupt.
Working == Labels \ {"failing", "closing", "over"}
Fail(reason) ==
    /\ power /\ run.pc \in Working
    /\ Raise(reason)

Report(reason) ==
    [written |-> TRUE, stage |-> run.stage, reason |-> reason, state |-> run.state, receipt |-> run.receipt, proof |-> run.proof]
Answer(reason) == IF reason = "interrupt" THEN "interrupted" ELSE "refused"
Reason(error) == IF error = "interrupt" THEN "evidence" ELSE error

\* except BaseException: a held attempt keeps the failure record.
Retain ==
    /\ At("failing")
    /\ \/ run.attempt /\ failure' = Report(Reason(run.error))
       \/ failure' = failure
    /\ outcome' = Answer(run.error)
    /\ Goto("over")
    /\ UNCHANGED <<input, staged, object, disk, durable, replay, changes, power>>

\* finally: the stack is closed; an error here takes a result back.
Close ==
    /\ At("closing")
    /\ \/ outcome' = "result" /\ failure' = failure
       \/ outcome' = "refused" /\ failure' \in {failure, Report("storage")}
       \/ outcome' = "interrupted" /\ failure' \in {failure, Report("storage")}
    /\ Goto("over")
    /\ UNCHANGED <<input, staged, object, disk, durable, replay, changes, power>>

-----------------------------------------------------------------------------
\* The files hold, all of them now, what the receipt says.
AsReceived(dir) == \A f \in Files : dir[f].content = run.copied.inventory[f]

\* The holder of a result replays it, at any time and over any disk.
StartReplay ==
    /\ outcome = "result" /\ replay.pc = "idle"
    /\ replay' = [pc |-> IF Replayable THEN "reading" ELSE "refused", pass |-> StartPass, shown |-> AsReceived(object)]
    /\ UNCHANGED <<input, staged, object, disk, durable, run, failure, outcome, changes, power>>

Replay(f) ==
    /\ replay.pc = "reading" /\ f \in replay.pass.todo
    /\ LET next == NextPass(replay.pass, f, object)
           differs == next.phase = "done" /\ Evidence(next) # run.copied
       IN  replay' = IF Refused(replay.pass, f, object) \/ differs
                     THEN [replay EXCEPT !.pc = "refused"]
                     ELSE [replay EXCEPT !.pass = next, !.pc = IF next.phase = "done" THEN "verified" ELSE @]
    /\ UNCHANGED <<input, staged, object, disk, durable, run, failure, outcome, changes, power>>

ReplaySource ==
    /\ replay.pc = "verified"
    /\ replay' = [replay EXCEPT !.pc = IF Whole(object) /\ Replayable THEN "accepted" ELSE "refused"]
    /\ UNCHANGED <<input, staged, object, disk, durable, run, failure, outcome, changes, power>>

-----------------------------------------------------------------------------
\* Somebody with the same user id rewrites a file.
Toggle(file) == Changed(file, IF file.content = "good" THEN "other" ELSE "good")
Interfere(f) ==
    /\ changes < MaxChanges
    /\ changes' = changes + 1
    /\ \/ /\ run.pc \in Working /\ power
          /\ input[f] # Absent /\ input' = [input EXCEPT ![f] = Toggle(@)] /\ UNCHANGED <<staged, object>>
       \/ /\ run.pc \in Working /\ power
          /\ staged[f] # Absent /\ staged' = [staged EXCEPT ![f] = Toggle(@)] /\ UNCHANGED <<input, object>>
       \/ /\ object[f] # Absent /\ object' = [object EXCEPT ![f] = Toggle(@)] /\ UNCHANGED <<input, staged>>
    /\ replay' = [replay EXCEPT !.shown = (@ \/ AsReceived(object')) /\ replay.pc # "idle"]
    /\ UNCHANGED <<disk, durable, run, failure, outcome, power>>

\* Power is lost: what was not flushed may be gone, and the process is.
PowerLoss ==
    /\ power /\ power' = FALSE
    /\ \E kept \in SUBSET (disk \ durable) : disk' = durable \cup kept
    /\ durable' = disk'
    /\ UNCHANGED <<input, staged, object, run, failure, outcome, replay, changes>>

acqNext ==
    \/ Input \/ Load \/ MakeAttempt \/ Recheck \/ Allocate \/ WriteManifest \/ WriteSeal \/ ReturnReceipt
    \/ RecheckAgain \/ AllocateProof \/ CloseProof \/ PublishComplete \/ ReturnResult \/ Retain \/ Close
    \/ \E f \in Files : Materialize(f) \/ MatchStaged(f) \/ CopyFile(f) \/ ReadBack(f) \/ VerifyCapture(f)
                        \/ MatchRetained(f) \/ Check(f) \/ CheckSource(f)
    \/ \E name \in Artifacts : PublishArtifact(name)
    \/ \E reason \in {"storage", "interrupt"} : Fail(reason)
    \/ StartReplay \/ ReplaySource \/ \E f \in Files : Replay(f) \/ Interfere(f)
    \/ PowerLoss

acqSpec == acqInit /\ [][acqNext]_acqVars

-----------------------------------------------------------------------------
(***************************************************************************)
(* LocalSourceCaptureStore.verify is a snapshot: a replay that got past it *)
(* found the source at a moment when, all files together, it was what the  *)
(* receipt says, although it read them one after the other.                *)
(***************************************************************************)
AcceptedWasShown == replay.pc \in {"verified", "accepted"} => replay.shown

(***************************************************************************)
(* A result the call returned can be replayed: if nobody touched the files,*)
(* verify_offline_capture accepts it, before and after power loss.         *)
(***************************************************************************)
ResultStaysVerifiable == (outcome = "result" /\ changes = 0) => replay.pc # "refused"

(***************************************************************************)
(* failure.json tells the truth (docs/bhmea/GIT-RAW-OBJECT-CAPTURE.md: IDs *)
(* exist only if actually allocated or returned): a proof it names is      *)
(* there, a receipt it reports belongs to a sealed object, a capture not   *)
(* started left no object, and the call that wrote it returned no result.  *)
(***************************************************************************)
FailureIsTruthful ==
    failure.written /\ power =>
        /\ outcome \in {"refused", "interrupted"}
        /\ failure.proof => "proof" \in disk
        /\ failure.receipt <=> failure.state \in {"receipt-returned-unverified", "verified-orphan"}
        /\ failure.receipt => {"object", "SEALED"} \subseteq durable
        /\ failure.state = "not-started" => "object" \notin disk
        /\ "COMPLETE" \in disk => failure.proof

(***************************************************************************)
(* The markers come last: whatever power loss leaves, SEALED and COMPLETE  *)
(* are never there without everything they vouch for.                      *)
(***************************************************************************)
MarkersComeLast == \A marker \in Markers : marker \in disk => Vouched(marker) \subseteq disk

(***************************************************************************)
(* What capture_offline_objects promises: a replay reads one moment of the *)
(* files, a result can be replayed whatever power loss follows, the record *)
(* of a failure is true, and no marker is there without what it vouches    *)
(* for.                                                                    *)
(***************************************************************************)
CaptureIsWhole == AcceptedWasShown /\ ResultStaysVerifiable /\ FailureIsTruthful /\ MarkersComeLast
=============================================================================
