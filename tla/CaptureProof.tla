---------------------------- MODULE CaptureProof ---------------------------
(***************************************************************************)
(* The proof of a capture: the documents capture_offline_objects publishes *)
(* and the replay that accepts them (src/integrations/scm/                 *)
(* source_acquisition.py, src/scripts/capture_git_source.py).              *)
(*                                                                         *)
(* A file's bytes are the value they encode: canonical JSON gives two      *)
(* values two byte strings, and a digest is the value it is a digest of.   *)
(* A tree is the sequence of its files, each [path, size, blob], paths in  *)
(* order; a commit names a tree.                                           *)
(***************************************************************************)
EXTENDS Naturals, Sequences, FiniteSets

CONSTANTS
    TreeOf(_),       \* the tree a commit names
    Before(_, _),    \* the order of paths
    CodeSize(_),     \* the size of a producer's modules
    MaxFiles, MaxBytes   \* the largest capture limits freeze_limits lets pass

Total(rows) == LET sum[i \in 0 .. Len(rows)] == IF i = 0 THEN 0 ELSE sum[i - 1] + rows[i].size IN sum[Len(rows)]

\* freeze_limits and _decode_limits: typed limits within the ceilings.
FreezeLimitsOk(limits) == limits.files <= MaxFiles /\ limits.bytes <= MaxBytes

\* _binding and _decode_binding: three identities and a well-formed commit.
BindingOk(binding) == binding.commit # "malformed"

\* GitHubRepositoryClaim.__post_init__ and _claim.
ClaimOk(claim) == claim \in {"none", "owner/repository"}

-----------------------------------------------------------------------------
(***************************************************************************)
(* The receipt of the custody store.                                       *)
(***************************************************************************)
\* LocalSourceCaptureStore._manifest: what manifest.json of the object holds.
Manifest(object, binding, limits, tree, rows, count, bytes) ==
    [object |-> object, binding |-> binding, limits |-> limits, tree |-> tree, rows |-> rows, count |-> count, bytes |-> bytes]

\* CaptureReceipt, as capture() returns it for a source.
ReceiptFor(object, binding, limits, rows) ==
    [object |-> object, binding |-> binding, limits |-> limits, tree |-> rows, rows |-> rows, inventory |-> rows,
     manifest |-> Manifest(object, binding, limits, rows, rows, Len(rows), Total(rows)),
     count |-> Len(rows), bytes |-> Total(rows)]

\* _receipt: the counts and the inventory's digest agree with the inventory.
ReceiptOk(receipt) ==
    /\ BindingOk(receipt.binding) /\ FreezeLimitsOk(receipt.limits)
    /\ receipt.count <= receipt.limits.files /\ receipt.bytes <= receipt.limits.bytes
    /\ Len(receipt.rows) = receipt.count
    /\ \A i \in 1 .. Len(receipt.rows) - 1 : Before(receipt.rows[i].path, receipt.rows[i + 1].path)
    /\ Total(receipt.rows) = receipt.bytes
    /\ receipt.inventory = receipt.rows

\* encode_receipt and decode_receipt: one document for one receipt.
EncodeReceipt(receipt) == receipt
DecodeReceiptOk(document) == ReceiptOk(document)

\* LocalSourceCaptureStore.verify: the receipt's digests agree, the object is
\* published with that manifest and that seal, and its source gives the tree.
StoreVerifies(receipt, store) ==
    LET expected == Manifest(receipt.object, receipt.binding, receipt.limits, receipt.tree, receipt.rows,
                             receipt.count, receipt.bytes)
    IN  /\ receipt.inventory = receipt.rows /\ receipt.manifest = expected
        /\ store.object = receipt.object /\ store.manifest = expected /\ store.seal = receipt.manifest
        /\ store.source = receipt.tree /\ store.source = receipt.rows
        /\ Len(store.source) = receipt.count /\ Total(store.source) = receipt.bytes

-----------------------------------------------------------------------------
(***************************************************************************)
(* The documents.                                                          *)
(***************************************************************************)
Request(binding, claim, limits) == [binding |-> binding, claim |-> claim, limits |-> limits]

\* _object_inventory: the commit, its tree and its blobs.
ObjectInventory(commit, tree) == [commit |-> commit, tree |-> tree, blobs |-> {tree[i].blob : i \in 1 .. Len(tree)}]

\* _producer and _observed_source: the interpreter and the modules' bytes.
Producer(interpreter, code) == [interpreter |-> interpreter, code |-> code]
\* _producer_valid: fixed fields, and the modules named are those retained.
ProducerValid(producer, code) == producer.interpreter # "relative" /\ producer.code = code

\* The artifacts of the proof: request, objects, receipt and producer as JSON,
\* the commit, the trees and the producer's modules.
Artifacts == {"request.json", "objects.json", "capture-receipt.json", "producer.json", "commit.object", "trees", "code"}
SizeOf(name, content) == CASE name = "code" -> CodeSize(content) [] name = "trees" -> Len(content) [] OTHER -> 1

\* _artifact: path, size and digest, for every artifact in order.
Descriptors_JsonOnly(files) ==
    [name \in Artifacts \ {"producer.json", "code"} |-> [size |-> SizeOf(name, files[name]), sha256 |-> files[name]]]
Descriptors(files) == [name \in Artifacts |-> [size |-> SizeOf(name, files[name]), sha256 |-> files[name]]]

Proof(commit, tree, receipt, id, claim, limits, descriptors) ==
    [binding |-> receipt.binding, object |-> receipt.object, id |-> id, commit |-> commit, root |-> tree, claim |-> claim,
     limits |-> limits, tree |-> receipt.tree, inventory |-> receipt.inventory, manifest |-> receipt.manifest,
     count |-> receipt.count, bytes |-> receipt.bytes, files |-> tree, artifacts |-> descriptors]

ProofSize == 1
CompleteSize == 1
SizesOf(files) ==
    SizeOf("request.json", files["request.json"]) + SizeOf("objects.json", files["objects.json"])
    + SizeOf("capture-receipt.json", files["capture-receipt.json"]) + SizeOf("producer.json", files["producer.json"])
    + SizeOf("commit.object", files["commit.object"]) + SizeOf("trees", files["trees"]) + SizeOf("code", files["code"])

ArtifactsOf(c) ==
    LET tree == TreeOf(c.binding.commit)
        receipt == ReceiptFor(c.object, c.binding, c.limits, tree)
    IN  [name \in Artifacts |->
            CASE name = "request.json" -> Request(c.binding, c.claim, c.limits)
              [] name = "objects.json" -> ObjectInventory(c.binding.commit, tree)
              [] name = "capture-receipt.json" -> EncodeReceipt(receipt)
              [] name = "producer.json" -> Producer(c.interpreter, c.code)
              [] name = "commit.object" -> c.binding.commit
              [] name = "trees" -> tree
              [] name = "code" -> c.code]

\* _publish: refuse what is larger than max_proof_bytes; the directory is the
\* artifacts, proof.json and COMPLETE with the digest of proof.json.
PublishOk(c) == SizesOf(ArtifactsOf(c)) + ProofSize + CompleteSize <= c.limits.proof
Publish(c) ==
    LET tree == TreeOf(c.binding.commit)
        receipt == ReceiptFor(c.object, c.binding, c.limits, tree)
        proof == Proof(c.binding.commit, tree, receipt, c.id, c.claim, c.limits, Descriptors(ArtifactsOf(c)))
    IN  [files |-> ArtifactsOf(c), proof |-> proof, complete |-> proof]

-----------------------------------------------------------------------------
(***************************************************************************)
(* verify_offline_capture.                                                 *)
(***************************************************************************)
\* _read_artifacts: what is read, with what was read before, fits the limit.
ReadArtifactsOk(directory, limits) == ProofSize + CompleteSize + SizesOf(directory.files) <= limits.proof

\* _source_objects: the blobs, files and directories of the stored source.
SourceBlobs(source) == {source[i].blob : i \in 1 .. Len(source)}

\* expand_objects over the retained commit and trees and the stored blobs.
ExpandOk(commit, files, blobs) ==
    /\ files["commit.object"] = commit
    /\ files["trees"] = TreeOf(commit)
    /\ blobs = SourceBlobs(files["trees"])

VerifyOfflineCapture(directory, store, receipt, id, digest) ==
    LET proof == directory.proof
        files == directory.files
        tree == files["trees"]
    IN  /\ ReceiptOk(receipt)
        /\ proof = digest /\ directory.complete = digest
        /\ FreezeLimitsOk(proof.limits) /\ proof.limits = receipt.limits
        /\ ClaimOk(proof.claim)
        /\ ReadArtifactsOk(directory, proof.limits)
        /\ files["request.json"] = Request(receipt.binding, proof.claim, proof.limits)
        /\ files["capture-receipt.json"] = EncodeReceipt(receipt)
        /\ ProducerValid(files["producer.json"], files["code"])
        /\ StoreVerifies(receipt, store)
        /\ ExpandOk(receipt.binding.commit, files, SourceBlobs(store.source))
        /\ store.source = tree
        /\ files["objects.json"] = ObjectInventory(receipt.binding.commit, tree)
        /\ proof = Proof(receipt.binding.commit, tree, receipt, id, proof.claim, proof.limits, Descriptors(files))

\* result_document, with the caller's entry point put in by the command line.
ResultDocument(receipt, id, digest) == [receipt |-> receipt, id |-> id, digest |-> digest]

\* scripts/capture_git_source.py main, verify-capture: the expected receipt is
\* read from a file; exit 0 with the document, 2 for invalid input, else 1.
Main(directory, store, receipt, id, digest) ==
    IF ~DecodeReceiptOk(receipt) THEN [status |-> 2, document |-> <<>>]
    ELSE IF VerifyOfflineCapture(directory, store, receipt, id, digest)
    THEN [status |-> 0, document |-> <<ResultDocument(receipt, id, digest)>>]
    ELSE [status |-> 1, document |-> <<>>]

-----------------------------------------------------------------------------
StoreOf(c) ==
    LET receipt == ReceiptFor(c.object, c.binding, c.limits, TreeOf(c.binding.commit))
    IN  [object |-> c.object, manifest |-> receipt.manifest, seal |-> receipt.manifest, source |-> receipt.tree]

(***************************************************************************)
(* A replay binds everything.  The proof of a capture that was published   *)
(* within its limits is accepted on the store it was made for; and when a  *)
(* directory whose files come from two captures is accepted for the digest *)
(* and the receipt of one of them, no file of it differs from that one's,  *)
(* those the proof only describes by digest (the producer's modules)       *)
(* included, and neither does the stored source.                           *)
(***************************************************************************)
ReplayBindsEverything(c, other, taken, foreign) ==
    LET mine == Publish(c)
        files == [name \in Artifacts |-> IF name \in taken THEN ArtifactsOf(other)[name] ELSE mine.files[name]]
        directory == [mine EXCEPT !.files = files]
        store == IF foreign THEN [StoreOf(c) EXCEPT !.source = StoreOf(other).source] ELSE StoreOf(c)
        receipt == ReceiptFor(c.object, c.binding, c.limits, TreeOf(c.binding.commit))
        answer == Main(directory, store, receipt, c.id, mine.proof)
        inOrder == PublishOk(c) /\ ReceiptOk(receipt) /\ ClaimOk(c.claim) /\ c.interpreter # "relative"
    IN  /\ (inOrder /\ taken = {} /\ ~foreign) => answer.status = 0
        /\ answer.status = 0 => files = mine.files /\ store = StoreOf(c)
=============================================================================
