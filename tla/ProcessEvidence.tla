-------------------------- MODULE ProcessEvidence --------------------------
(***************************************************************************)
(* What becomes of a bounded process's record: prepare_call_result         *)
(* (tools/worker/process_evidence.py) checks the verdict again with its    *)
(* own copy of the rules, packs what was retained into content-addressed   *)
(* blobs, says of each stream in whose custody its bytes are, and checks   *)
(* the document it has made with the rules its readers use.  Any check     *)
(* that fails is an exception, and the evidence of the call is lost.       *)
(***************************************************************************)
EXTENDS BoundedProcess

CONSTANT MaxBlobs     \* the 8 blobs of one call

ASSUME BlobsAssumption == MaxBlobs \in Nat /\ MaxBlobs >= 8

VARIABLE stored       \* the answer of prepare_call_result: "none", "refused" or "stored"

evidenceVars == <<processVars, stored>>

\* What the caller read back from the spool file of a stream.
Readbacks == {"none", "same", "other"}

\* _stream_fields and _output
OutputFields(e) ==
    e.kind # "none" =>
        /\ e.known => e.retained <= e.observed /\ (e.retained = e.observed \/ e.truncated)
        /\ e.kind = "memory" => e.known

\* _outcome_fields
OutcomeFields(o) ==
    /\ IF o.started THEN o.cleanup # "not_started"
       ELSE o.returncode = Unknown /\ o.cleanup = "not_started"
    /\ o.sent <= Payload
    /\ o.cleanup = "completed" =>
          /\ o.returncode # Unknown
          /\ \A s \in Streams :
                /\ o.out[s].kind # "none" /\ o.out[s].known
                /\ o.reason = "exited" =>
                      o.sent = Payload /\ o.out[s].eof /\ ~o.out[s].truncated
    /\ \A s \in Streams : OutputFields(o.out[s])

\* _pack_output: who vouches for the bytes of a stream.
Custody(e, back) ==
    CASE e.kind = "memory" -> "verified"
      [] e.kind # "memory" /\ back = "none" -> "unavailable"
      [] e.kind # "memory" /\ back # "none" /\ ~e.known -> "diagnostic-copy"
      [] e.kind # "memory" /\ back # "none" /\ e.known ->
            IF back = "same" THEN "verified" ELSE "mismatch"

\* _stored_output, the reader's rule.
StoredOutput(e, back, state) ==
    e.kind # "none" =>
        /\ state = "unavailable" <=> e.kind = "spool" /\ back = "none"
        /\ state = "diagnostic-copy" => ~e.known
        /\ state = "verified" => e.known /\ (e.kind = "memory" \/ back = "same")
        /\ state = "mismatch" => e.known /\ back = "other"
        /\ e.kind = "memory" => state = "verified"

\* The blobs of a call, if no two have the same bytes: _Pack.add.  The invocation that ran
\* is one of its own when it is not the one that was asked for.
Blobs(o, backs, failed, same) ==
    {<<"call", "requested">>, <<"call", "result">>}
        \cup (IF same THEN {} ELSE {<<"call", "invocation">>})
        \cup (IF failed THEN {<<"call", "error graph">>} ELSE {})
        \cup {<<s, "path">> : s \in {x \in Streams : o.out[x].kind = "spool"}}
        \cup {<<s, "data">> : s \in {x \in Streams : o.out[x].kind = "memory" \/ backs[x] # "none"}}

Fits(blobs) == Cardinality(blobs) <= MaxBlobs

\* _result_fields of the document.  A call without an outcome has an error.
ResultFields(o, backs) ==
    \A s \in Streams : StoredOutput(o.out[s], backs[s], Custody(o.out[s], backs[s]))

\* prepare_call_result with the outcome and the exception that run_bounded_process left:
\* an outcome that an exception carries must be the one that is handed in.
PrepareCallResult ==
    /\ phase = "done" /\ stored = "none"
    /\ CASE verdict.answer = "lost" -> stored' = "refused"
         [] verdict.answer = "refused" -> stored' = "stored"     \* validation-refused
         [] OTHER ->
            \E backs \in [Streams -> Readbacks], same \in BOOLEAN :
              LET o == verdict.record
                  failed == verdict.answer # "returned"
              IN /\ \A s \in Streams : o.out[s].kind # "spool" => backs[s] = "none"
                 /\ stored' = IF OutcomeFields(o) /\ Fits(Blobs(o, backs, failed, same))
                                 /\ ResultFields(o, backs)
                              THEN "stored" ELSE "refused"
    /\ UNCHANGED processVars

EvidenceInit == processInit /\ stored = "none"

Run == processNext /\ UNCHANGED stored

EvidenceNext == Run \/ PrepareCallResult

EvidenceSpec == EvidenceInit /\ [][EvidenceNext]_evidenceVars
                /\ WF_evidenceVars(Controller /\ UNCHANGED stored)
                /\ WF_evidenceVars(Tick /\ UNCHANGED stored)

\* However the call ended, its record passes the second set of rules and fits the blobs of
\* one call, whatever was read back from the spool: no evidence is lost between the two
\* components, and only bytes that were read back as reported count as verified.
OutcomeIsStorable == stored # "refused"

\* What a call leaves behind: no signal went to a number that was not its own, a record
\* of a completed cleanup is true, and every record can be stored.
CallIsAccounted == KillIsOwned /\ CompletedIsClean /\ OutcomeIsStorable
=============================================================================
