--------------------------- MODULE SnapshotRecords ---------------------------
(***************************************************************************)
(* What a snapshot records: the closed-world verdict on its source tree    *)
(* (cw_detect.py), the keys of its artifacts in the object store           *)
(* (object_store.py) and the row written when its worker completes         *)
(* (service.py).                                                           *)
(*                                                                         *)
(* A key, and each of the components it is made of, is a sequence of       *)
(* tokens, "/" among them.  Put and completion yield the new store and     *)
(* whether they raised.                                                    *)
(***************************************************************************)
EXTENDS Integers, Sequences, FiniteSets, SequencesExt

-----------------------------------------------------------------------------
(* Closed-world detection.  A file has a language, or is "inert" or        *)
(* "other"; lines holds the kinds of construct that a line matches.        *)

SUPPORTED_LANGUAGES == {"java", "python", "ruby", "php", "js", "ts", "go"}
LangPatterns(lang) ==
    CASE lang = "java" -> <<"java-class-forname", "java-method-invoke", "java-proxy-newproxy", "java-spring-dynamic-proxy">>
      [] lang = "python" -> <<"python-import-dunder", "python-getattr", "python-eval-exec">>
      [] lang = "ruby" -> <<"ruby-send", "ruby-method-missing", "ruby-define-method">>
      [] lang = "php" -> <<"php-variable-function", "php-call-user-func">>
      [] lang \in {"js", "ts"} -> <<"js-require-dynamic", "js-function-constructor", "js-eval">>
      [] lang = "go" -> <<"go-reflect-call">>

Site(file, line, kind) == [file |-> file, line |-> line, kind |-> kind]
Uncertain(file) == <<Site(file, 0, "structural-uncertainty")>>

ScanLine(file, lang, line, found) ==
    LET hits == SelectSeq(LangPatterns(lang), LAMBDA kind : kind \in found)
    IN  [k \in DOMAIN hits |-> Site(file, line, hits[k])]
ScanText(file, lang, lines) == FlattenSeq([n \in DOMAIN lines |-> ScanLine(file, lang, n, lines[n])])

\* breaks: the sub-detector raises on the text.
SitesOf(file) ==
    IF file.lang \notin SUPPORTED_LANGUAGES THEN IF file.lang = "inert" THEN <<>> ELSE Uncertain(file.name)
    ELSE IF ~file.readable \/ file.breaks THEN Uncertain(file.name)
    ELSE ScanText(file.name, file.lang, file.lines)

\* cached: the sites of the parent snapshot, carried forward.
Detect(req) ==
    LET mix == FlattenSeq([k \in DOMAIN req.language_mix |->
                   IF req.language_mix[k] \in SUPPORTED_LANGUAGES THEN <<>> ELSE Uncertain(req.language_mix[k])])
        scanned == IF req.exists THEN FlattenSeq([k \in DOMAIN req.files |-> SitesOf(req.files[k])]) ELSE Uncertain("root")
        sites == mix \o scanned \o req.cached
    IN  [verdict |-> IF sites = <<>> THEN "closed-world" ELSE "degraded", sites |-> sites,
         confidence |-> IF \E k \in DOMAIN (mix \o scanned) : (mix \o scanned)[k].kind = "structural-uncertainty"
                        THEN "uncertain" ELSE "high"]

MeasureRoutingRate(requests) ==
    [total |-> Len(requests), routed |-> Len(SelectSeq(requests, LAMBDA req : Detect(req).verdict # "closed-world"))]

-----------------------------------------------------------------------------
(* Artifact keys and the store.                                            *)

SNAPSHOT_ARTIFACT_TYPES == <<"cpg_tarball", "reverse_symbol_index", "dynamic_call_graph", "delta_graph", "precondition_status">>
Slash == <<"/">>
Traversal == {"..", "%2e", "%5c", "backslash", "NUL"}

ValidateComponent(value) == value # <<>> /\ ToSet(value) \cap (Traversal \cup {"/", "%2f"}) = {}

KeyBuilderOk(b) == \A c \in {b.org, b.codebase, b.commit, b.env} : ValidateComponent(c)
KeyPrefix(b) ==
    <<"orgs", "/">> \o b.org \o <<"/", "codebases", "/">> \o b.codebase \o <<"/", "snapshots", "/">> \o b.commit \o Slash \o b.env \o Slash
ArtifactKey(b, type) == KeyPrefix(b) \o <<type>>

GuardKey(org, key) ==
    /\ ValidateComponent(org)
    /\ ToSet(key) \cap Traversal = {}
    /\ IsPrefix(<<"orgs", "/">> \o org \o Slash, key)

StorePut(objects, key, body) == [k \in DOMAIN objects \cup {key} |-> IF k = key THEN body ELSE objects[k]]
Put(objects, org, key, body) ==
    IF GuardKey(org, key) THEN [raised |-> FALSE, objects |-> StorePut(objects, key, body)] ELSE [raised |-> TRUE, objects |-> objects]
Get(objects, org, key) ==
    IF GuardKey(org, key) /\ key \in DOMAIN objects THEN [raised |-> FALSE, body |-> objects[key]] ELSE [raised |-> TRUE, body |-> "none"]

-----------------------------------------------------------------------------
(* Creation and completion of a snapshot.  An environment digest is "none" *)
(* or "malformed" or a pinned one.                                         *)

EnvDigestOk(digest) == digest \notin {<<"none">>, <<"malformed">>}
PRECONDITIONS == {"closed-world", "degraded", "full-reparse"}

\* The explicit image digest, or else the provider's.
ResolveEnvDigest(explicit, provided) == IF explicit # <<"none">> THEN explicit ELSE provided

Mandatory == SelectSeq(SNAPSHOT_ARTIFACT_TYPES, LAMBDA type : type # "delta_graph")

\* The artifacts that are stored: those before the first mandatory one that has no body.
Uploaded(bodies) ==
    LET missing == {k \in DOMAIN Mandatory : bodies[Mandatory[k]] = "none"}
    IN  IF missing = {} THEN Mandatory ELSE SubSeq(Mandatory, 1, (CHOOSE k \in missing : \A j \in missing : k <= j) - 1)

DeltaUri(b, bodies) == IF bodies["delta_graph"] = "none" THEN <<>> ELSE ArtifactKey(b, "delta_graph")

\* b: the components of the keys; bodies: what the worker produced, "none" where it produced nothing.
RecordCompletion(db, id, b, status, bodies) ==
    LET complete == Uploaded(bodies) = Mandatory
        stored == ToSet(Uploaded(bodies)) \cup IF complete /\ bodies["delta_graph"] # "none" THEN {"delta_graph"} ELSE {}
        objects == FoldSet(LAMBDA type, o : Put(o, b.org, ArtifactKey(b, type), bodies[type]).objects, db.objects, stored)
        row == [id |-> id, org |-> b.org, status |-> status, delta |-> DeltaUri(b, bodies),
                uris |-> {ArtifactKey(b, Mandatory[k]) : k \in DOMAIN Mandatory}]
    IN  IF ~EnvDigestOk(b.env) \/ status \notin PRECONDITIONS THEN [db EXCEPT !.raised = @ \cup {id}]
        ELSE IF ~complete THEN [db EXCEPT !.objects = objects, !.raised = @ \cup {id}]
        ELSE [db EXCEPT !.objects = objects, !.rows = {r \in @ : r.id # id} \cup {row}]

-----------------------------------------------------------------------------
(* Properties.                                                             *)

\* A closed-world verdict is earned: every file of an existing tree is inert or was read and scanned in a
\* supported language without a hit, no unsupported language was declared and the parent carried no site.
\* Carrying more sites forward never restores it, and the routing rate counts exactly the other verdicts.
ClosedWorldIsProven(req) ==
    LET closed == Detect(req).verdict = "closed-world"
        Clean(f) == \/ f.lang = "inert"
                    \/ /\ f.lang \in SUPPORTED_LANGUAGES /\ f.readable /\ ~f.breaks
                       /\ \A n \in DOMAIN f.lines : f.lines[n] \cap ToSet(LangPatterns(f.lang)) = {}
    IN  /\ closed <=> /\ req.exists /\ req.cached = <<>>
                      /\ ToSet(req.language_mix) \subseteq SUPPORTED_LANGUAGES
                      /\ \A k \in DOMAIN req.files : Clean(req.files[k])
        /\ Detect(req).confidence = "uncertain" => ~closed
        /\ LET more == [req EXCEPT !.cached = <<Site("f", 1, "java-class-forname")>> \o @]
           IN  Detect(more).verdict = "degraded" /\ MeasureRoutingRate(<<req, more>>).routed = IF closed THEN 1 ELSE 2

\* Two builders mint the same key only for the same artifact of the same components, and the store admits a
\* minted key for its own organisation and no other.
KeysAreScoped(b, c) ==
    (KeyBuilderOk(b) /\ KeyBuilderOk(c)) =>
        /\ \A t, u \in ToSet(SNAPSHOT_ARTIFACT_TYPES) : ArtifactKey(b, t) = ArtifactKey(c, u) => b = c /\ t = u
        /\ \A t \in ToSet(SNAPSHOT_ARTIFACT_TYPES) : GuardKey(c.org, ArtifactKey(b, t)) <=> c.org = b.org

\* calls: completions in their order.  A row names stored objects only, all of them readable by the row's
\* organisation, whatever completion failed before or after it and whether or not it shares its keys.
RowIsBacked(calls) ==
    LET db[n \in 0 .. Len(calls)] ==
            IF n = 0 THEN [objects |-> <<>>, rows |-> {}, raised |-> {}]
            ELSE RecordCompletion(db[n - 1], n, [calls[n].b EXCEPT !.env = ResolveEnvDigest(@, calls[n].provided)],
                                  calls[n].status, calls[n].bodies)
    IN  \A n \in 0 .. Len(calls) : \A row \in db[n].rows :
            /\ row.id \notin db[n].raised
            /\ \A uri \in row.uris \cup ({row.delta} \ {<<>>}) : ~Get(db[n].objects, row.org, uri).raised
=============================================================================
