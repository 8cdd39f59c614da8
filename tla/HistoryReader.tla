--------------------------- MODULE HistoryReader ---------------------------
(***************************************************************************)
(* The one-shot reader of an attempt's visible history                     *)
(* (src/tools/worker/runtime_evidence.py, from VisibleAttemptHistory on).  *)
(* It takes no lock: it lists the directories, reads every file, replays   *)
(* the journal, and looks at everything once more before it answers, while *)
(* a publisher may add publications and files may be replaced.             *)
(*                                                                         *)
(* A publication has a directory of its own kind and an intent in staging/.*)
(* Its files are known by the version of their bytes; every change of a    *)
(* file or of a directory's entries changes a stamp.                       *)
(***************************************************************************)
EXTENDS Naturals, FiniteSets

CONSTANTS
    Pubs,        \* the publications of the attempt
    kindOf,      \* "manifest", "event" or "blob"
    orderOf,     \* the order of the names: events are numbered from 1
    First,       \* those complete when the reader comes
    MaxReplaced, \* how many files are replaced
    OsLimit,     \* os_calls: what one reader may spend
    CleanupReserve, \* kept back for closing (128)
    MaxRaised    \* how many exceptions one call meets

VARIABLES
    reached,     \* of each publication: 0 absent, 1 intent, 2 staged data, 3 linked, 4 complete
    version,   \* of each final file
    stamp,     \* of each directory's entries
    held,      \* the histories the directory has shown since the reader came
    reader,    \* the locals of the call
    slots,     \* _HistoryFiles.slots, and how often each was closed
    calls,     \* work.os_calls
    faults

histVars == <<reached, version, stamp, held, reader, slots, calls, faults>>

Directories == {"attempt", "events", "blobs", "staging"}

\* The reserve covers two attempts to close every directory.
ASSUME HistoryAssumption ==
    /\ IsFiniteSet(Pubs) /\ kindOf \in [Pubs -> {"manifest", "event", "blob"}]
    /\ OsLimit \in Nat /\ CleanupReserve \in Nat /\ CleanupReserve >= 2 * Cardinality(Directories)

Home(p) == CASE kindOf[p] = "manifest" -> "attempt" [] kindOf[p] = "event" -> "events" [] kindOf[p] = "blob" -> "blobs"

\* The entries of a directory, and which of them have a name the reader knows.
Finals == {p \in Pubs : reached[p] >= 3}
Intents == {p \in Pubs : reached[p] >= 1}
Staged == {p \in Pubs : reached[p] \in {2, 3}}
Of(kind, pubs) == {p \in pubs : kindOf[p] = kind}

Shown == [finals |-> Finals, intents |-> Intents, versions |-> [p \in Pubs |-> IF p \in Finals THEN version[p] ELSE 0]]

NoVersions == [p \in Pubs |-> 0]
Unread == [pc |-> "idle", next |-> 1, listed |-> [d \in Directories |-> {}], todo |-> {}, versions |-> NoVersions,
         stamps |-> [d \in Directories |-> 0], answered |-> FALSE, error |-> FALSE]

histInit ==
    /\ reached = [p \in Pubs |-> IF p \in First THEN 4 ELSE 0]
    /\ version = NoVersions
    /\ stamp = [d \in Directories |-> 0]
    /\ held = {} /\ reader = Unread
    /\ slots = [i \in Directories |-> [state |-> "free", closes |-> 0]]
    /\ calls = 0 /\ faults = 0

Seen == IF reader.pc = "idle" THEN held' = {} ELSE held' = held \cup {Shown'}

-----------------------------------------------------------------------------
(***************************************************************************)
(* The publisher, and whoever replaces files.                              *)
(***************************************************************************)
\* What changes once the answer stands cannot matter to it.
Reading == reader.pc \notin {"finish", "closing", "over"}

Publish(p) ==
    /\ reached[p] < 4 /\ Reading
    /\ reached' = [reached EXCEPT ![p] = @ + 1]
    /\ stamp' = [d \in Directories |->
                    IF (d = "staging" /\ reached[p] # 2) \/ (d = Home(p) /\ reached[p] = 2) THEN stamp[d] + 1 ELSE stamp[d]]
    /\ UNCHANGED <<version, reader, slots, calls, faults>> /\ Seen

Replace(p) ==
    /\ reached[p] = 4 /\ version[p] = 0 /\ Reading
    /\ Cardinality({q \in Pubs : version[q] = 1}) < MaxReplaced
    /\ version' = [version EXCEPT ![p] = @ + 1]
    /\ stamp' = [stamp EXCEPT ![Home(p)] = @ + 1]
    /\ UNCHANGED <<reached, reader, slots, calls, faults>> /\ Seen

-----------------------------------------------------------------------------
(***************************************************************************)
(* The budget.  A call that is no cleanup is refused while it would eat    *)
(* into what the final look and the closing of the descriptors need.       *)
(***************************************************************************)
\* geometry: the last look costs two calls per directory and one per leaf.
Rows == (UNION {reader.listed[d] : d \in Directories \ {"staging"}}) \X {"final"} \cup reader.listed["staging"] \X {"intent"}
FinalRemaining == 2 * Cardinality(Directories) + Cardinality(Rows)
Affordable(cost) == calls + cost + FinalRemaining + CleanupReserve <= OsLimit
Charge(cost) == calls' = calls + cost

Refuse ==
    /\ reader' = [reader EXCEPT !.pc = "finish", !.error = TRUE]
    /\ faults' = faults + 1
    /\ UNCHANGED <<reached, version, stamp, held, slots>>

-----------------------------------------------------------------------------
\* read_diagnostic_attempt_history: the work begins.
Begin ==
    /\ reader.pc = "idle"
    /\ reader' = [Unread EXCEPT !.pc = "opening"]
    /\ held' = {Shown}
    /\ UNCHANGED <<reached, version, stamp, slots, calls, faults>>

Number(d) == CASE d = "attempt" -> 1 [] d = "events" -> 2 [] d = "blobs" -> 3 [] d = "staging" -> 4

\* _HistoryRead.directory: open a directory, stat it twice, keep its stamp.
OpenDirectory(d) ==
    /\ reader.pc = "opening" /\ reader.next = Number(d)
    /\ IF ~Affordable(1) THEN Refuse /\ UNCHANGED calls
       ELSE /\ Charge(1)
            /\ slots' = [slots EXCEPT ![d].state = "open"]
            /\ reader' = [reader EXCEPT !.stamps[d] = stamp[d],
                             !.next = IF d = "staging" THEN 1 ELSE @ + 1, !.pc = IF d = "staging" THEN "listing" ELSE @]
            /\ UNCHANGED <<reached, version, stamp, held, faults>>

\* _history_name: only *.json in staging/, so staged data is an unsafe path.
NamesOk(d) == d = "staging" => Staged = {}
Listing(d) == IF d = "staging" THEN Intents ELSE {p \in Finals : Home(p) = d}

\* events/ holds 000001.json, 000002.json, ... without a gap, and at least one.
Contiguous(events) == events # {} /\ {orderOf[p] : p \in events} = 1 .. Cardinality(events)

\* _HistoryRead.open: list attempt, events/, blobs/ and staging/, in this order.
ListDirectory(d) ==
    /\ reader.pc = "listing" /\ reader.next = Number(d)
    /\ LET listed == [reader.listed EXCEPT ![d] = Listing(d)]
           finals == UNION {listed[e] : e \in Directories \ {"staging"}}
       IN  IF \/ ~Affordable(1) \/ ~NamesOk(d)
              \/ d = "attempt" /\ Listing(d) = {}
              \/ d = "events" /\ ~Contiguous(Listing(d))
              \/ d = "staging" /\ Cardinality(Listing(d)) # Cardinality(finals)
           THEN Refuse /\ UNCHANGED calls
           ELSE /\ Charge(1)
                /\ reader' = [reader EXCEPT !.listed = listed, !.next = @ + 1,
                                 !.pc = IF d = "staging" THEN "reading" ELSE @,
                                 !.todo = IF d = "staging" THEN finals \X {"final"} \cup listed["staging"] \X {"intent"} ELSE @]
                /\ UNCHANGED <<reached, version, stamp, held, slots, faults>>

\* manifest, events, blobs and registrations, then the intents; by name.
ReadOrder(file) == orderOf[file[1]] + IF file[2] = "intent" THEN Cardinality(Pubs) ELSE 0

\* _HistoryRead.read: open, stat, read to the end, stat again, close.
ReadRow(file) ==
    /\ reader.pc = "reading" /\ file \in reader.todo
    /\ \A other \in reader.todo : ReadOrder(file) <= ReadOrder(other)
    /\ IF ~Affordable(1) THEN Refuse /\ UNCHANGED calls
       ELSE /\ Charge(1)
            /\ reader' = [reader EXCEPT !.todo = @ \ {file},
                             !.versions = IF file[2] = "final" THEN [@ EXCEPT ![file[1]] = version[file[1]]] ELSE @,
                             !.pc = IF reader.todo = {file} THEN "verifying" ELSE @]
            /\ UNCHANGED <<reached, version, stamp, held, slots, faults>>

\* _HistoryRead.verify: every intent explains one row, every row has one, and
\* the bytes are those the intent was written for; replay_journal accepts.
Explained == reader.listed["staging"] = UNION {reader.listed[d] : d \in Directories \ {"staging"}}
Verify ==
    /\ reader.pc = "verifying"
    /\ UNCHANGED calls
    /\ IF Explained
       THEN /\ reader' = [reader EXCEPT !.pc = "finalizing"]
            /\ UNCHANGED <<reached, version, stamp, held, slots, faults>>
       ELSE Refuse

\* finalize: the same names, the same stamp of every file and directory.
Stable ==
    /\ \A d \in Directories : NamesOk(d) /\ Listing(d) = reader.listed[d] /\ stamp[d] = reader.stamps[d]
    /\ \A d \in Directories \ {"staging"} : \A p \in reader.listed[d] : version[p] = reader.versions[p]
Finalize ==
    /\ reader.pc = "finalizing"
    /\ IF ~Affordable(0) THEN Refuse /\ UNCHANGED calls
       ELSE /\ Charge(FinalRemaining)
            /\ IF Stable
               THEN /\ reader' = [reader EXCEPT !.pc = "finish", !.answered = TRUE]
                    /\ UNCHANGED <<reached, version, stamp, held, slots, faults>>
               ELSE Refuse

\* Any call may raise, and so may an interruption.
CallRaises ==
    /\ faults < MaxRaised
    /\ reader.pc \in {"opening", "listing", "reading", "verifying", "finalizing"}
    /\ Refuse /\ UNCHANGED calls

-----------------------------------------------------------------------------
(***************************************************************************)
(* _HistoryFiles.finish: every slot is tried once per finish.  An          *)
(* interruption before os.close is entered puts the descriptor back; once  *)
(* entered, the number is never closed again.  A finish that raised after  *)
(* a good answer is followed by a second one, from the except clause.      *)
(***************************************************************************)
Tried == {file[1] : file \in {x \in reader.todo : x[2] = "tried"}}
Unfinished == {i \in Directories : slots[i].state = "open"} \ Tried
ToFinish == {i \in Unfinished : \A j \in Unfinished : Number(i) <= Number(j)}

StartFinish ==
    /\ reader.pc = "finish"
    /\ reader' = [reader EXCEPT !.pc = "closing", !.todo = {}]
    /\ UNCHANGED <<reached, version, stamp, held, slots, calls, faults>>

CloseSlot_Kept(i) ==
    /\ reader.pc = "closing" /\ i \in ToFinish
    /\ Charge(1)
    /\ slots' = [slots EXCEPT ![i].closes = @ + 1]
    /\ reader' = [reader EXCEPT !.todo = @ \cup {<<i, "tried">>}]
    /\ UNCHANGED <<reached, version, stamp, held, faults>>
CloseSlot(i) ==
    /\ reader.pc = "closing" /\ i \in ToFinish
    /\ Charge(1)
    /\ slots' = [slots EXCEPT ![i] = [state |-> "closed", closes |-> @.closes + 1]]
    /\ reader' = [reader EXCEPT !.todo = @ \cup {<<i, "tried">>}]
    /\ UNCHANGED <<reached, version, stamp, held, faults>>

InterruptClose(i) ==
    /\ reader.pc = "closing" /\ i \in ToFinish
    /\ faults < MaxRaised /\ faults' = faults + 1
    /\ Charge(1)
    /\ \/ slots' = slots
       \/ slots' = [slots EXCEPT ![i] = [state |-> "closed", closes |-> @.closes + 1]]
    /\ reader' = [reader EXCEPT !.todo = @ \cup {<<i, "tried">>}, !.error = TRUE]
    /\ UNCHANGED <<reached, version, stamp, held>>

\* The first finish of a good answer that met an error is run again.
Finished ==
    /\ reader.pc = "closing" /\ Unfinished = {}
    /\ reader' = IF reader.answered /\ reader.error
                 THEN [reader EXCEPT !.pc = "finish", !.answered = FALSE]
                 ELSE [reader EXCEPT !.pc = "over"]
    /\ UNCHANGED <<reached, version, stamp, held, slots, calls, faults>>

histNext ==
    \/ Begin \/ Verify \/ Finalize \/ CallRaises \/ StartFinish \/ Finished
    \/ \E p \in Pubs : Publish(p) \/ Replace(p)
    \/ \E i \in Directories : CloseSlot(i) \/ InterruptClose(i)
    \/ \E d \in Directories : OpenDirectory(d) \/ ListDirectory(d)
    \/ \E file \in Pubs \X {"final", "intent"} : ReadRow(file)

histSpec == histInit /\ [][histNext]_histVars

-----------------------------------------------------------------------------
Read ==
    LET finals == UNION {reader.listed[d] : d \in Directories \ {"staging"}}
    IN  [finals |-> finals, intents |-> reader.listed["staging"],
         versions |-> [p \in Pubs |-> IF p \in finals THEN reader.versions[p] ELSE 0]]

(***************************************************************************)
(* "One stable diagnostic visible prefix": the history an answer is about  *)
(* - which publications, which intents, which bytes - is one the attempt's *)
(* directory showed, all of it at once, while the reader was at work.      *)
(***************************************************************************)
AnswerWasShown == (reader.pc = "over" /\ reader.answered) => Read \in held

(***************************************************************************)
(* Whatever one exception the call meets, it ends with every descriptor    *)
(* released; and no descriptor number is ever closed twice.                *)
(***************************************************************************)
DescriptorsClosedOnce ==
    /\ \A i \in Directories : slots[i].closes <= 1
    /\ (reader.pc = "over" /\ faults <= 1) => \A i \in Directories : slots[i].state # "open"

(***************************************************************************)
(* The calls that close what was opened always fit: an earlier call was    *)
(* refused before it could spend what they need.                           *)
(***************************************************************************)
CleanupIsAffordable == calls <= OsLimit

(***************************************************************************)
(* What read_diagnostic_attempt_history owes its caller: an answer that    *)
(* was true at one moment, every descriptor closed, none closed twice, and *)
(* the budget of calls kept.                                               *)
(***************************************************************************)
HistoryWasShown == AnswerWasShown /\ DescriptorsClosedOnce /\ CleanupIsAffordable
=============================================================================
