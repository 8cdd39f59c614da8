---------------------------- MODULE AttemptProofs ----------------------------
(***************************************************************************)
(* Proofs about what an attempt leaves behind: the journal of its runtime, *)
(* for every set of operations, every number of call slots and samples and *)
(* every set of boots; and the source tree it captured, for every set of   *)
(* files and any number of changes.                                        *)
(***************************************************************************)
EXTENDS RuntimeJournal, SourceAcquisition, TLAPS

\* Zenon proves what has no arithmetic; a step that needs SMT cites it.
USE Zenon

----------------------------------------------------------------------------
(* The inductive invariant.                                                *)

\* Calls are numbered without gaps, and only issued calls have results.
Numbering ==
    \A i \in Slots :
        /\ Issued(i) <=> i <= issued
        /\ ~Issued(i) => res[i] = "pending"

\* Outside recovery and cleanup every call is an ordinary one.
Ordinary == ~Assisting /\ phase \notin Final => issued = ordinary

\* The recovery flag covers every reboot and every orphaning.
Tainted ==
    /\ "recovery" \notin flags => boot = OriginBoot
    /\ "orphaned" \in flags => "recovery" \in flags
    /\ phase = "orphaned" => "orphaned" \in flags

\* What is known once a create was intended and the cleanup was complete.
Cleaned ==
    "cleanup" \in marks =>
        /\ phase \in Final \cup {"cleanup", "orphaned"}
        /\ CreateIssued => container = "known" /\ HealthyCall("container-inspect-id")

\* The one create and the one start, and what they presuppose.
Launched ==
    /\ AtMostOneContainer
    /\ phase \in {"created", "start-intended", "started", "observed",
                  "release-intended", "released", "domain-exited"} =>
          HealthyCall("container-create")
    /\ startId # 0 => startId <= issued /\ op[startId] = "container-start-attached"
                      /\ container = "known"

\* The marks the phases leave behind.
Marked ==
    /\ phase \in {"start-intended", "started", "observed", "release-intended",
                  "released", "domain-exited"} => startId # 0
    /\ phase \in {"started", "observed", "release-intended", "released",
                  "domain-exited"} => "started" \in marks
    /\ phase \in {"observed", "release-intended", "released", "domain-exited"} =>
          "observed" \in marks
    /\ phase \in {"release-intended", "released", "domain-exited"} =>
          "release-intent" \in marks
    /\ domain # "none" =>
          startId # 0 /\ {"started", "observed", "release-intent"} \subseteq marks

IInv ==
    /\ TypeOK /\ Numbering /\ Ordinary /\ Tainted /\ Cleaned /\ Launched /\ Marked
    /\ AdmittedHistory /\ NoAbandonedContainer

----------------------------------------------------------------------------
(* The steps preserve it.                                                  *)

\* Types are preserved; the slot and the sample counters stay within their limits.
LEMMA TypeStep == IInv /\ [Next]_vars => TypeOK'
  <1> SUFFICES ASSUME IInv, [Next]_vars PROVE TypeOK'
    OBVIOUS
  <1> USE RuntimeJournalAssumption DEF IInv, TypeOK, Envelope, callVars,
        spoolVars, Slots, Issued, Healthy, MayOverrun, Phases, Final
  <1>1. ASSUME NEW o \in Ops, CallIntent(o)
        PROVE  TypeOK'
    BY <1>1, SMT DEF CallIntent, OrdinaryCall, RecoveryOps, Ops
  <1>2. ASSUME NEW i \in Slots, CallResult(i)
        PROVE  TypeOK'
    BY <1>2, SMT DEF CallResult
  <1>3. ASSUME NEW i \in Slots, SpoolRegistered(i)
        PROVE  TypeOK'
    BY <1>3, SMT DEF SpoolRegistered
  <1>4. ASSUME NEW i \in Slots, NEW s \in Streams, SpoolCollected(i, s)
        PROVE  TypeOK'
    BY <1>4, SMT DEF SpoolCollected
  <1>5. CASE Loaded
    BY <1>5 DEF Loaded
  <1>6. CASE Created
    BY <1>6 DEF Created
  <1>7. CASE Started
    BY <1>7 DEF Started
  <1>8. CASE Observed
    BY <1>8, SMT DEF Observed
  <1>9. CASE ReleaseIntent
    BY <1>9 DEF ReleaseIntent
  <1>10. CASE Released
    BY <1>10 DEF Released
  <1>11. ASSUME NEW v \in {"valid", "rejected", "invalid"}, DomainExited(v)
        PROVE  TypeOK'
    BY <1>11 DEF DomainExited
  <1>12. CASE CleanupIncomplete
    BY <1>12 DEF CleanupIncomplete
  <1>13. CASE CleanupComplete
    BY <1>13 DEF CleanupComplete
  <1>14. CASE Admitted
    BY <1>14 DEF Admitted
  <1>15. CASE Failed
    BY <1>15 DEF Failed
  <1>16. CASE Orphaned
    BY <1>16 DEF Orphaned
  <1>17. CASE Reconciled
    BY <1>17 DEF Reconciled
  <1>18. CASE RecoveryEntered
    BY <1>18 DEF RecoveryEntered
  <1>19. CASE UNCHANGED vars
    BY <1>19, SMT DEF vars
  <1> HIDE DEF IInv, TypeOK, Envelope, callVars, spoolVars, Slots, Issued,
        Healthy, MayOverrun, Phases, Final
  <1> QED
    BY <1>1, <1>2, <1>3, <1>4, <1>5, <1>6, <1>7, <1>8, <1>9, <1>10, <1>11,
        <1>12, <1>13, <1>14, <1>15, <1>16, <1>17, <1>18, <1>19 DEF Next

\* An intent takes the next slot, and a result goes to an issued call.
LEMMA NumberingStep == IInv /\ [Next]_vars => Numbering'
  <1> SUFFICES ASSUME IInv, [Next]_vars PROVE Numbering'
    OBVIOUS
  <1> USE RuntimeJournalAssumption DEF IInv, TypeOK, Envelope, callVars,
        spoolVars, Slots, Issued, Healthy, Numbering
  <1>1. ASSUME NEW o \in Ops, CallIntent(o)
        PROVE  Numbering'
    BY <1>1, SMT DEF CallIntent, Ops, RecoveryOps
  <1>2. ASSUME NEW i \in Slots, CallResult(i)
        PROVE  Numbering'
    BY <1>2, SMT DEF CallResult
  <1>3. ASSUME NEW i \in Slots, SpoolRegistered(i)
        PROVE  Numbering'
    BY <1>3 DEF SpoolRegistered
  <1>4. ASSUME NEW i \in Slots, NEW s \in Streams, SpoolCollected(i, s)
        PROVE  Numbering'
    BY <1>4 DEF SpoolCollected
  <1>5. CASE Loaded
    BY <1>5 DEF Loaded
  <1>6. CASE Created
    BY <1>6 DEF Created
  <1>7. CASE Started
    BY <1>7 DEF Started
  <1>8. CASE Observed
    BY <1>8 DEF Observed
  <1>9. CASE ReleaseIntent
    BY <1>9 DEF ReleaseIntent
  <1>10. CASE Released
    BY <1>10 DEF Released
  <1>11. ASSUME NEW v \in {"valid", "rejected", "invalid"}, DomainExited(v)
        PROVE  Numbering'
    BY <1>11 DEF DomainExited
  <1>12. CASE CleanupIncomplete
    BY <1>12 DEF CleanupIncomplete
  <1>13. CASE CleanupComplete
    BY <1>13 DEF CleanupComplete
  <1>14. CASE Admitted
    BY <1>14 DEF Admitted
  <1>15. CASE Failed
    BY <1>15 DEF Failed
  <1>16. CASE Orphaned
    BY <1>16 DEF Orphaned
  <1>17. CASE Reconciled
    BY <1>17 DEF Reconciled
  <1>18. CASE RecoveryEntered
    BY <1>18 DEF RecoveryEntered
  <1>19. CASE UNCHANGED vars
    BY <1>19 DEF vars
  <1> HIDE DEF IInv, TypeOK, Envelope, callVars, spoolVars, Slots, Issued,
        Healthy, Numbering
  <1> QED
    BY <1>1, <1>2, <1>3, <1>4, <1>5, <1>6, <1>7, <1>8, <1>9, <1>10, <1>11,
        <1>12, <1>13, <1>14, <1>15, <1>16, <1>17, <1>18, <1>19 DEF Next

\* Every call is counted as ordinary until recovery or cleanup begins, and
\* neither is ever left again.
LEMMA OrdinaryStep == IInv /\ [Next]_vars => Ordinary'
  <1> SUFFICES ASSUME IInv, [Next]_vars PROVE Ordinary'
    OBVIOUS
  <1> USE RuntimeJournalAssumption DEF IInv, TypeOK, Envelope, callVars,
        spoolVars, Slots, Issued, Healthy, Ordinary, Assisting, Final,
        MayOverrun
  <1>1. ASSUME NEW o \in Ops, CallIntent(o)
        PROVE  Ordinary'
    BY <1>1 DEF CallIntent, OrdinaryCall, RecoveryOps
  <1>2. ASSUME NEW i \in Slots, CallResult(i)
        PROVE  Ordinary'
    BY <1>2 DEF CallResult
  <1>3. ASSUME NEW i \in Slots, SpoolRegistered(i)
        PROVE  Ordinary'
    BY <1>3 DEF SpoolRegistered
  <1>4. ASSUME NEW i \in Slots, NEW s \in Streams, SpoolCollected(i, s)
        PROVE  Ordinary'
    BY <1>4 DEF SpoolCollected
  <1>5. CASE Loaded
    BY <1>5 DEF Loaded
  <1>6. CASE Created
    BY <1>6 DEF Created
  <1>7. CASE Started
    BY <1>7 DEF Started
  <1>8. CASE Observed
    BY <1>8 DEF Observed
  <1>9. CASE ReleaseIntent
    BY <1>9 DEF ReleaseIntent
  <1>10. CASE Released
    BY <1>10 DEF Released
  <1>11. ASSUME NEW v \in {"valid", "rejected", "invalid"}, DomainExited(v)
        PROVE  Ordinary'
    BY <1>11 DEF DomainExited
  <1>12. CASE CleanupIncomplete
    BY <1>12 DEF CleanupIncomplete
  <1>13. CASE CleanupComplete
    BY <1>13 DEF CleanupComplete
  <1>14. CASE Admitted
    BY <1>14 DEF Admitted
  <1>15. CASE Failed
    BY <1>15 DEF Failed
  <1>16. CASE Orphaned
    BY <1>16 DEF Orphaned
  <1>17. CASE Reconciled
    BY <1>17 DEF Reconciled
  <1>18. CASE RecoveryEntered
    BY <1>18 DEF RecoveryEntered
  <1>19. CASE UNCHANGED vars
    BY <1>19 DEF vars
  <1> HIDE DEF IInv, TypeOK, Envelope, callVars, spoolVars, Slots, Issued,
        Healthy, Ordinary, Assisting, Final, MayOverrun
  <1> QED
    BY <1>1, <1>2, <1>3, <1>4, <1>5, <1>6, <1>7, <1>8, <1>9, <1>10, <1>11,
        <1>12, <1>13, <1>14, <1>15, <1>16, <1>17, <1>18, <1>19 DEF Next

\* A reboot only enters with an event that sets the recovery flag.
LEMMA TaintedStep == IInv /\ [Next]_vars => Tainted'
  <1> SUFFICES ASSUME IInv, [Next]_vars PROVE Tainted'
    OBVIOUS
  <1> USE RuntimeJournalAssumption DEF IInv, TypeOK, Envelope, callVars,
        spoolVars, Slots, Issued, Healthy, Tainted, MayOverrun
  <1>1. ASSUME NEW o \in Ops, CallIntent(o)
        PROVE  Tainted'
    BY <1>1 DEF CallIntent
  <1>2. ASSUME NEW i \in Slots, CallResult(i)
        PROVE  Tainted'
    BY <1>2 DEF CallResult
  <1>3. ASSUME NEW i \in Slots, SpoolRegistered(i)
        PROVE  Tainted'
    BY <1>3 DEF SpoolRegistered
  <1>4. ASSUME NEW i \in Slots, NEW s \in Streams, SpoolCollected(i, s)
        PROVE  Tainted'
    BY <1>4 DEF SpoolCollected
  <1>5. CASE Loaded
    BY <1>5 DEF Loaded
  <1>6. CASE Created
    BY <1>6 DEF Created
  <1>7. CASE Started
    BY <1>7 DEF Started
  <1>8. CASE Observed
    BY <1>8 DEF Observed
  <1>9. CASE ReleaseIntent
    BY <1>9 DEF ReleaseIntent
  <1>10. CASE Released
    BY <1>10 DEF Released
  <1>11. ASSUME NEW v \in {"valid", "rejected", "invalid"}, DomainExited(v)
        PROVE  Tainted'
    BY <1>11 DEF DomainExited
  <1>12. CASE CleanupIncomplete
    BY <1>12 DEF CleanupIncomplete
  <1>13. CASE CleanupComplete
    BY <1>13 DEF CleanupComplete
  <1>14. CASE Admitted
    BY <1>14 DEF Admitted
  <1>15. CASE Failed
    BY <1>15 DEF Failed
  <1>16. CASE Orphaned
    BY <1>16 DEF Orphaned
  <1>17. CASE Reconciled
    BY <1>17 DEF Reconciled
  <1>18. CASE RecoveryEntered
    BY <1>18 DEF RecoveryEntered
  <1>19. CASE UNCHANGED vars
    BY <1>19 DEF vars
  <1> HIDE DEF IInv, TypeOK, Envelope, callVars, spoolVars, Slots, Issued,
        Healthy, Tainted, MayOverrun
  <1> QED
    BY <1>1, <1>2, <1>3, <1>4, <1>5, <1>6, <1>7, <1>8, <1>9, <1>10, <1>11,
        <1>12, <1>13, <1>14, <1>15, <1>16, <1>17, <1>18, <1>19 DEF Next

\* No create can be intended once the cleanup is complete.
LEMMA CleanedStep == IInv /\ [Next]_vars => Cleaned'
  <1> SUFFICES ASSUME IInv, [Next]_vars PROVE Cleaned'
    OBVIOUS
  <1> USE RuntimeJournalAssumption DEF IInv, TypeOK, Envelope, callVars,
        spoolVars, Slots, Issued, Healthy, Numbering, Cleaned, Final,
        CreateIssued, HealthyCall
  <1>1. ASSUME NEW o \in Ops, CallIntent(o)
        PROVE  Cleaned'
    BY <1>1, SMT DEF CallIntent, OrdinaryCall, Assisting, RecoveryOps
  <1>2. ASSUME NEW i \in Slots, CallResult(i)
        PROVE  Cleaned'
    BY <1>2, SMT DEF CallResult
  <1>3. ASSUME NEW i \in Slots, SpoolRegistered(i)
        PROVE  Cleaned'
    BY <1>3 DEF SpoolRegistered
  <1>4. ASSUME NEW i \in Slots, NEW s \in Streams, SpoolCollected(i, s)
        PROVE  Cleaned'
    BY <1>4 DEF SpoolCollected
  <1>5. CASE Loaded
    BY <1>5 DEF Loaded
  <1>6. CASE Created
    BY <1>6 DEF Created
  <1>7. CASE Started
    BY <1>7 DEF Started
  <1>8. CASE Observed
    BY <1>8 DEF Observed
  <1>9. CASE ReleaseIntent
    BY <1>9 DEF ReleaseIntent
  <1>10. CASE Released
    BY <1>10 DEF Released
  <1>11. ASSUME NEW v \in {"valid", "rejected", "invalid"}, DomainExited(v)
        PROVE  Cleaned'
    BY <1>11 DEF DomainExited
  <1>12. CASE CleanupIncomplete
    BY <1>12 DEF CleanupIncomplete
  <1>13. CASE CleanupComplete
    BY <1>13 DEF CleanupComplete
  <1>14. CASE Admitted
    BY <1>14 DEF Admitted
  <1>15. CASE Failed
    BY <1>15 DEF Failed
  <1>16. CASE Orphaned
    BY <1>16 DEF Orphaned
  <1>17. CASE Reconciled
    BY <1>17 DEF Reconciled
  <1>18. CASE RecoveryEntered
    BY <1>18 DEF RecoveryEntered
  <1>19. CASE UNCHANGED vars
    BY <1>19 DEF vars
  <1> HIDE DEF IInv, TypeOK, Envelope, callVars, spoolVars, Slots, Issued,
        Healthy, Numbering, Cleaned, Final, CreateIssued, HealthyCall
  <1> QED
    BY <1>1, <1>2, <1>3, <1>4, <1>5, <1>6, <1>7, <1>8, <1>9, <1>10, <1>11,
        <1>12, <1>13, <1>14, <1>15, <1>16, <1>17, <1>18, <1>19 DEF Next

\* At most one create and one start, the start after a healthy create.
LEMMA LaunchedStep == IInv /\ [Next]_vars => Launched'
  <1> SUFFICES ASSUME IInv, [Next]_vars PROVE Launched'
    OBVIOUS
  <1> USE RuntimeJournalAssumption DEF IInv, TypeOK, Envelope, callVars,
        spoolVars, Slots, Issued, Healthy, Numbering, Launched,
        AtMostOneContainer, HealthyCall, CreateIssued
  <1>1. ASSUME NEW o \in Ops, CallIntent(o)
        PROVE  Launched'
    BY <1>1, SMT DEF CallIntent, OrdinaryCall, OrdinaryOp, Assisting, RecoveryOps, ByIdOps
  <1>2. ASSUME NEW i \in Slots, CallResult(i)
        PROVE  Launched'
    BY <1>2, SMT DEF CallResult
  <1>3. ASSUME NEW i \in Slots, SpoolRegistered(i)
        PROVE  Launched'
    BY <1>3, SMT DEF SpoolRegistered
  <1>4. ASSUME NEW i \in Slots, NEW s \in Streams, SpoolCollected(i, s)
        PROVE  Launched'
    BY <1>4, SMT DEF SpoolCollected
  <1>5. CASE Loaded
    BY <1>5, SMT DEF Loaded
  <1>6. CASE Created
    BY <1>6, SMT DEF Created
  <1>7. CASE Started
    BY <1>7, SMT DEF Started
  <1>8. CASE Observed
    BY <1>8, SMT DEF Observed
  <1>9. CASE ReleaseIntent
    BY <1>9, SMT DEF ReleaseIntent
  <1>10. CASE Released
    BY <1>10, SMT DEF Released
  <1>11. ASSUME NEW v \in {"valid", "rejected", "invalid"}, DomainExited(v)
        PROVE  Launched'
    BY <1>11, SMT DEF DomainExited
  <1>12. CASE CleanupIncomplete
    BY <1>12, SMT DEF CleanupIncomplete
  <1>13. CASE CleanupComplete
    BY <1>13, SMT DEF CleanupComplete
  <1>14. CASE Admitted
    BY <1>14, SMT DEF Admitted
  <1>15. CASE Failed
    BY <1>15, SMT DEF Failed
  <1>16. CASE Orphaned
    BY <1>16, SMT DEF Orphaned
  <1>17. CASE Reconciled
    BY <1>17, SMT DEF Reconciled
  <1>18. CASE RecoveryEntered
    BY <1>18, SMT DEF RecoveryEntered
  <1>19. CASE UNCHANGED vars
    BY <1>19, SMT DEF vars
  <1> HIDE DEF IInv, TypeOK, Envelope, callVars, spoolVars, Slots, Issued,
        Healthy, Numbering, Launched, AtMostOneContainer, HealthyCall,
        CreateIssued
  <1> QED
    BY <1>1, <1>2, <1>3, <1>4, <1>5, <1>6, <1>7, <1>8, <1>9, <1>10, <1>11,
        <1>12, <1>13, <1>14, <1>15, <1>16, <1>17, <1>18, <1>19 DEF Next

\* Each phase leaves its mark before the next one begins.
LEMMA MarkedStep == IInv /\ [Next]_vars => Marked'
  <1> SUFFICES ASSUME IInv, [Next]_vars PROVE Marked'
    OBVIOUS
  <1> USE RuntimeJournalAssumption DEF IInv, TypeOK, Envelope, callVars,
        spoolVars, Slots, Issued, Healthy, Marked
  <1>1. ASSUME NEW o \in Ops, CallIntent(o)
        PROVE  Marked'
    BY <1>1, SMT DEF CallIntent
  <1>2. ASSUME NEW i \in Slots, CallResult(i)
        PROVE  Marked'
    BY <1>2 DEF CallResult
  <1>3. ASSUME NEW i \in Slots, SpoolRegistered(i)
        PROVE  Marked'
    BY <1>3 DEF SpoolRegistered
  <1>4. ASSUME NEW i \in Slots, NEW s \in Streams, SpoolCollected(i, s)
        PROVE  Marked'
    BY <1>4 DEF SpoolCollected
  <1>5. CASE Loaded
    BY <1>5 DEF Loaded
  <1>6. CASE Created
    BY <1>6 DEF Created
  <1>7. CASE Started
    BY <1>7 DEF Started
  <1>8. CASE Observed
    BY <1>8 DEF Observed
  <1>9. CASE ReleaseIntent
    BY <1>9 DEF ReleaseIntent
  <1>10. CASE Released
    BY <1>10 DEF Released
  <1>11. ASSUME NEW v \in {"valid", "rejected", "invalid"}, DomainExited(v)
        PROVE  Marked'
    BY <1>11 DEF DomainExited
  <1>12. CASE CleanupIncomplete
    BY <1>12 DEF CleanupIncomplete
  <1>13. CASE CleanupComplete
    BY <1>13 DEF CleanupComplete
  <1>14. CASE Admitted
    BY <1>14 DEF Admitted
  <1>15. CASE Failed
    BY <1>15 DEF Failed
  <1>16. CASE Orphaned
    BY <1>16 DEF Orphaned
  <1>17. CASE Reconciled
    BY <1>17 DEF Reconciled
  <1>18. CASE RecoveryEntered
    BY <1>18 DEF RecoveryEntered
  <1>19. CASE UNCHANGED vars
    BY <1>19 DEF vars
  <1> HIDE DEF IInv, TypeOK, Envelope, callVars, spoolVars, Slots, Issued,
        Healthy, Marked
  <1> QED
    BY <1>1, <1>2, <1>3, <1>4, <1>5, <1>6, <1>7, <1>8, <1>9, <1>10, <1>11,
        <1>12, <1>13, <1>14, <1>15, <1>16, <1>17, <1>18, <1>19 DEF Next

\* Only the admitted event reaches that phase, and nothing follows it.
LEMMA AdmittedStep == IInv /\ [Next]_vars => AdmittedHistory'
  <1> SUFFICES ASSUME IInv, [Next]_vars PROVE AdmittedHistory'
    OBVIOUS
  <1> USE RuntimeJournalAssumption DEF IInv, TypeOK, Envelope, callVars,
        spoolVars, Slots, Issued, Healthy, Tainted, Launched, Marked,
        AdmittedHistory, Final, Productive
  <1>1. ASSUME NEW o \in Ops, CallIntent(o)
        PROVE  AdmittedHistory'
    BY <1>1 DEF CallIntent
  <1>2. ASSUME NEW i \in Slots, CallResult(i)
        PROVE  AdmittedHistory'
    BY <1>2 DEF CallResult
  <1>3. ASSUME NEW i \in Slots, SpoolRegistered(i)
        PROVE  AdmittedHistory'
    BY <1>3 DEF SpoolRegistered
  <1>4. ASSUME NEW i \in Slots, NEW s \in Streams, SpoolCollected(i, s)
        PROVE  AdmittedHistory'
    BY <1>4 DEF SpoolCollected
  <1>5. CASE Loaded
    BY <1>5 DEF Loaded
  <1>6. CASE Created
    BY <1>6 DEF Created
  <1>7. CASE Started
    BY <1>7 DEF Started
  <1>8. CASE Observed
    BY <1>8 DEF Observed
  <1>9. CASE ReleaseIntent
    BY <1>9 DEF ReleaseIntent
  <1>10. CASE Released
    BY <1>10 DEF Released
  <1>11. ASSUME NEW v \in {"valid", "rejected", "invalid"}, DomainExited(v)
        PROVE  AdmittedHistory'
    BY <1>11 DEF DomainExited
  <1>12. CASE CleanupIncomplete
    BY <1>12 DEF CleanupIncomplete
  <1>13. CASE CleanupComplete
    BY <1>13 DEF CleanupComplete
  <1>14. CASE Admitted
    BY <1>14, SMT DEF Admitted
  <1>15. CASE Failed
    BY <1>15 DEF Failed
  <1>16. CASE Orphaned
    BY <1>16 DEF Orphaned
  <1>17. CASE Reconciled
    BY <1>17 DEF Reconciled
  <1>18. CASE RecoveryEntered
    BY <1>18 DEF RecoveryEntered
  <1>19. CASE UNCHANGED vars
    BY <1>19 DEF vars
  <1> HIDE DEF IInv, TypeOK, Envelope, callVars, spoolVars, Slots, Issued,
        Healthy, Tainted, Launched, Marked, AdmittedHistory, Final, Productive
  <1> QED
    BY <1>1, <1>2, <1>3, <1>4, <1>5, <1>6, <1>7, <1>8, <1>9, <1>10, <1>11,
        <1>12, <1>13, <1>14, <1>15, <1>16, <1>17, <1>18, <1>19 DEF Next

\* The three final events find the cleanup complete when a create was intended.
LEMMA AbandonedStep == IInv /\ [Next]_vars => NoAbandonedContainer'
  <1> SUFFICES ASSUME IInv, [Next]_vars PROVE NoAbandonedContainer'
    OBVIOUS
  <1> USE RuntimeJournalAssumption DEF IInv, TypeOK, Envelope, callVars,
        spoolVars, Slots, Issued, Healthy, Cleaned, NoAbandonedContainer,
        Final, CreateIssued, HealthyCall, Disposed
  <1>1. ASSUME NEW o \in Ops, CallIntent(o)
        PROVE  NoAbandonedContainer'
    BY <1>1 DEF CallIntent
  <1>2. ASSUME NEW i \in Slots, CallResult(i)
        PROVE  NoAbandonedContainer'
    BY <1>2 DEF CallResult
  <1>3. ASSUME NEW i \in Slots, SpoolRegistered(i)
        PROVE  NoAbandonedContainer'
    BY <1>3 DEF SpoolRegistered
  <1>4. ASSUME NEW i \in Slots, NEW s \in Streams, SpoolCollected(i, s)
        PROVE  NoAbandonedContainer'
    BY <1>4 DEF SpoolCollected
  <1>5. CASE Loaded
    BY <1>5 DEF Loaded
  <1>6. CASE Created
    BY <1>6 DEF Created
  <1>7. CASE Started
    BY <1>7 DEF Started
  <1>8. CASE Observed
    BY <1>8 DEF Observed
  <1>9. CASE ReleaseIntent
    BY <1>9 DEF ReleaseIntent
  <1>10. CASE Released
    BY <1>10 DEF Released
  <1>11. ASSUME NEW v \in {"valid", "rejected", "invalid"}, DomainExited(v)
        PROVE  NoAbandonedContainer'
    BY <1>11 DEF DomainExited
  <1>12. CASE CleanupIncomplete
    BY <1>12 DEF CleanupIncomplete
  <1>13. CASE CleanupComplete
    BY <1>13 DEF CleanupComplete
  <1>14. CASE Admitted
    BY <1>14 DEF Admitted
  <1>15. CASE Failed
    BY <1>15 DEF Failed
  <1>16. CASE Orphaned
    BY <1>16 DEF Orphaned
  <1>17. CASE Reconciled
    BY <1>17 DEF Reconciled
  <1>18. CASE RecoveryEntered
    BY <1>18 DEF RecoveryEntered
  <1>19. CASE UNCHANGED vars
    BY <1>19 DEF vars
  <1> HIDE DEF IInv, TypeOK, Envelope, callVars, spoolVars, Slots, Issued,
        Healthy, Cleaned, NoAbandonedContainer, Final, CreateIssued,
        HealthyCall, Disposed
  <1> QED
    BY <1>1, <1>2, <1>3, <1>4, <1>5, <1>6, <1>7, <1>8, <1>9, <1>10, <1>11,
        <1>12, <1>13, <1>14, <1>15, <1>16, <1>17, <1>18, <1>19 DEF Next

LEMMA InitIInv == Init => IInv
  BY RuntimeJournalAssumption, SMT
  DEF Init, IInv, TypeOK, Numbering, Ordinary, Assisting, Tainted, Cleaned, Launched,
      Marked, AtMostOneContainer, AdmittedHistory, NoAbandonedContainer, HealthyCall,
      CreateIssued, Healthy, Issued, Slots, Phases, Final

LEMMA NextIInv == IInv /\ [Next]_vars => IInv'
  BY TypeStep, NumberingStep, OrdinaryStep, TaintedStep, CleanedStep, LaunchedStep,
     MarkedStep, AdmittedStep, AbandonedStep DEF IInv

\* The strengthened invariant holds in every journal that replay accepts.
THEOREM InvariantHolds == Spec => []IInv
  BY InitIInv, NextIInv, PTL DEF Spec

\* The state of the replay is well typed, its counters within their limits.
THEOREM TypesCorrect == Spec => []TypeOK
  <1>1. IInv => TypeOK
    BY DEF IInv
  <1> QED
    BY InvariantHolds, <1>1, PTL

\* An admitted attempt was never in recovery, orphaned or over its limits, ran
\* under one boot, and every one of its calls came back healthy.
THEOREM AdmittedAttemptsAreClean == Spec => []AdmittedHistory
  <1>1. IInv => AdmittedHistory
    BY DEF IInv
  <1> QED
    BY InvariantHolds, <1>1, PTL

\* A journal ends only when the container it may have created is accounted for.
THEOREM NoContainerIsAbandoned == Spec => []NoAbandonedContainer
  <1>1. IInv => NoAbandonedContainer
    BY DEF IInv
  <1> QED
    BY InvariantHolds, <1>1, PTL

\* At most one container is created and started, however results interleave.
THEOREM OneContainerOnly == Spec => []AtMostOneContainer
  <1>1. IInv => AtMostOneContainer
    BY DEF IInv, Launched
  <1> QED
    BY InvariantHolds, <1>1, PTL

\* The slots kept for cleanup are free until cleanup or recovery begins.
THEOREM CleanupSlotsAreKept == Spec => []CleanupSlotsKept
  <1>1. IInv => CleanupSlotsKept
    BY RuntimeJournalAssumption, SMT DEF IInv, TypeOK, Ordinary, CleanupSlotsKept
  <1> QED
    BY InvariantHolds, <1>1, PTL
----------------------------------------------------------------------------
(* What no step takes back.                                                *)

StepKeepsFacts ==
    /\ flags \subseteq flags'
    /\ marks \subseteq marks'
    /\ container = "known" => container' = "known"
    /\ \A i \in Slots : res[i] # "pending" => res'[i] = res[i]
    /\ \A i \in Slots : Issued(i) => op'[i] = op[i]

\* An intent takes an unissued slot, a result an unanswered call, and the flags
\* and marks only grow.
LEMMA StickyStep == IInv /\ [Next]_vars => StepKeepsFacts
  <1> SUFFICES ASSUME IInv, [Next]_vars PROVE StepKeepsFacts
    OBVIOUS
  <1> USE RuntimeJournalAssumption DEF IInv, TypeOK, Envelope, callVars,
        spoolVars, Slots, Issued, Healthy, Numbering, StepKeepsFacts,
        MayOverrun
  <1>1. ASSUME NEW o \in Ops, CallIntent(o)
        PROVE  StepKeepsFacts
    BY <1>1, SMT DEF CallIntent
  <1>2. ASSUME NEW i \in Slots, CallResult(i)
        PROVE  StepKeepsFacts
    BY <1>2 DEF CallResult
  <1>3. ASSUME NEW i \in Slots, SpoolRegistered(i)
        PROVE  StepKeepsFacts
    BY <1>3 DEF SpoolRegistered
  <1>4. ASSUME NEW i \in Slots, NEW s \in Streams, SpoolCollected(i, s)
        PROVE  StepKeepsFacts
    BY <1>4 DEF SpoolCollected
  <1>5. CASE Loaded
    BY <1>5 DEF Loaded
  <1>6. CASE Created
    BY <1>6 DEF Created
  <1>7. CASE Started
    BY <1>7 DEF Started
  <1>8. CASE Observed
    BY <1>8 DEF Observed
  <1>9. CASE ReleaseIntent
    BY <1>9 DEF ReleaseIntent
  <1>10. CASE Released
    BY <1>10 DEF Released
  <1>11. ASSUME NEW v \in {"valid", "rejected", "invalid"}, DomainExited(v)
        PROVE  StepKeepsFacts
    BY <1>11 DEF DomainExited
  <1>12. CASE CleanupIncomplete
    BY <1>12 DEF CleanupIncomplete
  <1>13. CASE CleanupComplete
    BY <1>13 DEF CleanupComplete
  <1>14. CASE Admitted
    BY <1>14 DEF Admitted
  <1>15. CASE Failed
    BY <1>15 DEF Failed
  <1>16. CASE Orphaned
    BY <1>16 DEF Orphaned
  <1>17. CASE Reconciled
    BY <1>17 DEF Reconciled
  <1>18. CASE RecoveryEntered
    BY <1>18 DEF RecoveryEntered
  <1>19. CASE UNCHANGED vars
    BY <1>19 DEF vars
  <1> HIDE DEF IInv, TypeOK, Envelope, callVars, spoolVars, Slots, Issued,
        Healthy, Numbering, StepKeepsFacts, MayOverrun
  <1> QED
    BY <1>1, <1>2, <1>3, <1>4, <1>5, <1>6, <1>7, <1>8, <1>9, <1>10, <1>11,
        <1>12, <1>13, <1>14, <1>15, <1>16, <1>17, <1>18, <1>19 DEF Next

\* Recorded facts are sticky in every journal.
THEOREM FactsStay == Spec => FactsAreSticky
  <1>1. IInv /\ [Next]_vars => [StepKeepsFacts]_vars
    BY StickyStep
  <1> QED
    BY InvariantHolds, <1>1, PTL DEF Spec, FactsAreSticky, StepKeepsFacts

----------------------------------------------------------------------------
(* The journal implements the lifecycle.                                   *)

\* Every event is a step of the lifecycle or leaves the outcome alone.
LEMMA SimulationStep == IInv /\ [Next]_vars => [Lifecycle!Next]_Outcome
  <1> SUFFICES ASSUME IInv, [Next]_vars PROVE [Lifecycle!Next]_Outcome
    OBVIOUS
  <1> USE RuntimeJournalAssumption DEF IInv, TypeOK, Envelope, callVars,
        spoolVars, Slots, Issued, Healthy, Numbering, Tainted, Outcome, Final,
        Disposed
  <1>1. ASSUME NEW o \in Ops, CallIntent(o)
        PROVE  [Lifecycle!Next]_Outcome
    BY <1>1, SMT DEF CallIntent
  <1>2. ASSUME NEW i \in Slots, CallResult(i)
        PROVE  [Lifecycle!Next]_Outcome
    BY <1>2 DEF CallResult, MayOverrun, Lifecycle!Next, Lifecycle!Doom
  <1>3. ASSUME NEW i \in Slots, SpoolRegistered(i)
        PROVE  [Lifecycle!Next]_Outcome
    BY <1>3 DEF SpoolRegistered
  <1>4. ASSUME NEW i \in Slots, NEW s \in Streams, SpoolCollected(i, s)
        PROVE  [Lifecycle!Next]_Outcome
    BY <1>4 DEF SpoolCollected, MayOverrun, Lifecycle!Next, Lifecycle!Doom
  <1>5. CASE Loaded
    BY <1>5 DEF Loaded
  <1>6. CASE Created
    BY <1>6 DEF Created
  <1>7. CASE Started
    BY <1>7 DEF Started
  <1>8. CASE Observed
    BY <1>8 DEF Observed
  <1>9. CASE ReleaseIntent
    BY <1>9 DEF ReleaseIntent
  <1>10. CASE Released
    BY <1>10 DEF Released
  <1>11. ASSUME NEW v \in {"valid", "rejected", "invalid"}, DomainExited(v)
        PROVE  [Lifecycle!Next]_Outcome
    BY <1>11 DEF DomainExited
  <1>12. CASE CleanupIncomplete
    BY <1>12 DEF CleanupIncomplete
  <1>13. CASE CleanupComplete
    BY <1>13 DEF CleanupComplete
  <1>14. CASE Admitted
    BY <1>14 DEF Admitted, Productive, Lifecycle!Next, Lifecycle!Admit
  <1>15. CASE Failed
    BY <1>15 DEF Failed, Lifecycle!Next, Lifecycle!Fail
  <1>16. CASE Orphaned
    BY <1>16 DEF Orphaned, Lifecycle!Next, Lifecycle!Orphan
  <1>17. CASE Reconciled
    BY <1>17 DEF Reconciled, Lifecycle!Next, Lifecycle!Reconcile
  <1>18. CASE RecoveryEntered
    BY <1>18 DEF RecoveryEntered, Lifecycle!Next, Lifecycle!Doom
  <1>19. CASE UNCHANGED vars
    BY <1>19 DEF vars
  <1> HIDE DEF IInv, TypeOK, Envelope, callVars, spoolVars, Slots, Issued,
        Healthy, Numbering, Tainted, Outcome, Final, Disposed
  <1> QED
    BY <1>1, <1>2, <1>3, <1>4, <1>5, <1>6, <1>7, <1>8, <1>9, <1>10, <1>11,
        <1>12, <1>13, <1>14, <1>15, <1>16, <1>17, <1>18, <1>19 DEF Next

\* Every journal implements AttemptLifecycle: a doomed attempt is never admitted,
\* an orphaned one only ends reconciled, and an ending is final.
THEOREM JournalImplementsLifecycle == Spec => ImplementsLifecycle
  <1>1. Init => Lifecycle!Init
    BY DEF Init, Lifecycle!Init, Outcome, Final, Issued
  <1>2. IInv /\ [Next]_vars => [Lifecycle!Next]_Outcome
    BY SimulationStep
  <1> QED
    BY InvariantHolds, <1>1, <1>2, PTL DEF Spec, ImplementsLifecycle, Lifecycle!Spec

-----------------------------------------------------------------------------
(***************************************************************************)
(* The acquisition.  CaptureIsWhole is not inductive: a replay accepts at  *)
(* its last file what its passes saw, a result rests on what every earlier *)
(* step flushed.  The invariant says, label by label, what the call would  *)
(* report, what is on disk and durable, what is stored, and what a pass in *)
(* the middle of its files knows of the ones behind it.                    *)
(***************************************************************************)
Contents == {"absent", "good", "other"}
Trees == [Files -> [content : Contents, stamp : Nat]]
Inventories == [Files -> Contents]
PassOk(pass) ==
    /\ DOMAIN pass = {"phase", "todo", "stamps", "got"} /\ pass.todo \subseteq Files
    /\ pass.stamps \in [Files -> Nat] /\ pass.got \in Inventories
Receipt(inventory) == [inventory |-> inventory, count |-> Cardinality({f \in Files : inventory[f] # "absent"})]
RunFields == {"pc", "stage", "state", "tree", "todo", "pass", "copied", "attempt", "receipt", "proof", "error"}
AcqShape ==
    /\ staged \in Trees /\ object \in Trees /\ changes \in Nat
    /\ DOMAIN run = RunFields /\ DOMAIN replay = {"pc", "pass", "shown"}
    /\ run.copied.inventory \in Inventories

\* The labels of capture_offline_objects, in its order.
Unstarted == {"input", "load", "attempt", "materialize", "match", "recheck"}
Storing == {"copy", "readback", "manifest", "seal", "receipt"}
Received == {"verify", "retained", "again", "proof"}
Proving == {"artifacts", "complete"}
Checking == {"check", "checksource", "return", "closing"}
Copied == {"readback", "manifest", "seal", "receipt"} \cup Received \cup Proving \cup Checking

\* What failure.json would say is true at every label.
Reported ==
    /\ run.receipt <=> run.state \in {"receipt-returned-unverified", "verified-orphan"}
    /\ run.pc \in Unstarted => run.state = "not-started"
    /\ run.pc \in {"allocate"} \cup Storing => run.state = "unknown"
    /\ run.pc \in Received \cup Proving \cup Checking => run.receipt
    /\ run.pc \in Proving \cup Checking => run.proof
    /\ power => /\ run.state = "not-started" => "object" \notin disk
                /\ run.proof => "proof" \in disk
                /\ "COMPLETE" \in disk => run.proof
\* What is on disk, and what of it power loss cannot take.
Kept ==
    /\ durable \subseteq disk
    /\ power /\ run.pc \in Storing => {"object", "bytes", "entries"} \subseteq disk
    /\ power /\ run.pc = "receipt" => "SEALED" \in disk
    /\ run.pc \in {"readback", "manifest"} => "bytes" \in durable
    /\ run.pc \in {"seal", "receipt"} \/ "SEALED" \in disk => {"bytes", "entries", "manifest"} \subseteq durable
    /\ run.pc = "complete" \/ "COMPLETE" \in disk => Artifacts \subseteq durable
    /\ run.receipt => {"object", "SEALED"} \subseteq durable
    /\ run.pc \in Checking \/ outcome = "result" => {"COMPLETE", "proof"} \subseteq durable
\* The call's answer, its record and its replay agree.
Concluded ==
    /\ outcome = "none" <=> run.pc # "over"
    /\ outcome = "result" => run.receipt
    /\ failure.written => /\ outcome \in {"refused", "interrupted"} /\ failure.state = run.state
                          /\ failure.receipt = run.receipt /\ failure.proof = run.proof
    /\ replay.pc # "idle" => outcome = "result"
\* The files a pass has met, and those it has read.
Met(pass, f) == pass.phase \in {"read", "again"} \/ f \notin pass.todo
HasRead(pass, f) == pass.phase = "again" \/ (pass.phase = "read" /\ f \notin pass.todo)
Passing == {"walk", "read", "again"}
\* Nobody interfered: the stored source is what the receipt says.
Stored ==
    /\ run.pc = "copy" => PassOk(run.pass) /\ run.pass.phase \in Passing
    /\ run.pc \in Copied \/ outcome = "result" => run.copied = Receipt(run.copied.inventory)
    /\ changes = 0 =>
        /\ run.pc = "copy" => \A f \in Files : HasRead(run.pass, f) => object[f] = Written(run.pass.got[f])
        /\ run.pc \in Copied \/ outcome = "result" => \A f \in Files : object[f] = Written(run.copied.inventory[f])
        /\ run.pc = "checksource" => \A f \in Files \ run.todo : object[f].content = "good"
        /\ run.pc \in {"return", "closing"} \/ outcome = "result" => Whole(object)
\* And its replay meets nothing to refuse.
Undisturbed ==
    changes = 0 =>
        /\ replay.pc # "refused"
        /\ replay.pc = "reading" => \A f \in Files : /\ Met(replay.pass, f) => replay.pass.stamps[f] = 0
                                                     /\ HasRead(replay.pass, f) => replay.pass.got[f] = "good"
\* However files change: a stamp met again means that the file was still, and
\* a pass that meets every stamp again was, when its second walk began, at a
\* moment when every file was what it had read.
Snapshot ==
    /\ replay.pc # "idle" /\ AsReceived(object) => replay.shown
    /\ replay.pc = "reading" =>
        /\ PassOk(replay.pass) /\ replay.pass.phase \in Passing
        /\ \A f \in Files : Met(replay.pass, f) => replay.pass.stamps[f] <= object[f].stamp
        /\ \A f \in Files : HasRead(replay.pass, f) /\ object[f].stamp = replay.pass.stamps[f]
              => object[f].content = replay.pass.got[f]
        /\ replay.pass.phase = "again" /\ replay.pass.got = run.copied.inventory
              => replay.shown \/ \E f \in replay.pass.todo : object[f].stamp > replay.pass.stamps[f]

AcqInv == AcqShape /\ Reported /\ Kept /\ Concluded /\ Stored /\ Undisturbed /\ Snapshot /\ AcceptedWasShown

-----------------------------------------------------------------------------
\* One file of a pass: what each of its phases records.
LEMMA WalkStep ==
    ASSUME NEW p, PassOk(p), NEW f \in p.todo, NEW dir \in Trees, NEW n, n = NextPass(p, f, dir), p.phase = "walk"
    PROVE  /\ PassOk(n) /\ n.got = p.got /\ n.stamps = [p.stamps EXCEPT ![f] = dir[f].stamp]
           /\ IF p.todo = {f} THEN n.phase = "read" /\ n.todo = Files ELSE n.phase = "walk" /\ n.todo = p.todo \ {f}
<1> DEFINE stamps == [p.stamps EXCEPT ![f] = dir[f].stamp]
           moved == Advance(p, f, "walk", "read")
<1>1. f \in Files /\ dir[f].stamp \in Nat
  BY SMT DEF PassOk, Trees
<1>2. stamps \in [Files -> Nat]
  BY <1>1, SMT DEF PassOk
<1>3. n = [moved EXCEPT !.stamps[f] = dir[f].stamp]
  BY DEF NextPass, WalkFile, Stamp
<1>4. /\ DOMAIN moved = DOMAIN p /\ moved.stamps = p.stamps /\ moved.got = p.got
      /\ IF p.todo = {f} THEN moved.phase = "read" /\ moved.todo = Files ELSE moved.phase = "walk" /\ moved.todo = p.todo \ {f}
  <2>1. p.todo \ {f} = {} <=> p.todo = {f}
    OBVIOUS
  <2>2. moved = [p EXCEPT !.todo = IF p.todo = {f} THEN Files ELSE p.todo \ {f}, !.phase = IF p.todo = {f} THEN "read" ELSE "walk"]
    BY <2>1 DEF Advance
  <2> HIDE DEF moved
  <2> QED BY <2>2 DEF PassOk
<1> HIDE DEF moved
<1>5. DOMAIN n = DOMAIN p /\ n.stamps = stamps /\ n.got = p.got /\ n.phase = moved.phase /\ n.todo = moved.todo
  BY <1>3, <1>4 DEF PassOk
<1> HIDE DEF stamps
<1> QED BY <1>2, <1>4, <1>5 DEF PassOk, stamps

\* A read records the content.
LEMMA ReadStep ==
    ASSUME NEW p, PassOk(p), NEW f \in p.todo, NEW dir \in Trees, NEW n, n = NextPass(p, f, dir), p.phase = "read"
    PROVE  /\ PassOk(n) /\ n.stamps = p.stamps /\ n.got = [p.got EXCEPT ![f] = dir[f].content]
           /\ IF p.todo = {f} THEN n.phase = "again" /\ n.todo = Files ELSE n.phase = "read" /\ n.todo = p.todo \ {f}
<1> DEFINE got == [p.got EXCEPT ![f] = dir[f].content]
           moved == Advance(p, f, "read", "again")
<1>1. f \in Files /\ dir[f].content \in Contents
  BY SMT DEF PassOk, Trees
<1>2. got \in Inventories
  BY <1>1, SMT DEF PassOk, Inventories
<1>3. n = [moved EXCEPT !.got[f] = dir[f].content]
  BY DEF NextPass, ReadFile
<1>4. /\ DOMAIN moved = DOMAIN p /\ moved.stamps = p.stamps /\ moved.got = p.got
      /\ IF p.todo = {f} THEN moved.phase = "again" /\ moved.todo = Files ELSE moved.phase = "read" /\ moved.todo = p.todo \ {f}
  <2>1. p.todo \ {f} = {} <=> p.todo = {f}
    OBVIOUS
  <2>2. moved = [p EXCEPT !.todo = IF p.todo = {f} THEN Files ELSE p.todo \ {f}, !.phase = IF p.todo = {f} THEN "again" ELSE "read"]
    BY <2>1 DEF Advance
  <2> HIDE DEF moved
  <2> QED BY <2>2 DEF PassOk
<1> HIDE DEF moved
<1>5. DOMAIN n = DOMAIN p /\ n.stamps = p.stamps /\ n.got = got /\ n.phase = moved.phase /\ n.todo = moved.todo
  BY <1>3, <1>4 DEF PassOk
<1> HIDE DEF got
<1> QED BY <1>2, <1>4, <1>5 DEF PassOk, got

\* The second walk records nothing.
LEMMA AgainStep ==
    ASSUME NEW p, PassOk(p), NEW f \in p.todo, NEW dir \in Trees, NEW n, n = NextPass(p, f, dir), p.phase = "again"
    PROVE  /\ PassOk(n) /\ n.stamps = p.stamps /\ n.got = p.got /\ n.todo = p.todo \ {f}
           /\ IF p.todo = {f} THEN n.phase = "done" ELSE n.phase = "again"
<1>1. p.todo \ {f} = {} <=> p.todo = {f}
  OBVIOUS
<1>2. n = [p EXCEPT !.todo = p.todo \ {f}, !.phase = IF p.todo = {f} THEN "done" ELSE "again"]
  BY <1>1 DEF NextPass, AgainFile, Advance
<1> QED BY <1>2 DEF PassOk

\* A pass begins with a walk over every file.
LEMMA FirstPass == PassOk(StartPass) /\ StartPass.phase = "walk" /\ StartPass.todo = Files
<1>1. PassOk(NoPass)
  BY SMT DEF PassOk, NoPass, Inventories, Contents
<1>2. DOMAIN NoPass = {"phase", "todo", "stamps", "got"}
  BY <1>1 DEF PassOk
<1> HIDE DEF NoPass
<1>3. StartPass.phase = "walk" /\ StartPass.todo = Files /\ DOMAIN StartPass = DOMAIN NoPass /\ StartPass.stamps = NoPass.stamps /\ StartPass.got = NoPass.got
  BY <1>2 DEF StartPass
<1> QED BY <1>1, <1>3 DEF PassOk

-----------------------------------------------------------------------------
\* The kinds of steps of the call, by what the invariant depends on.
AtRest == power /\ UNCHANGED <<object, disk, durable, failure, outcome, replay, changes, power>>
SameReport == run'.receipt = run.receipt /\ run'.proof = run.proof /\ run'.copied = run.copied
Raises == AtRest /\ SameReport /\ run.pc \in Working /\ run'.pc = "failing" /\ run'.state = run.state
Prepares ==
    /\ AtRest /\ SameReport /\ run.pc \in Unstarted
    /\ \/ run'.pc \in Unstarted /\ run'.state = run.state
       \/ run'.pc = "allocate" /\ run'.state = "unknown"
Allocates ==
    /\ power /\ run.pc = "allocate" /\ run'.pc = "copy" /\ SameReport /\ run'.state = run.state /\ run'.pass = StartPass
    /\ disk' = disk \cup {"object", "bytes", "entries"}
    /\ UNCHANGED <<object, durable, failure, outcome, replay, changes, power>>
Copies(f) ==
    /\ power /\ run.pc = "copy" /\ f \in run.pass.todo
    /\ run'.receipt = run.receipt /\ run'.proof = run.proof /\ run'.state = run.state
    /\ object' = IF run.pass.phase = "read" THEN [object EXCEPT ![f] = Written(staged[f].content)] ELSE object
    /\ LET next == NextPass(run.pass, f, staged) IN
       \/ /\ next.phase = "done" /\ run'.pc = "readback" /\ run'.copied = Evidence(next) /\ durable' = durable \cup {"bytes"}
       \/ /\ next.phase # "done" /\ run'.pc = "copy" /\ run'.copied = run.copied /\ run'.pass = next /\ durable' = durable
    /\ UNCHANGED <<disk, failure, outcome, replay, changes, power>>
Compares(from, to) ==
    /\ AtRest /\ SameReport /\ run.pc = from /\ run'.pc \in {from, to} /\ run'.state = run.state /\ run'.todo = Files
Writes(from, to, created, flushed) ==
    /\ power /\ run.pc = from /\ run'.pc = to /\ run'.copied = run.copied
    /\ disk' = disk \cup created /\ durable' = durable \cup flushed
    /\ UNCHANGED <<object, failure, outcome, replay, changes, power>>
Stores ==
    /\ SameReport /\ run'.state = run.state
    /\ Writes("manifest", "seal", {"manifest"}, {"entries", "manifest"}) \/ Writes("seal", "receipt", {"SEALED"}, {})
Receives ==
    /\ Writes("receipt", "verify", {}, {"SEALED", "object"})
    /\ run'.proof = run.proof /\ run'.receipt = TRUE /\ run'.state = "receipt-returned-unverified"
Matches ==
    /\ AtRest /\ SameReport /\ run.pc \in {"retained", "again"}
    /\ \/ run.pc = "retained" /\ run'.pc = "retained" /\ run'.state = run.state
       \/ run.pc = "retained" /\ run'.pc = "again" /\ run'.state = "verified-orphan"
       \/ run.pc = "again" /\ run'.pc = "proof" /\ run'.state = run.state
Names ==
    /\ Writes("proof", "artifacts", {"proof"}, {})
    /\ run'.receipt = run.receipt /\ run'.proof = TRUE /\ run'.state = run.state
Publishes ==
    /\ SameReport /\ run'.state = run.state
    /\ \/ \E name \in Artifacts : Writes("artifacts", "artifacts", {name}, {})
       \/ Artifacts \subseteq disk /\ Writes("artifacts", "complete", {}, Artifacts)
       \/ Writes("complete", "check", {"COMPLETE"}, {"COMPLETE", "proof"})
       \/ Writes("complete", "failing", {"COMPLETE"}, {})
Rehashes(f) ==
    /\ AtRest /\ SameReport /\ run.pc = "checksource" /\ run'.state = run.state /\ f \in run.todo /\ object[f].content = "good"
    /\ run'.todo = run.todo \ {f} /\ run'.pc = IF run.todo = {f} THEN "return" ELSE "checksource"
Ends(from, to) == AtRest /\ SameReport /\ run.pc = from /\ run'.pc = to /\ run'.state = run.state
Concludes(from) ==
    /\ power /\ run.pc = from /\ run'.pc = "over" /\ SameReport /\ run'.state = run.state
    /\ outcome' \in {"result", "refused", "interrupted"} /\ (outcome' = "result" => from = "closing" /\ failure' = failure)
    /\ \/ failure' = failure
       \/ failure'.written /\ failure'.state = run.state /\ failure'.receipt = run.receipt /\ failure'.proof = run.proof
    /\ UNCHANGED <<object, disk, durable, replay, changes, power>>

Proceeds ==
    \/ Raises \/ Prepares \/ Allocates \/ (\E f \in Files : Copies(f))
    \/ Compares("readback", "manifest") \/ Compares("verify", "retained") \/ Compares("check", "checksource")
    \/ Stores \/ Receives \/ Matches \/ Names \/ Publishes \/ (\E f \in Files : Rehashes(f))
    \/ Ends("return", "closing") \/ Concludes("failing") \/ Concludes("closing")
Replays == StartReplay \/ ReplaySource \/ \E f \in Files : Replay(f)

\* Every step is of one of the kinds above, or not of the call.
LEMMA RunKinds ==
    ASSUME AcqShape, acqNext
    PROVE  /\ DOMAIN run' = RunFields
           /\ Proceeds \/ Replays \/ (\E f \in Files : Interfere(f)) \/ PowerLoss
<1> USE DEF Proceeds, Replays
<1>0. DOMAIN run = RunFields
  BY DEF AcqShape
<1>R. ASSUME NEW reason, Raise(reason), power, run.pc \in Working PROVE DOMAIN run' = RunFields /\ Raises
  <2>1. /\ DOMAIN run' = RunFields /\ run'.pc = "failing" /\ run'.state = run.state
        /\ run'.receipt = run.receipt /\ run'.proof = run.proof /\ run'.copied = run.copied
    BY <1>0, <1>R DEF Raise, RunFields
  <2> QED BY <1>R, <2>1 DEF Raise, Raises, AtRest, SameReport
<1>W. Unstarted \cup Storing \cup Received \cup Proving \cup {"allocate", "check", "checksource", "return"} \subseteq Working
  BY SMT DEF Working, Labels, Unstarted, Storing, Received, Proving
<1>1. CASE Input
  <2>0. run.pc = "input" /\ power /\ run.pc \in Unstarted
    BY <1>1 DEF Input, At, Unstarted
  <2>1. CASE run' = [run EXCEPT !.pc = "load", !.stage = "objects"] /\ UNCHANGED <<staged, object, disk, durable>> /\ Keep
    <3>1. /\ DOMAIN run' = RunFields /\ run'.pc = "load" /\ run'.state = run.state
          /\ run'.receipt = run.receipt /\ run'.proof = run.proof /\ run'.copied = run.copied
      BY <1>0, <2>1 DEF RunFields
    <3> QED BY <2>0, <2>1, <3>1 DEF Prepares, AtRest, SameReport, Keep, Unstarted
  <2> QED BY <1>1, <2>0, <2>1, <1>R, <1>W DEF Input
<1>2. CASE Load
  <2>0. run.pc = "load" /\ power /\ run.pc \in Unstarted
    BY <1>2 DEF Load, At, Unstarted
  <2>1. CASE Loadable
    <3>1. /\ DOMAIN run' = RunFields /\ run'.pc = "attempt" /\ run'.state = run.state
          /\ run'.receipt = run.receipt /\ run'.proof = run.proof /\ run'.copied = run.copied
      BY <1>0, <1>2, <2>1 DEF RunFields, Load
    <3> QED BY <1>2, <2>0, <2>1, <3>1 DEF Prepares, AtRest, SameReport, Keep, Unstarted, Load
  <2> QED BY <1>2, <2>0, <2>1, <1>R, <1>W DEF Load
<1>3. CASE MakeAttempt
  <2>1. /\ DOMAIN run' = RunFields /\ run'.pc = "materialize" /\ run'.state = run.state
        /\ run'.receipt = run.receipt /\ run'.proof = run.proof /\ run'.copied = run.copied
    BY <1>0, <1>3 DEF RunFields, MakeAttempt
  <2> QED BY <1>3, <2>1 DEF Prepares, AtRest, SameReport, Keep, Unstarted, MakeAttempt, At
<1>4. ASSUME NEW f \in Files, Materialize(f) PROVE DOMAIN run' = RunFields /\ (Raises \/ Prepares)
  <2>0. run.pc = "materialize" /\ power /\ run.pc \in Unstarted
    BY <1>4 DEF Materialize, At, Unstarted
  <2>1. CASE input[f].content = "good" /\ Stamp(input[f]) = run.tree[f]
    <3>1. /\ DOMAIN run' = RunFields /\ run'.pc \in {"match", run.pc} /\ run'.state = run.state
          /\ run'.receipt = run.receipt /\ run'.proof = run.proof /\ run'.copied = run.copied
      BY <1>0, <1>4, <2>1 DEF RunFields, Materialize
    <3> QED BY <1>4, <2>0, <2>1, <3>1 DEF Prepares, AtRest, SameReport, Keep, Unstarted, Materialize
  <2> QED BY <1>4, <2>0, <2>1, <1>R, <1>W DEF Materialize
<1>5. ASSUME NEW f \in Files, MatchStaged(f) PROVE DOMAIN run' = RunFields /\ (Raises \/ Prepares)
  <2>0. run.pc = "match" /\ power /\ run.pc \in Unstarted
    BY <1>5 DEF MatchStaged, At, Unstarted
  <2>1. CASE staged[f].content = "good"
    <3>1. /\ DOMAIN run' = RunFields /\ run'.pc \in {"recheck", run.pc} /\ run'.state = run.state
          /\ run'.receipt = run.receipt /\ run'.proof = run.proof /\ run'.copied = run.copied
      BY <1>0, <1>5, <2>1 DEF RunFields, MatchStaged
    <3> QED BY <1>5, <2>0, <2>1, <3>1 DEF Prepares, AtRest, SameReport, Keep, Unstarted, MatchStaged
  <2> QED BY <1>5, <2>0, <2>1, <1>R, <1>W DEF MatchStaged
<1>6. CASE Recheck
  <2>0. run.pc = "recheck" /\ power /\ run.pc \in Unstarted
    BY <1>6 DEF Recheck, At, Unstarted
  <2>1. CASE Unchanged
    <3>1. /\ DOMAIN run' = RunFields /\ run'.pc = "allocate" /\ run'.state = "unknown"
          /\ run'.receipt = run.receipt /\ run'.proof = run.proof /\ run'.copied = run.copied
      BY <1>0, <1>6, <2>1 DEF RunFields, Recheck
    <3> QED BY <1>6, <2>0, <2>1, <3>1 DEF Prepares, AtRest, SameReport, Keep, Recheck
  <2> QED BY <1>6, <2>0, <2>1, <1>R, <1>W DEF Recheck
<1>7. CASE Allocate
  <2>1. /\ DOMAIN run' = RunFields /\ run'.pc = "copy" /\ run'.state = run.state /\ run'.pass = StartPass
        /\ run'.receipt = run.receipt /\ run'.proof = run.proof /\ run'.copied = run.copied
    BY <1>0, <1>7 DEF RunFields, Allocate
  <2> QED BY <1>7, <2>1 DEF Allocates, SameReport, Keep, Allocate, At, Create
<1>8. ASSUME NEW f \in Files, CopyFile(f) PROVE DOMAIN run' = RunFields /\ (Raises \/ Copies(f))
  <2>0. run.pc = "copy" /\ power /\ run.pc \in Working /\ f \in run.pass.todo
    BY <1>8, <1>W DEF CopyFile, At, Storing
  <2>1. CASE Refused(run.pass, f, staged)
    BY <1>8, <2>0, <2>1, <1>R DEF CopyFile
  <2>2. CASE ~Refused(run.pass, f, staged)
    <3> DEFINE next == NextPass(run.pass, f, staged)
    <3>1. /\ object' = IF run.pass.phase = "read" THEN [object EXCEPT ![f] = Written(staged[f].content)] ELSE object
          /\ run' = IF next.phase = "done"
                    THEN [run EXCEPT !.pc = "readback", !.pass = StartPass, !.copied = Evidence(next)]
                    ELSE [run EXCEPT !.pass = next]
          /\ IF next.phase = "done" THEN Flush({"bytes"}) ELSE UNCHANGED durable
          /\ UNCHANGED <<staged, disk>> /\ Keep
      BY <1>8, <2>2 DEF CopyFile
    <3> HIDE DEF next
    <3>2. CASE next.phase = "done"
      <4>1. /\ DOMAIN run' = RunFields /\ run'.pc = "readback" /\ run'.state = run.state /\ run'.copied = Evidence(next)
            /\ run'.receipt = run.receipt /\ run'.proof = run.proof
        BY <1>0, <3>1, <3>2 DEF RunFields
      <4> QED BY <2>0, <3>1, <3>2, <4>1 DEF Copies, Keep, Flush, next
    <3>3. CASE next.phase # "done"
      <4>1. /\ DOMAIN run' = RunFields /\ run'.pc = run.pc /\ run'.state = run.state /\ run'.copied = run.copied
            /\ run'.receipt = run.receipt /\ run'.proof = run.proof /\ run'.pass = next
        BY <1>0, <3>1, <3>3 DEF RunFields
      <4> QED BY <2>0, <3>1, <3>3, <4>1 DEF Copies, Keep, next
    <3> QED BY <3>2, <3>3
  <2> QED BY <2>1, <2>2
<1>9. ASSUME NEW f, NEW label \in {"readback", "verify", "check"}, NEW after, Reread(label, f, after)
      PROVE  DOMAIN run' = RunFields /\ (Raises \/ Compares(label, after))
  <2>0. run.pc = label /\ power /\ run.pc \in Working
    BY <1>9, <1>W DEF Reread, At, Storing, Received
  <2> DEFINE next == NextPass(run.pass, f, object)
             differs == next.phase = "done" /\ Evidence(next) # run.copied
  <2>1. CASE Refused(run.pass, f, object) \/ differs
    BY <1>9, <2>0, <2>1, <1>R DEF Reread
  <2>2. CASE ~(Refused(run.pass, f, object) \/ differs)
    <3>1. /\ run' = [run EXCEPT !.pass = next, !.todo = Files, !.pc = IF next.phase = "done" THEN after ELSE @]
          /\ UNCHANGED <<staged, object, disk, durable>> /\ Keep
      BY <1>9, <2>2 DEF Reread
    <3> HIDE DEF next
    <3>2. /\ DOMAIN run' = RunFields /\ run'.pc \in {run.pc, after} /\ run'.state = run.state /\ run'.todo = Files
          /\ run'.receipt = run.receipt /\ run'.proof = run.proof /\ run'.copied = run.copied
      BY <1>0, <3>1 DEF RunFields
    <3> QED BY <2>0, <3>1, <3>2 DEF Compares, AtRest, SameReport, Keep
  <2> QED BY <2>1, <2>2
<1>10. ASSUME NEW f \in Files, ReadBack(f) PROVE DOMAIN run' = RunFields /\ (Raises \/ Compares("readback", "manifest"))
  BY <1>9, <1>10 DEF ReadBack
<1>11. ASSUME NEW f \in Files, VerifyCapture(f) PROVE DOMAIN run' = RunFields /\ (Raises \/ Compares("verify", "retained"))
  <2>1. CASE Published(disk, run.receipt)
    BY <1>9, <1>11, <2>1 DEF VerifyCapture
  <2>2. CASE ~Published(disk, run.receipt)
    BY <1>11, <2>2, <1>R, <1>W DEF VerifyCapture, At, Received
  <2> QED BY <2>1, <2>2
<1>12. ASSUME NEW f \in Files, Check(f) PROVE DOMAIN run' = RunFields /\ (Raises \/ Compares("check", "checksource"))
  <2>1. CASE Replayable
    BY <1>9, <1>12, <2>1 DEF Check
  <2>2. CASE ~Replayable
    BY <1>12, <2>2, <1>R, <1>W DEF Check, At
  <2> QED BY <2>1, <2>2
<1>13. CASE WriteManifest
  <2>1. /\ DOMAIN run' = RunFields /\ run'.pc = "seal" /\ run'.state = run.state
        /\ run'.receipt = run.receipt /\ run'.proof = run.proof /\ run'.copied = run.copied
    BY <1>0, <1>13 DEF RunFields, WriteManifest, Goto
  <2> QED BY <1>13, <2>1 DEF Stores, Writes, SameReport, Keep, WriteManifest, At, Create, Flush
<1>14. CASE WriteSeal
  <2>1. /\ DOMAIN run' = RunFields /\ run'.pc = "receipt" /\ run'.state = run.state
        /\ run'.receipt = run.receipt /\ run'.proof = run.proof /\ run'.copied = run.copied
    BY <1>0, <1>14 DEF RunFields, WriteSeal, Goto
  <2>2. durable' = durable \cup {}
    BY <1>14 DEF WriteSeal
  <2> QED BY <1>14, <2>1, <2>2 DEF Stores, Writes, SameReport, Keep, WriteSeal, At, Create
<1>15. CASE ReturnReceipt
  <2>1. /\ DOMAIN run' = RunFields /\ run'.pc = "verify" /\ run'.state = "receipt-returned-unverified"
        /\ run'.receipt = TRUE /\ run'.proof = run.proof /\ run'.copied = run.copied
    BY <1>0, <1>15 DEF RunFields, ReturnReceipt
  <2>2. disk' = disk \cup {}
    BY <1>15 DEF ReturnReceipt
  <2> QED BY <1>15, <2>1, <2>2 DEF Receives, Writes, Keep, ReturnReceipt, At, Flush
<1>16. ASSUME NEW f \in Files, MatchRetained(f) PROVE DOMAIN run' = RunFields /\ (Raises \/ Matches)
  <2>0. run.pc = "retained" /\ power /\ run.pc \in Working
    BY <1>16, <1>W DEF MatchRetained, At, Received
  <2>1. CASE object[f].content = "good"
    <3>1. /\ DOMAIN run' = RunFields
          /\ IF run.todo = {f} THEN run'.pc = "again" /\ run'.state = "verified-orphan" ELSE run'.pc = run.pc /\ run'.state = run.state
          /\ run'.receipt = run.receipt /\ run'.proof = run.proof /\ run'.copied = run.copied
      BY <1>0, <1>16, <2>1 DEF RunFields, MatchRetained
    <3> QED BY <1>16, <2>0, <2>1, <3>1 DEF Matches, AtRest, SameReport, Keep, MatchRetained
  <2> QED BY <1>16, <2>0, <2>1, <1>R DEF MatchRetained
<1>17. CASE RecheckAgain
  <2>0. run.pc = "again" /\ power /\ run.pc \in Working
    BY <1>17, <1>W DEF RecheckAgain, At, Received
  <2>1. CASE Unchanged
    <3>1. /\ DOMAIN run' = RunFields /\ run'.pc = "proof" /\ run'.state = run.state
          /\ run'.receipt = run.receipt /\ run'.proof = run.proof /\ run'.copied = run.copied
      BY <1>0, <1>17, <2>1 DEF RunFields, RecheckAgain
    <3> QED BY <1>17, <2>0, <2>1, <3>1 DEF Matches, AtRest, SameReport, Keep, RecheckAgain
  <2> QED BY <1>17, <2>0, <2>1, <1>R DEF RecheckAgain
<1>18. CASE AllocateProof
  <2>1. /\ DOMAIN run' = RunFields /\ run'.pc = "artifacts" /\ run'.state = run.state
        /\ run'.receipt = run.receipt /\ run'.proof = TRUE /\ run'.copied = run.copied
    BY <1>0, <1>18 DEF RunFields, AllocateProof
  <2>2. durable' = durable \cup {}
    BY <1>18 DEF AllocateProof
  <2> QED BY <1>18, <2>1, <2>2 DEF Names, Writes, Keep, AllocateProof, At, Create
<1>19. ASSUME NEW name \in Artifacts, PublishArtifact(name) PROVE DOMAIN run' = RunFields /\ Publishes
  <2>1. durable' = durable \cup {} /\ run' = run
    BY <1>19 DEF PublishArtifact
  <2> QED BY <1>0, <1>19, <2>1 DEF Publishes, Writes, SameReport, Keep, PublishArtifact, At, Create
<1>20. CASE CloseProof
  <2>1. /\ DOMAIN run' = RunFields /\ run'.pc = "complete" /\ run'.state = run.state
        /\ run'.receipt = run.receipt /\ run'.proof = run.proof /\ run'.copied = run.copied
    BY <1>0, <1>20 DEF RunFields, CloseProof, Goto
  <2>2. disk' = disk \cup {}
    BY <1>20 DEF CloseProof
  <2> QED BY <1>20, <2>1, <2>2 DEF Publishes, Writes, SameReport, Keep, CloseProof, At, Flush
<1>21. CASE PublishComplete
  <2>1. CASE Flush({"COMPLETE", "proof"}) /\ run' = [run EXCEPT !.pc = "check", !.pass = StartPass]
    <3>1. /\ DOMAIN run' = RunFields /\ run'.pc = "check" /\ run'.state = run.state
          /\ run'.receipt = run.receipt /\ run'.proof = run.proof /\ run'.copied = run.copied
      BY <1>0, <2>1 DEF RunFields
    <3> QED BY <1>21, <2>1, <3>1 DEF Publishes, Writes, SameReport, Keep, PublishComplete, At, Create, Flush
  <2>2. CASE UNCHANGED durable /\ run' = [run EXCEPT !.pc = "failing", !.error = "storage"]
    <3>1. /\ DOMAIN run' = RunFields /\ run'.pc = "failing" /\ run'.state = run.state
          /\ run'.receipt = run.receipt /\ run'.proof = run.proof /\ run'.copied = run.copied
      BY <1>0, <2>2 DEF RunFields
    <3>2. durable' = durable \cup {}
      BY <2>2
    <3> QED BY <1>21, <2>2, <3>1, <3>2 DEF Publishes, Writes, SameReport, Keep, PublishComplete, At, Create
  <2> QED BY <1>21, <2>1, <2>2 DEF PublishComplete
<1>22. ASSUME NEW f \in Files, CheckSource(f) PROVE DOMAIN run' = RunFields /\ (Raises \/ Rehashes(f))
  <2>0. run.pc = "checksource" /\ power /\ run.pc \in Working /\ f \in run.todo
    BY <1>22, <1>W DEF CheckSource, At
  <2>1. CASE object[f].content = "good"
    <3>1. /\ DOMAIN run' = RunFields /\ run'.todo = run.todo \ {f} /\ run'.state = run.state
          /\ run'.pc = IF run.todo = {f} THEN "return" ELSE run.pc
          /\ run'.receipt = run.receipt /\ run'.proof = run.proof /\ run'.copied = run.copied
      BY <1>0, <1>22, <2>1 DEF RunFields, CheckSource
    <3> QED BY <1>22, <2>0, <2>1, <3>1 DEF Rehashes, AtRest, SameReport, Keep, CheckSource
  <2> QED BY <1>22, <2>0, <2>1, <1>R DEF CheckSource
<1>23. CASE ReturnResult
  <2>1. /\ DOMAIN run' = RunFields /\ run'.pc = "closing" /\ run'.state = run.state
        /\ run'.receipt = run.receipt /\ run'.proof = run.proof /\ run'.copied = run.copied
    BY <1>0, <1>23 DEF RunFields, ReturnResult, Goto
  <2> QED BY <1>23, <2>1 DEF Ends, AtRest, SameReport, Keep, ReturnResult, At
<1>P. \A reason : Report(reason).written /\ Report(reason).state = run.state /\ Report(reason).receipt = run.receipt /\ Report(reason).proof = run.proof
  BY SMT DEF Report
<1>24. CASE Retain
  <2>1. /\ DOMAIN run' = RunFields /\ run'.pc = "over" /\ run'.state = run.state
        /\ run'.receipt = run.receipt /\ run'.proof = run.proof /\ run'.copied = run.copied
    BY <1>0, <1>24 DEF RunFields, Retain, Goto
  <2>2. outcome' \in {"refused", "interrupted"}
    BY <1>24 DEF Retain, Answer
  <2>3. failure' = failure \/ (failure'.written /\ failure'.state = run.state /\ failure'.receipt = run.receipt /\ failure'.proof = run.proof)
    BY <1>24, <1>P DEF Retain
  <2> QED BY <1>24, <2>1, <2>2, <2>3 DEF Concludes, SameReport, Retain, At
<1>25. CASE Close
  <2>1. /\ DOMAIN run' = RunFields /\ run'.pc = "over" /\ run'.state = run.state
        /\ run'.receipt = run.receipt /\ run'.proof = run.proof /\ run'.copied = run.copied
    BY <1>0, <1>25 DEF RunFields, Close, Goto
  <2>2. outcome' \in {"result", "refused", "interrupted"} /\ (outcome' = "result" => failure' = failure)
    BY <1>25 DEF Close
  <2>3. failure' = failure \/ (failure'.written /\ failure'.state = run.state /\ failure'.receipt = run.receipt /\ failure'.proof = run.proof)
    BY <1>25, <1>P DEF Close
  <2> QED BY <1>25, <2>1, <2>2, <2>3 DEF Concludes, SameReport, Close, At
<1>26. ASSUME NEW reason, Fail(reason) PROVE DOMAIN run' = RunFields /\ Raises
  BY <1>26, <1>R DEF Fail
<1>27. CASE StartReplay \/ ReplaySource \/ (\E f \in Files : Replay(f) \/ Interfere(f)) \/ PowerLoss
  <2>1. run' = run
    BY <1>27 DEF StartReplay, ReplaySource, Replay, Interfere, PowerLoss
  <2> QED BY <1>0, <1>27, <2>1
<1> QED
  BY <1>1, <1>2, <1>3, <1>4, <1>5, <1>6, <1>7, <1>8, <1>10, <1>11, <1>12, <1>13, <1>14, <1>15, <1>16, <1>17, <1>18, ZenonT(40),
     <1>19, <1>20, <1>21, <1>22, <1>23, <1>24, <1>25, <1>26, <1>27 DEF acqNext

\* What failure.json would say stays true.
LEMMA ReportedStep ==
    ASSUME AcqShape, Reported, Kept, Proceeds \/ Replays \/ (\E f \in Files : Interfere(f)) \/ PowerLoss
    PROVE  Reported'
<1>1. CASE Raises
  BY <1>1, SMT DEF Reported, Kept, Unstarted, Storing, Received, Proving, Checking, Raises, AtRest, SameReport, Working, Labels
<1>2. CASE Prepares
  BY <1>2, SMT DEF Reported, Kept, Unstarted, Storing, Received, Proving, Checking, Prepares, AtRest, SameReport
<1>3. CASE Allocates
  BY <1>3, SMT DEF Reported, Kept, Unstarted, Storing, Received, Proving, Checking, Allocates, SameReport
<1>4. CASE \E f \in Files : Copies(f)
  BY <1>4, SMT DEF Reported, Kept, Unstarted, Storing, Received, Proving, Checking, Copies
<1>5. CASE Compares("readback", "manifest") \/ Compares("verify", "retained") \/ Compares("check", "checksource")
  BY <1>5, SMT DEF Reported, Kept, Unstarted, Storing, Received, Proving, Checking, Compares, AtRest, SameReport
<1>6. CASE Stores
  BY <1>6, SMT DEF Reported, Kept, Unstarted, Storing, Received, Proving, Checking, Stores, Writes, SameReport
<1>7. CASE Receives
  BY <1>7, SMT DEF Reported, Kept, Unstarted, Storing, Received, Proving, Checking, Receives, Writes
<1>8. CASE Matches
  BY <1>8, SMT DEF Reported, Kept, Unstarted, Storing, Received, Proving, Checking, Matches, AtRest, SameReport
<1>9. CASE Names
  BY <1>9, SMT DEF Reported, Kept, Unstarted, Storing, Received, Proving, Checking, Names, Writes
<1>10. CASE Publishes
  BY <1>10, SMT DEF Reported, Kept, Unstarted, Storing, Received, Proving, Checking, Publishes, Writes, SameReport
<1>11. CASE \E f \in Files : Rehashes(f)
  BY <1>11, SMT DEF Reported, Kept, Unstarted, Storing, Received, Proving, Checking, Rehashes, AtRest, SameReport
<1>12. CASE Ends("return", "closing")
  BY <1>12, SMT DEF Reported, Kept, Unstarted, Storing, Received, Proving, Checking, Ends, AtRest, SameReport
<1>13. CASE Concludes("failing") \/ Concludes("closing")
  BY <1>13, SMT DEF Reported, Kept, Unstarted, Storing, Received, Proving, Checking, Concludes, SameReport
<1>14. CASE Replays
  <2>1. UNCHANGED <<run, disk, durable, outcome, power>>
    BY <1>14 DEF Replays, StartReplay, ReplaySource, Replay
  <2> QED BY <2>1 DEF Reported
<1>15. CASE \E f \in Files : Interfere(f)
  BY <1>15, SMT DEF Reported, Kept, Unstarted, Storing, Received, Proving, Checking, Interfere
<1>16. CASE PowerLoss
  BY <1>16, SMT DEF Reported, Kept, Unstarted, Storing, Received, Proving, Checking, PowerLoss
<1> QED
  BY <1>1, <1>2, <1>3, <1>4, <1>5, <1>6, <1>7, <1>8, <1>9, <1>10, <1>11, <1>12, <1>13, <1>14, <1>15, <1>16 DEF Proceeds

\* What was flushed stays, and is flushed before what rests on it.
LEMMA KeptStep ==
    ASSUME AcqShape, Reported, Kept, Concluded, Proceeds \/ Replays \/ (\E f \in Files : Interfere(f)) \/ PowerLoss
    PROVE  Kept'
<1>1. CASE Raises
  BY <1>1, SMT DEF Reported, Kept, Concluded, Unstarted, Storing, Received, Proving, Checking, Raises, AtRest, SameReport, Working, Labels
<1>2. CASE Prepares
  BY <1>2, SMT DEF Reported, Kept, Concluded, Unstarted, Storing, Received, Proving, Checking, Prepares, AtRest, SameReport
<1>3. CASE Allocates
  BY <1>3, SMT DEF Reported, Kept, Concluded, Unstarted, Storing, Received, Proving, Checking, Allocates, SameReport
<1>4. CASE \E f \in Files : Copies(f)
  BY <1>4, SMT DEF Reported, Kept, Concluded, Unstarted, Storing, Received, Proving, Checking, Copies
<1>5. CASE Compares("readback", "manifest") \/ Compares("verify", "retained") \/ Compares("check", "checksource")
  BY <1>5, SMT DEF Reported, Kept, Concluded, Unstarted, Storing, Received, Proving, Checking, Compares, AtRest, SameReport
<1>6. CASE Stores
  BY <1>6, SMT DEF Reported, Kept, Concluded, Unstarted, Storing, Received, Proving, Checking, Stores, Writes, SameReport
<1>7. CASE Receives
  BY <1>7, SMT DEF Reported, Kept, Concluded, Unstarted, Storing, Received, Proving, Checking, Receives, Writes
<1>8. CASE Matches
  BY <1>8, SMT DEF Reported, Kept, Concluded, Unstarted, Storing, Received, Proving, Checking, Matches, AtRest, SameReport
<1>9. CASE Names
  BY <1>9, SMT DEF Reported, Kept, Concluded, Unstarted, Storing, Received, Proving, Checking, Names, Writes
<1>10. CASE Publishes
  <2>1. CASE \E name \in Artifacts : Writes("artifacts", "artifacts", {name}, {})
    BY <1>10, <2>1, SMTT(40) DEF Reported, Kept, Concluded, Storing, Checking, Publishes, Writes, SameReport, Artifacts
  <2>2. CASE Artifacts \subseteq disk /\ Writes("artifacts", "complete", {}, Artifacts)
    BY <1>10, <2>2, SMTT(40) DEF Reported, Kept, Concluded, Storing, Checking, Publishes, Writes, SameReport, Artifacts
  <2>3. CASE Writes("complete", "check", {"COMPLETE"}, {"COMPLETE", "proof"})
    BY <1>10, <2>3, SMTT(40) DEF Reported, Kept, Concluded, Storing, Checking, Proving, Publishes, Writes, SameReport, Artifacts
  <2>4. CASE Writes("complete", "failing", {"COMPLETE"}, {})
    BY <1>10, <2>4, SMTT(40) DEF Reported, Kept, Concluded, Storing, Checking, Publishes, Writes, SameReport, Artifacts
  <2> QED BY <1>10, <2>1, <2>2, <2>3, <2>4, ZenonT(40) DEF Publishes
<1>11. CASE \E f \in Files : Rehashes(f)
  BY <1>11, SMT DEF Reported, Kept, Concluded, Unstarted, Storing, Received, Proving, Checking, Rehashes, AtRest, SameReport
<1>12. CASE Ends("return", "closing")
  BY <1>12, SMT DEF Reported, Kept, Concluded, Unstarted, Storing, Received, Proving, Checking, Ends, AtRest, SameReport
<1>13. CASE Concludes("failing") \/ Concludes("closing")
  BY <1>13, SMT DEF Reported, Kept, Concluded, Unstarted, Storing, Received, Proving, Checking, Concludes, SameReport
<1>14. CASE Replays
  <2>1. UNCHANGED <<run, disk, durable, outcome, power>>
    BY <1>14 DEF Replays, StartReplay, ReplaySource, Replay
  <2> QED BY <2>1 DEF Kept
<1>15. CASE \E f \in Files : Interfere(f)
  BY <1>15, SMT DEF Reported, Kept, Concluded, Unstarted, Storing, Received, Proving, Checking, Interfere
<1>16. CASE PowerLoss
  BY <1>16, SMT DEF Reported, Kept, Concluded, Unstarted, Storing, Received, Proving, Checking, PowerLoss
<1> QED
  BY <1>1, <1>2, <1>3, <1>4, <1>5, <1>6, <1>7, <1>8, <1>9, <1>10, <1>11, <1>12, <1>13, <1>14, <1>15, <1>16 DEF Proceeds

\* The answer, the record and the replay go on agreeing.
LEMMA ConcludedStep ==
    ASSUME AcqShape, Reported, Concluded, Proceeds \/ Replays \/ (\E f \in Files : Interfere(f)) \/ PowerLoss
    PROVE  Concluded'
<1>1. CASE Raises
  BY <1>1, SMT DEF Reported, Concluded, Unstarted, Storing, Received, Proving, Checking, Raises, AtRest, SameReport, Working, Labels
<1>2. CASE Prepares
  BY <1>2, SMT DEF Reported, Concluded, Unstarted, Storing, Received, Proving, Checking, Prepares, AtRest, SameReport
<1>3. CASE Allocates
  BY <1>3, SMTT(40) DEF Reported, Concluded, Unstarted, Storing, Received, Proving, Checking, Allocates, SameReport
<1>4. CASE \E f \in Files : Copies(f)
  BY <1>4, SMT DEF Reported, Concluded, Unstarted, Storing, Received, Proving, Checking, Copies
<1>5. CASE Compares("readback", "manifest") \/ Compares("verify", "retained") \/ Compares("check", "checksource")
  BY <1>5, SMT DEF Reported, Concluded, Unstarted, Storing, Received, Proving, Checking, Compares, AtRest, SameReport
<1>6. CASE Stores
  BY <1>6, SMT DEF Reported, Concluded, Unstarted, Storing, Received, Proving, Checking, Stores, Writes, SameReport
<1>7. CASE Receives
  BY <1>7, SMT DEF Reported, Concluded, Unstarted, Storing, Received, Proving, Checking, Receives, Writes
<1>8. CASE Matches
  BY <1>8, SMT DEF Reported, Concluded, Unstarted, Storing, Received, Proving, Checking, Matches, AtRest, SameReport
<1>9. CASE Names
  BY <1>9, SMT DEF Reported, Concluded, Unstarted, Storing, Received, Proving, Checking, Names, Writes
<1>10. CASE Publishes
  BY <1>10, SMTT(40) DEF Reported, Concluded, Unstarted, Storing, Received, Proving, Checking, Publishes, Writes, SameReport
<1>11. CASE \E f \in Files : Rehashes(f)
  BY <1>11, SMT DEF Reported, Concluded, Unstarted, Storing, Received, Proving, Checking, Rehashes, AtRest, SameReport
<1>12. CASE Ends("return", "closing")
  BY <1>12, SMT DEF Reported, Concluded, Unstarted, Storing, Received, Proving, Checking, Ends, AtRest, SameReport
<1>13. CASE Concludes("failing") \/ Concludes("closing")
  BY <1>13, SMT DEF Reported, Concluded, Unstarted, Storing, Received, Proving, Checking, Concludes, SameReport
<1>14. CASE Replays
  <2>1. UNCHANGED <<run, outcome, failure, power>> /\ outcome = "result"
    <3>1. CASE StartReplay
      BY <3>1 DEF StartReplay
    <3>2. CASE ReplaySource
      BY <3>2 DEF ReplaySource, Concluded
    <3>3. CASE \E f \in Files : Replay(f)
      BY <3>3 DEF Replay, Concluded
    <3> QED BY <1>14, <3>1, <3>2, <3>3 DEF Replays
  <2> QED BY <2>1 DEF Concluded
<1>15. CASE \E f \in Files : Interfere(f)
  BY <1>15, SMT DEF Reported, Concluded, Unstarted, Storing, Received, Proving, Checking, Interfere
<1>16. CASE PowerLoss
  BY <1>16, SMT DEF Reported, Concluded, Unstarted, Storing, Received, Proving, Checking, PowerLoss
<1> QED
  BY <1>1, <1>2, <1>3, <1>4, <1>5, <1>6, <1>7, <1>8, <1>9, <1>10, <1>11, <1>12, <1>13, <1>14, <1>15, <1>16, ZenonT(40) DEF Proceeds
-----------------------------------------------------------------------------
\* What one file of the copy leaves behind.
LEMMA CopyStep ==
    ASSUME AcqShape, Stored, NEW f \in Files, Copies(f)
    PROVE  \/ /\ run.pass.phase = "walk" /\ run'.pc = "copy" /\ PassOk(run'.pass) /\ run'.copied = run.copied /\ object' = object
              /\ \/ run'.pass.phase = "walk"
                 \/ run'.pass.phase = "read" /\ run'.pass.todo = Files
           \/ /\ run.pass.phase = "read" /\ run'.pc = "copy" /\ PassOk(run'.pass) /\ run'.copied = run.copied
              /\ object' = [object EXCEPT ![f] = Written(staged[f].content)]
              /\ run'.pass.got = [run.pass.got EXCEPT ![f] = staged[f].content]
              /\ \/ run'.pass.phase = "read" /\ run'.pass.todo = run.pass.todo \ {f}
                 \/ run'.pass.phase = "again" /\ run.pass.todo = {f}
           \/ /\ run.pass.phase = "again" /\ run'.pc = "copy" /\ PassOk(run'.pass) /\ run'.copied = run.copied /\ object' = object
              /\ run'.pass.phase = "again" /\ run'.pass.got = run.pass.got
           \/ /\ run.pass.phase = "again" /\ run'.pc = "readback" /\ object' = object
              /\ run.pass.got \in Inventories /\ run'.copied = Receipt(run.pass.got)
<1> DEFINE next == NextPass(run.pass, f, staged)
<1>1. /\ PassOk(run.pass) /\ run.pass.phase \in Passing /\ f \in run.pass.todo /\ staged \in Trees
      /\ object' = IF run.pass.phase = "read" THEN [object EXCEPT ![f] = Written(staged[f].content)] ELSE object
      /\ \/ next.phase = "done" /\ run'.pc = "readback" /\ run'.copied = Evidence(next)
         \/ next.phase # "done" /\ run'.pc = "copy" /\ run'.copied = run.copied /\ run'.pass = next
  BY DEF Copies, Stored, AcqShape
<1>2. next = NextPass(run.pass, f, staged)
  OBVIOUS
<1> HIDE DEF next
<1>0. PassOk(run.pass) /\ f \in run.pass.todo /\ staged \in Trees
  BY <1>1
<1>3. CASE run.pass.phase = "walk"
  <2>1. /\ PassOk(next) /\ next.got = run.pass.got /\ next.stamps = [run.pass.stamps EXCEPT ![f] = staged[f].stamp]
        /\ IF run.pass.todo = {f} THEN next.phase = "read" /\ next.todo = Files
                                 ELSE next.phase = "walk" /\ next.todo = run.pass.todo \ {f}
    BY ONLY <1>0, <1>2, <1>3, WalkStep
  <2> QED BY <1>1, <1>3, <2>1
<1>4. CASE run.pass.phase = "read"
  <2>1. /\ PassOk(next) /\ next.stamps = run.pass.stamps /\ next.got = [run.pass.got EXCEPT ![f] = staged[f].content]
        /\ IF run.pass.todo = {f} THEN next.phase = "again" /\ next.todo = Files
                                 ELSE next.phase = "read" /\ next.todo = run.pass.todo \ {f}
    BY ONLY <1>0, <1>2, <1>4, ReadStep
  <2> QED BY <1>1, <1>4, <2>1
<1>5. CASE run.pass.phase = "again"
  <2>1. /\ PassOk(next) /\ next.stamps = run.pass.stamps /\ next.got = run.pass.got /\ next.todo = run.pass.todo \ {f}
        /\ IF run.pass.todo = {f} THEN next.phase = "done" ELSE next.phase = "again"
    BY ONLY <1>0, <1>2, <1>5, AgainStep
  <2>2. Evidence(next) = Receipt(run.pass.got) /\ run.pass.got \in Inventories
    BY <1>1, <2>1 DEF Evidence, Receipt, PassOk
  <2> QED BY <1>1, <1>5, <2>1, <2>2
<1> QED BY <1>1, <1>3, <1>4, <1>5 DEF Passing

\* A step after the copy leaves what is stored alone.
LEMMA StoredFrame ==
    ASSUME Stored, UNCHANGED <<object, changes>>, run'.copied = run.copied, run'.pc # "copy",
           run'.pc \in Copied \/ outcome' = "result" => run.pc \in Copied \/ outcome = "result",
           run'.pc = "checksource" => run'.todo = Files,
           run'.pc \in {"return", "closing"} \/ outcome' = "result" => run.pc \in {"return", "closing"} \/ outcome = "result"
    PROVE  Stored'
BY DEF Stored, Whole

\* Every step keeps what is stored as the receipt says, while nobody interferes.
LEMMA StoredStep ==
    ASSUME AcqShape, Stored, Concluded, Proceeds \/ Replays \/ (\E f \in Files : Interfere(f)) \/ PowerLoss
    PROVE  Stored'
<1>1. CASE Raises
  BY <1>1, StoredFrame DEF Raises, AtRest, SameReport, Concluded, Copied, Working, Received, Proving, Checking
<1>2. CASE Prepares
  BY <1>2, StoredFrame, SMT DEF Prepares, AtRest, SameReport, Copied, Unstarted, Received, Proving, Checking
<1>3. CASE Allocates
  <2>1. \A f \in Files : ~HasRead(run'.pass, f)
    BY <1>3, FirstPass DEF Allocates, HasRead
  <2>2. run'.pc = "copy" /\ PassOk(run'.pass) /\ run'.pass.phase \in Passing /\ outcome' # "result"
    BY <1>3, FirstPass DEF Allocates, Passing, Concluded
  <2> QED BY <2>1, <2>2 DEF Stored, Copied, Received, Proving, Checking
<1>4. ASSUME NEW f \in Files, Copies(f) PROVE Stored'
  <2>0. outcome' # "result" /\ changes' = changes
    BY <1>4 DEF Copies, Concluded
  <2>1. CASE run.pass.phase = "walk"
    <3>1. run'.pc = "copy" /\ PassOk(run'.pass) /\ run'.pass.phase \in Passing /\ \A g \in Files : ~HasRead(run'.pass, g)
      BY <1>4, <2>1, CopyStep DEF HasRead, Passing
    <3> QED BY <2>0, <3>1 DEF Stored, Copied, Received, Proving, Checking
  <2>2. CASE run.pass.phase = "read"
    <3>1. /\ run'.pc = "copy" /\ PassOk(run'.pass) /\ run'.pass.phase \in Passing
          /\ object' = [object EXCEPT ![f] = Written(staged[f].content)]
          /\ run'.pass.got = [run.pass.got EXCEPT ![f] = staged[f].content]
          /\ \A g \in Files : HasRead(run'.pass, g) => g = f \/ HasRead(run.pass, g)
      BY <1>4, <2>2, CopyStep DEF HasRead, Passing
    <3>2. DOMAIN object = Files /\ DOMAIN run.pass.got = Files /\ run.pc = "copy"
      BY <1>4 DEF AcqShape, Stored, Trees, PassOk, Inventories, Copies
    <3>3. ASSUME changes = 0, NEW g \in Files, HasRead(run'.pass, g) PROVE object'[g] = Written(run'.pass.got[g])
      BY <3>1, <3>2, <3>3 DEF Stored
    <3> QED BY <2>0, <3>1, <3>3 DEF Stored, Copied, Received, Proving, Checking
  <2>3. CASE run.pass.phase = "again" /\ run'.pc = "copy"
    <3>1. PassOk(run'.pass) /\ run'.pass.phase \in Passing /\ run'.pass.got = run.pass.got /\ object' = object
      BY <1>4, <2>3, CopyStep DEF Passing
    <3>2. ASSUME changes = 0, NEW g \in Files PROVE object'[g] = Written(run'.pass.got[g])
      BY <1>4, <2>3, <3>1, <3>2 DEF Stored, HasRead, Copies
    <3> QED BY <2>0, <2>3, <3>1, <3>2 DEF Stored, Copied, Received, Proving, Checking
  <2>4. CASE run.pass.phase = "again" /\ run'.pc = "readback"
    <3>1. object' = object /\ run'.copied = Receipt(run.pass.got)
      BY <1>4, <2>4, CopyStep
    <3>2. run'.copied.inventory = run.pass.got
      BY <3>1, SMT DEF Receipt
    <3>4. run'.copied = Receipt(run'.copied.inventory)
      BY <3>1, <3>2
    <3>3. ASSUME changes = 0, NEW g \in Files PROVE object'[g] = Written(run'.copied.inventory[g])
      BY <1>4, <2>4, <3>1, <3>2, <3>3 DEF Stored, HasRead, Copies
    <3> QED BY <2>0, <2>4, <3>3, <3>4 DEF Stored
  <2>5. run.pass.phase \in Passing /\ run'.pc \in {"copy", "readback"}
    BY <1>4 DEF Stored, Copies
  <2> QED BY <2>1, <2>2, <2>3, <2>4, <2>5 DEF Passing
<1>5. CASE Compares("readback", "manifest") \/ Compares("verify", "retained") \/ Compares("check", "checksource")
  BY <1>5, StoredFrame DEF Compares, AtRest, SameReport, Copied, Received, Checking
<1>6. CASE Stores
  BY <1>6, StoredFrame DEF Stores, Writes, Copied
<1>7. CASE Receives
  BY <1>7, StoredFrame DEF Receives, Writes, Copied
<1>8. CASE Matches
  BY <1>8, StoredFrame DEF Matches, AtRest, SameReport, Copied, Received
<1>9. CASE Names
  BY <1>9, StoredFrame DEF Names, Writes, Copied, Received
<1>10. CASE Publishes
  BY <1>10, StoredFrame DEF Publishes, Writes, SameReport, Copied, Proving
<1>11. ASSUME NEW f \in Files, Rehashes(f) PROVE Stored'
  <2>1. UNCHANGED <<object, changes, outcome>> /\ run'.copied = run.copied /\ run.pc \in Copied /\ run.pc = "checksource"
    BY <1>11 DEF Rehashes, AtRest, SameReport, Copied, Checking
  <2>2. CASE run.todo = {f}
    <3>1. run'.pc = "return" /\ (changes = 0 => Whole(object))
      BY <1>11, <2>1, <2>2 DEF Rehashes, Stored, Whole
    <3> QED BY <2>1, <3>1 DEF Stored, Whole
  <2>3. CASE run.todo # {f}
    <3>1. run'.pc = "checksource" /\ (changes = 0 => \A g \in Files \ run'.todo : object[g].content = "good")
      BY <1>11, <2>1, <2>3 DEF Rehashes, Stored
    <3> QED BY <2>1, <3>1 DEF Stored, Whole
  <2> QED BY <2>2, <2>3
<1>12. CASE Ends("return", "closing")
  BY <1>12, StoredFrame DEF Ends, AtRest, SameReport, Copied, Checking
<1>13. CASE Concludes("failing") \/ Concludes("closing")
  BY <1>13, StoredFrame DEF Concludes, SameReport, Copied, Checking, Received, Proving
<1>14. CASE Replays \/ PowerLoss
  <2>1. UNCHANGED <<run, object, outcome, changes>>
    BY <1>14 DEF Replays, StartReplay, ReplaySource, Replay, PowerLoss
  <2> QED BY <2>1 DEF Stored, Whole, Copied
<1>15. CASE \E f \in Files : Interfere(f)
  <2>1. changes' # 0
    BY <1>15, SMT DEF Interfere, AcqShape
  <2>2. run' = run
    BY <1>15 DEF Interfere
  <2>3. outcome' = outcome
    BY <1>15 DEF Interfere
  <2> QED BY <2>1, <2>2, <2>3 DEF Stored
<1> QED
  BY <1>1, <1>2, <1>3, <1>4, <1>5, <1>6, <1>7, <1>8, <1>9, <1>10, <1>11, <1>12, <1>13, <1>14, <1>15 DEF Proceeds
-----------------------------------------------------------------------------
\* The files are what they were, except one that was copied, staged or changed.
LEMMA ChangedFile ==
    ASSUME NEW dir \in Trees, NEW f \in Files, NEW content \in Contents, NEW file \in {Written(content), Changed(dir[f], content)}
    PROVE  [dir EXCEPT ![f] = file] \in Trees
<1>1. dir[f].stamp \in Nat
  BY SMT DEF Trees
<1>2. Written(content) \in [content : Contents, stamp : Nat]
  BY SMT DEF Written
<1>3. Changed(dir[f], content) \in [content : Contents, stamp : Nat]
  BY <1>1, SMT DEF Changed
<1>4. file \in [content : Contents, stamp : Nat]
  BY <1>2, <1>3
<1> QED BY ONLY <1>4, dir \in Trees, SMT DEF Trees

\* The staged files stay files.
LEMMA StagedStep ==
    ASSUME AcqShape, acqNext
    PROVE  staged' \in Trees
<1>0. staged \in Trees
  BY DEF AcqShape
<1>1. ASSUME NEW f \in Files, Materialize(f) PROVE staged' \in Trees
  <2>1. "good" \in Contents
    BY DEF Contents
  <2>2. [staged EXCEPT ![f] = Written("good")] \in Trees
    BY <1>0, <2>1, ChangedFile
  <2> QED BY <1>0, <1>1, <2>2 DEF Materialize, Raise
<1>2. ASSUME NEW f \in Files, Interfere(f) PROVE staged' \in Trees
  <2>1. "good" \in Contents /\ "other" \in Contents
    BY DEF Contents
  <2>2. [staged EXCEPT ![f] = Toggle(staged[f])] \in Trees
    BY <1>0, <2>1, ChangedFile DEF Toggle
  <2> QED BY <1>0, <1>2, <2>2 DEF Interfere
<1>3. CASE \/ Input \/ Load \/ MakeAttempt \/ Recheck \/ Allocate \/ WriteManifest \/ WriteSeal \/ ReturnReceipt
           \/ RecheckAgain \/ AllocateProof \/ CloseProof \/ PublishComplete \/ ReturnResult \/ Retain \/ Close
  BY <1>0, <1>3 DEF Input, Load, MakeAttempt, Recheck, Allocate, WriteManifest, WriteSeal, ReturnReceipt, RecheckAgain,
     AllocateProof, CloseProof, PublishComplete, ReturnResult, Retain, Close, Raise
<1>4. ASSUME NEW f \in Files, \/ MatchStaged(f) \/ CopyFile(f) \/ ReadBack(f) \/ VerifyCapture(f) \/ MatchRetained(f) \/ Check(f)
                              \/ CheckSource(f) \/ Replay(f)
      PROVE  staged' \in Trees
  BY <1>0, <1>4 DEF MatchStaged, CopyFile, ReadBack, VerifyCapture, MatchRetained, Check, CheckSource, Replay, Reread, Raise
<1>5. CASE \/ \E name \in Artifacts : PublishArtifact(name)
           \/ \E reason \in {"storage", "interrupt"} : Fail(reason)
           \/ StartReplay \/ ReplaySource \/ PowerLoss
  BY <1>0, <1>5 DEF PublishArtifact, Fail, Raise, StartReplay, ReplaySource, PowerLoss
<1> QED BY <1>1, <1>2, <1>3, <1>4, <1>5 DEF acqNext

\* Types stay.
LEMMA ShapeStep ==
    ASSUME AcqShape, Stored, staged' \in Trees, DOMAIN run' = RunFields,
           Proceeds \/ Replays \/ (\E f \in Files : Interfere(f)) \/ PowerLoss
    PROVE  AcqShape'
<1>0. /\ object \in Trees /\ changes \in Nat /\ DOMAIN replay = {"pc", "pass", "shown"}
      /\ run.copied.inventory \in Inventories
  BY DEF AcqShape
<1>1. CASE Proceeds /\ ~\E f \in Files : Copies(f)
  <2>1. UNCHANGED <<object, changes, replay>> /\ run'.copied = run.copied
    BY <1>1 DEF Proceeds, Raises, Prepares, Allocates, Compares, Stores, Receives, Matches, Names, Publishes, Rehashes, Ends,
       Concludes, Writes, AtRest, SameReport
  <2> QED BY <1>0, <2>1 DEF AcqShape
<1>2. ASSUME NEW f \in Files, Copies(f) PROVE AcqShape'
  <2>1. UNCHANGED <<changes, replay>>
    BY <1>2 DEF Copies
  <2>2. staged[f].content \in Contents
    BY SMT DEF AcqShape, Trees
  <2>3. [object EXCEPT ![f] = Written(staged[f].content)] \in Trees
    BY <1>0, <2>2, ChangedFile
  <2>4. object' \in Trees
    BY <1>0, <1>2, <2>3 DEF Copies
  <2>5. \A inventory : Receipt(inventory).inventory = inventory
    BY SMT DEF Receipt
  <2>6. run'.copied.inventory \in Inventories
    BY <1>0, <1>2, <2>5, CopyStep
  <2> QED BY <1>0, <2>1, <2>4, <2>6 DEF AcqShape
<1>3. CASE Replays
  <2>1. UNCHANGED <<object, changes, run>>
    BY <1>3 DEF Replays, StartReplay, ReplaySource, Replay
  <2>2. DOMAIN replay' = {"pc", "pass", "shown"}
    BY <1>0, <1>3 DEF Replays, StartReplay, ReplaySource, Replay
  <2> QED BY <1>0, <2>1, <2>2 DEF AcqShape
<1>4. ASSUME NEW f \in Files, Interfere(f) PROVE AcqShape'
  <2>1. run' = run /\ DOMAIN replay' = {"pc", "pass", "shown"}
    BY <1>0, <1>4 DEF Interfere
  <2>2. changes' \in Nat
    BY <1>0, <1>4, SMT DEF Interfere
  <2>3. "good" \in Contents /\ "other" \in Contents
    BY DEF Contents
  <2>4. [object EXCEPT ![f] = Toggle(object[f])] \in Trees
    BY <1>0, <2>3, ChangedFile DEF Toggle
  <2>5. object' \in Trees
    BY <1>0, <1>4, <2>4 DEF Interfere
  <2> QED BY <1>0, <2>1, <2>2, <2>5 DEF AcqShape
<1>5. CASE PowerLoss
  BY <1>0, <1>5 DEF PowerLoss, AcqShape
<1> QED BY <1>1, <1>2, <1>3, <1>4, <1>5
-----------------------------------------------------------------------------
\* A result that was returned is on disk whole.
LEMMA ResultIsReplayable ==
    ASSUME Kept, Concluded, Stored, outcome = "result"
    PROVE  Replayable
<1>1. ReceiptOk(run.copied)
  <2>1. \A inventory : ReceiptOk(Receipt(inventory))
    BY SMT DEF ReceiptOk, Receipt
  <2> QED BY <2>1 DEF Stored
<1>2. {"object", "SEALED", "COMPLETE", "proof"} \subseteq disk
  BY SMT DEF Kept, Concluded
<1>3. {"entries", "manifest"} \cup Artifacts \subseteq disk
  BY <1>2, SMT DEF Kept
<1> QED BY <1>1, <1>2, <1>3, SMT DEF Replayable, ReadArtifacts, Published

\* What one file of a replay leaves behind.
LEMMA ReplayStep ==
    ASSUME AcqShape, Snapshot, run.copied = Receipt(run.copied.inventory), NEW f \in Files, Replay(f)
    PROVE  /\ replay'.shown = replay.shown /\ f \in replay.pass.todo /\ replay.pc = "reading"
           /\ UNCHANGED <<object, run, outcome, changes>>
           /\ \/ replay'.pc = "refused" /\ Refused(replay.pass, f, object)
              \/ /\ replay'.pc = "refused" /\ replay.pass.phase = "again" /\ replay.pass.got # run.copied.inventory
              \/ /\ ~Refused(replay.pass, f, object)
                 /\ \/ /\ replay.pass.phase = "walk" /\ replay'.pc = "reading" /\ PassOk(replay'.pass)
                       /\ replay'.pass.stamps = [replay.pass.stamps EXCEPT ![f] = object[f].stamp]
                       /\ \/ replay'.pass.phase = "walk" /\ replay'.pass.todo = replay.pass.todo \ {f}
                          \/ replay'.pass.phase = "read" /\ replay'.pass.todo = Files /\ replay.pass.todo = {f}
                    \/ /\ replay.pass.phase = "read" /\ replay'.pc = "reading" /\ PassOk(replay'.pass)
                       /\ replay'.pass.stamps = replay.pass.stamps
                       /\ replay'.pass.got = [replay.pass.got EXCEPT ![f] = object[f].content]
                       /\ \/ replay'.pass.phase = "read" /\ replay'.pass.todo = replay.pass.todo \ {f}
                          \/ replay'.pass.phase = "again" /\ replay'.pass.todo = Files /\ replay.pass.todo = {f}
                    \/ /\ replay.pass.phase = "again" /\ replay'.pc = "reading" /\ PassOk(replay'.pass)
                       /\ replay'.pass.stamps = replay.pass.stamps /\ replay'.pass.got = replay.pass.got
                       /\ replay'.pass.phase = "again" /\ replay'.pass.todo = replay.pass.todo \ {f}
                    \/ /\ replay.pass.phase = "again" /\ replay'.pc = "verified" /\ replay.pass.todo = {f}
                       /\ replay.pass.got = run.copied.inventory
<1> DEFINE next == NextPass(replay.pass, f, object)
           refused == Refused(replay.pass, f, object)
           differs == next.phase = "done" /\ Evidence(next) # run.copied
<1>1. /\ replay.pc = "reading" /\ f \in replay.pass.todo /\ UNCHANGED <<object, run, outcome, changes>>
      /\ replay' = IF refused \/ differs
                   THEN [replay EXCEPT !.pc = "refused"]
                   ELSE [replay EXCEPT !.pass = next, !.pc = IF next.phase = "done" THEN "verified" ELSE @]
  BY DEF Replay
<1>2. next = NextPass(replay.pass, f, object)
  OBVIOUS
<1>3. PassOk(replay.pass) /\ f \in replay.pass.todo /\ object \in Trees /\ replay.pass.phase \in Passing
  BY <1>1 DEF Snapshot, AcqShape
<1>4. DOMAIN replay = {"pc", "pass", "shown"} /\ run.copied = Receipt(run.copied.inventory)
  BY DEF AcqShape
<1>D. /\ differs <=> (next.phase = "done" /\ Evidence(next) # run.copied)
      /\ refused <=> Refused(replay.pass, f, object)
  OBVIOUS
<1> HIDE DEF next, refused, differs
<1>5. CASE refused \/ differs
  <2>1. replay'.pc = "refused" /\ replay'.shown = replay.shown
    BY <1>1, <1>4, <1>5
  <2>2. CASE differs
    <3>1. ~(replay.pass.phase = "walk")
      BY ONLY <1>2, <1>3, <1>D, <2>2, WalkStep, Zenon
    <3>2. ~(replay.pass.phase = "read")
      BY ONLY <1>2, <1>3, <1>D, <2>2, ReadStep, Zenon
    <3>3. replay.pass.phase = "again"
      BY <1>3, <3>1, <3>2 DEF Passing
    <3>4. next.got = replay.pass.got
      BY ONLY <1>2, <1>3, <3>3, AgainStep
    <3>5. replay.pass.got # run.copied.inventory
      BY <1>4, <1>D, <2>2, <3>4 DEF Evidence, Receipt
    <3> QED BY <1>1, <2>1, <3>3, <3>5
  <2> QED BY <1>1, <1>5, <1>D, <2>1, <2>2
<1>6. CASE ~(refused \/ differs)
  <2>1. replay'.pass = next /\ replay'.shown = replay.shown /\ replay'.pc = IF next.phase = "done" THEN "verified" ELSE "reading"
    BY <1>1, <1>4, <1>6
  <2>2. CASE replay.pass.phase = "walk"
    <3>1. /\ PassOk(next) /\ next.got = replay.pass.got /\ next.stamps = [replay.pass.stamps EXCEPT ![f] = object[f].stamp]
          /\ IF replay.pass.todo = {f} THEN next.phase = "read" /\ next.todo = Files
                                     ELSE next.phase = "walk" /\ next.todo = replay.pass.todo \ {f}
      BY ONLY <1>2, <1>3, <2>2, WalkStep
    <3> QED BY <1>1, <1>6, <1>D, <2>1, <2>2, <3>1, ZenonT(40)
  <2>3. CASE replay.pass.phase = "read"
    <3>1. /\ PassOk(next) /\ next.stamps = replay.pass.stamps /\ next.got = [replay.pass.got EXCEPT ![f] = object[f].content]
          /\ IF replay.pass.todo = {f} THEN next.phase = "again" /\ next.todo = Files
                                     ELSE next.phase = "read" /\ next.todo = replay.pass.todo \ {f}
      BY ONLY <1>2, <1>3, <2>3, ReadStep
    <3> QED BY <1>1, <1>6, <1>D, <2>1, <2>3, <3>1, ZenonT(40)
  <2>4. CASE replay.pass.phase = "again"
    <3>1. /\ PassOk(next) /\ next.stamps = replay.pass.stamps /\ next.got = replay.pass.got /\ next.todo = replay.pass.todo \ {f}
          /\ IF replay.pass.todo = {f} THEN next.phase = "done" ELSE next.phase = "again"
      BY ONLY <1>2, <1>3, <2>4, AgainStep
    <3>2. next.phase = "done" => Evidence(next) = run.copied
      BY <1>6, <1>D
    <3>3. Evidence(next) = run.copied => next.got = run.copied.inventory
      <4>1. Evidence(next).inventory = next.got
        BY SMT DEF Evidence
      <4> QED BY <4>1
    <3> QED BY <1>1, <1>6, <1>D, <2>1, <2>4, <3>1, <3>2, <3>3, ZenonT(40)
  <2> QED BY <1>3, <2>2, <2>3, <2>4 DEF Passing
<1> QED BY <1>5, <1>6

\* The call has answered before a replay begins.
LEMMA CallsPrecede ==
    ASSUME Proceeds, Concluded
    PROVE  replay' = replay /\ replay.pc = "idle"
<1>1. replay' = replay
  BY DEF Proceeds, Raises, Prepares, Allocates, Copies, Compares, Stores, Receives, Matches, Names, Publishes, Rehashes, Ends,
     Concludes, Writes, AtRest
<1>2. "over" \notin Working /\ "over" \notin Unstarted
  BY DEF Working, Unstarted
<1>3. run.pc # "over"
  BY <1>2 DEF Proceeds, Raises, Prepares, Allocates, Copies, Compares, Stores, Receives, Matches, Names, Publishes, Rehashes, Ends,
     Concludes, Writes
<1> QED BY <1>1, <1>3 DEF Concluded

\* Nobody touched the files: the replay goes through.
LEMMA UndisturbedStep ==
    ASSUME AcqShape, Kept, Concluded, Stored, Snapshot, Undisturbed,
           Proceeds \/ Replays \/ (\E f \in Files : Interfere(f)) \/ PowerLoss
    PROVE  Undisturbed'
<1>1. CASE Proceeds
  BY <1>1, CallsPrecede DEF Undisturbed
<1>2. CASE PowerLoss
  BY <1>2 DEF PowerLoss, Undisturbed
<1>3. CASE \E f \in Files : Interfere(f)
  <2>1. changes' # 0
    BY <1>3, SMT DEF Interfere, AcqShape
  <2> QED BY <2>1 DEF Undisturbed
<1>4. CASE Replays /\ changes # 0
  BY <1>4 DEF Replays, StartReplay, ReplaySource, Replay, Undisturbed
<1>5. CASE Replays /\ changes = 0
  <2>1. outcome = "result"
    BY <1>5 DEF Replays, StartReplay, ReplaySource, Replay, Concluded
  <2>2. Replayable /\ run.copied = Receipt(run.copied.inventory)
    BY <2>1, ResultIsReplayable DEF Stored
  <2>3. \A g \in Files : object[g].content = "good" /\ object[g].stamp = 0 /\ run.copied.inventory[g] = "good"
    <3>1. \A content : Written(content).stamp = 0 /\ Written(content).content = content
      BY SMT DEF Written
    <3>2. \A g \in Files : object[g] = Written(run.copied.inventory[g])
      BY <1>5, <2>1 DEF Stored
    <3>3. \A g \in Files : object[g].content = "good"
      BY <1>5, <2>1 DEF Stored, Whole
    <3>4. ASSUME NEW g \in Files
          PROVE  object[g].content = "good" /\ object[g].stamp = 0 /\ run.copied.inventory[g] = "good"
      BY <3>1, <3>2, <3>3, SMT
    <3> QED BY <3>4
  <2>4. CASE StartReplay
    <3>1. replay' = [pc |-> "reading", pass |-> StartPass, shown |-> AsReceived(object)]
      BY <2>2, <2>4 DEF StartReplay
    <3>2. replay'.pc = "reading" /\ replay'.pass = StartPass
      BY <3>1, SMT
    <3>3. \A g \in Files : ~Met(replay'.pass, g) /\ ~HasRead(replay'.pass, g)
      BY <3>2, FirstPass DEF Met, HasRead
    <3> QED BY <3>2, <3>3 DEF Undisturbed
  <2>5. CASE ReplaySource
    <3>1. replay'.pc = "accepted"
      BY <2>2, <2>3, <2>5 DEF ReplaySource, Whole, AcqShape
    <3> QED BY <3>1 DEF Undisturbed
  <2>6. ASSUME NEW f \in Files, Replay(f) PROVE Undisturbed'
    <3>0. /\ replay.pc = "reading" /\ f \in replay.pass.todo /\ PassOk(replay.pass) /\ replay.pass.phase \in Passing
          /\ changes' = changes
      BY <2>2, <2>6, ReplayStep DEF Snapshot
    <3>1. \A g \in Files : /\ Met(replay.pass, g) => replay.pass.stamps[g] = 0
                           /\ HasRead(replay.pass, g) => replay.pass.got[g] = "good"
      BY <1>5, <3>0 DEF Undisturbed
    <3>2. ~Refused(replay.pass, f, object)
      <4>1. object[f].content # "absent" /\ object[f].stamp = 0
        BY <2>3
      <4>2. replay.pass.phase # "walk" => replay.pass.stamps[f] = 0
        BY <3>0, <3>1 DEF Met, Passing
      <4> QED BY <4>1, <4>2 DEF Refused, Stamp
    <3>3. replay.pass.phase = "again" => replay.pass.got = run.copied.inventory
      <4>1. SUFFICES ASSUME replay.pass.phase = "again" PROVE replay.pass.got = run.copied.inventory
        OBVIOUS
      <4>2. \A g \in Files : replay.pass.got[g] = run.copied.inventory[g]
        <5>1. ASSUME NEW g \in Files PROVE replay.pass.got[g] = run.copied.inventory[g]
          <6>1. HasRead(replay.pass, g)
            BY <4>1 DEF HasRead
          <6> QED BY <2>3, <3>1, <6>1
        <5> QED BY <5>1
      <4>3. replay.pass.got \in [Files -> Contents] /\ run.copied.inventory \in [Files -> Contents]
        BY <3>0 DEF PassOk, Inventories, AcqShape
      <4> QED BY ONLY <4>2, <4>3
    <3>4. DOMAIN replay.pass.stamps = Files /\ DOMAIN replay.pass.got = Files
      BY <3>0 DEF PassOk, Inventories
    <3>5. CASE replay.pass.phase = "walk"
      <4>1. /\ replay'.pc = "reading" /\ replay'.pass.stamps = [replay.pass.stamps EXCEPT ![f] = object[f].stamp]
            /\ \A g \in Files : Met(replay'.pass, g) => g = f \/ Met(replay.pass, g)
            /\ \A g \in Files : ~HasRead(replay'.pass, g)
        <5>1. /\ replay'.pc = "reading" /\ replay'.pass.stamps = [replay.pass.stamps EXCEPT ![f] = object[f].stamp]
              /\ \/ replay'.pass.phase = "walk" /\ replay'.pass.todo = replay.pass.todo \ {f}
                 \/ replay'.pass.phase = "read" /\ replay'.pass.todo = Files /\ replay.pass.todo = {f}
          BY <2>2, <2>6, <3>2, <3>5, ReplayStep
        <5> QED BY ONLY <3>5, <5>1 DEF Met, HasRead
      <4>2. ASSUME NEW g \in Files, Met(replay'.pass, g) PROVE replay'.pass.stamps[g] = 0
        BY <2>3, <3>1, <3>4, <4>1, <4>2
      <4> QED BY <4>1, <4>2 DEF Undisturbed
    <3>6. CASE replay.pass.phase = "read"
      <4>1. /\ replay'.pc = "reading" /\ replay'.pass.stamps = replay.pass.stamps
            /\ replay'.pass.got = [replay.pass.got EXCEPT ![f] = object[f].content]
            /\ \A g \in Files : HasRead(replay'.pass, g) => g = f \/ HasRead(replay.pass, g)
            /\ \A g \in Files : Met(replay.pass, g)
        <5>1. /\ replay'.pc = "reading" /\ replay'.pass.stamps = replay.pass.stamps
              /\ replay'.pass.got = [replay.pass.got EXCEPT ![f] = object[f].content]
              /\ \/ replay'.pass.phase = "read" /\ replay'.pass.todo = replay.pass.todo \ {f}
                 \/ replay'.pass.phase = "again" /\ replay'.pass.todo = Files /\ replay.pass.todo = {f}
          BY <2>2, <2>6, <3>2, <3>6, ReplayStep
        <5> QED BY ONLY <3>6, <5>1 DEF Met, HasRead
      <4>2. ASSUME NEW g \in Files, HasRead(replay'.pass, g) PROVE replay'.pass.got[g] = "good"
        BY <2>3, <3>1, <3>4, <4>1, <4>2
      <4> QED BY <3>1, <4>1, <4>2 DEF Undisturbed
    <3>7. CASE replay.pass.phase = "again"
      <4>1. \/ replay'.pc = "verified"
            \/ replay'.pc = "reading" /\ replay'.pass.stamps = replay.pass.stamps /\ replay'.pass.got = replay.pass.got
        BY <2>2, <2>6, <3>2, <3>3, <3>7, ReplayStep
      <4>2. \A g \in Files : Met(replay.pass, g) /\ HasRead(replay.pass, g)
        BY <3>7 DEF Met, HasRead
      <4>3. \A g \in Files : replay.pass.stamps[g] = 0 /\ replay.pass.got[g] = "good"
        BY <3>1, <4>2
      <4> QED BY <4>1, <4>3 DEF Undisturbed
    <3> QED BY <3>0, <3>5, <3>6, <3>7 DEF Passing
  <2> QED BY <1>5, <2>4, <2>5, <2>6 DEF Replays
<1> QED BY <1>1, <1>2, <1>3, <1>4, <1>5

\* A stamp that was met stays met or is passed.
LEMMA Later == \A a, b \in Nat : (a <= b => (a <= b + 1 /\ b + 1 # a)) /\ (a < b => a < b + 1) /\ (a <= b /\ ~(b > a) => a = b)
BY SMT

\* One file of a replay keeps the snapshot, and accepts only what was shown.
LEMMA SnapshotReplay ==
    ASSUME AcqShape, Snapshot, run.copied = Receipt(run.copied.inventory), NEW f \in Files, Replay(f)
    PROVE  Snapshot' /\ (replay'.pc \in {"verified", "accepted"} => replay'.shown)
<1>0. /\ replay.pc = "reading" /\ f \in replay.pass.todo /\ PassOk(replay.pass) /\ replay.pass.phase \in Passing
      /\ replay'.shown = replay.shown /\ object' = object /\ run' = run
  BY ReplayStep DEF Snapshot
<1>1. /\ AsReceived(object) => replay.shown
      /\ \A g \in Files : Met(replay.pass, g) => replay.pass.stamps[g] <= object[g].stamp
      /\ \A g \in Files : HasRead(replay.pass, g) /\ object[g].stamp = replay.pass.stamps[g]
            => object[g].content = replay.pass.got[g]
      /\ replay.pass.phase = "again" /\ replay.pass.got = run.copied.inventory
            => replay.shown \/ \E g \in replay.pass.todo : object[g].stamp > replay.pass.stamps[g]
  BY <1>0 DEF Snapshot
<1>2. AsReceived(object)' => replay'.shown
  BY <1>0, <1>1 DEF AsReceived
<1>3. DOMAIN replay.pass.stamps = Files /\ DOMAIN replay.pass.got = Files
  BY <1>0 DEF PassOk, Inventories
<1>4. \A g \in Files : object[g].stamp \in Nat
  BY SMT DEF AcqShape, Trees
<1>5. CASE replay'.pc = "refused"
  BY <1>2, <1>5 DEF Snapshot
<1>6. CASE replay'.pc # "refused" /\ replay.pass.phase = "walk"
  <2>1. /\ replay'.pc = "reading" /\ PassOk(replay'.pass)
        /\ replay'.pass.stamps = [replay.pass.stamps EXCEPT ![f] = object[f].stamp]
        /\ \/ replay'.pass.phase = "walk" /\ replay'.pass.todo = replay.pass.todo \ {f}
           \/ replay'.pass.phase = "read" /\ replay'.pass.todo = Files /\ replay.pass.todo = {f}
    BY <1>6, ReplayStep
  <2>2. \A g \in Files : (Met(replay'.pass, g) => g = f \/ Met(replay.pass, g)) /\ ~HasRead(replay'.pass, g)
    BY ONLY <1>6, <2>1 DEF Met, HasRead
  <2>3. object[f].stamp <= object[f].stamp
    BY <1>4, SMT
  <2>4. ASSUME NEW g \in Files, Met(replay'.pass, g) PROVE replay'.pass.stamps[g] <= object'[g].stamp
    BY <1>0, <1>1, <1>3, <2>1, <2>2, <2>3, <2>4
  <2>5. replay'.pass.phase \in Passing /\ replay'.pass.phase # "again"
    BY <2>1 DEF Passing
  <2> QED BY <1>2, <2>1, <2>2, <2>4, <2>5 DEF Snapshot
<1>7. CASE replay'.pc # "refused" /\ replay.pass.phase = "read"
  <2>1. /\ ~Refused(replay.pass, f, object)
        /\ replay'.pc = "reading" /\ PassOk(replay'.pass) /\ replay'.pass.stamps = replay.pass.stamps
        /\ replay'.pass.got = [replay.pass.got EXCEPT ![f] = object[f].content]
        /\ \/ replay'.pass.phase = "read" /\ replay'.pass.todo = replay.pass.todo \ {f}
           \/ replay'.pass.phase = "again" /\ replay'.pass.todo = Files /\ replay.pass.todo = {f}
    BY <1>7, ReplayStep, ZenonT(40)
  <2>2. /\ \A g \in Files : (HasRead(replay'.pass, g) => g = f \/ HasRead(replay.pass, g)) /\ Met(replay.pass, g)
        /\ replay'.pass.phase = "again" => replay'.pass.todo = Files /\ \A g \in Files : HasRead(replay'.pass, g)
    BY ONLY <1>7, <2>1 DEF Met, HasRead
  <2>3. ASSUME NEW g \in Files, Met(replay'.pass, g) PROVE replay'.pass.stamps[g] <= object'[g].stamp
    BY <1>0, <1>1, <2>1, <2>2
  <2>4. ASSUME NEW g \in Files, HasRead(replay'.pass, g), object[g].stamp = replay.pass.stamps[g]
        PROVE  object[g].content = replay'.pass.got[g]
    BY <1>1, <1>3, <2>1, <2>2, <2>4, ZenonT(40)
  <2>5. ASSUME replay'.pass.phase = "again", replay'.pass.got = run.copied.inventory,
               ~\E g \in Files : object[g].stamp > replay.pass.stamps[g]
        PROVE  replay'.shown
    <3>1. ASSUME NEW g \in Files PROVE object[g].content = run.copied.inventory[g]
      <4>1. replay.pass.stamps[g] \in Nat /\ object[g].stamp \in Nat
        BY <1>0, <1>4 DEF PassOk
      <4>2. replay.pass.stamps[g] <= object[g].stamp /\ ~(object[g].stamp > replay.pass.stamps[g])
        BY <1>1, <2>2, <2>5
      <4>3. object[g].stamp = replay.pass.stamps[g]
        BY <4>1, <4>2, Later
      <4> QED BY <2>2, <2>4, <2>5, <4>3
    <3> QED BY <1>0, <1>1, <3>1 DEF AsReceived
  <2>6. replay'.pass.phase \in Passing
    BY <2>1 DEF Passing
  <2>7. /\ \A g \in Files : Met(replay'.pass, g) => replay'.pass.stamps[g] <= object'[g].stamp
        /\ \A g \in Files : HasRead(replay'.pass, g) /\ object'[g].stamp = replay'.pass.stamps[g]
              => object'[g].content = replay'.pass.got[g]
        /\ replay'.pass.phase = "again" /\ replay'.pass.got = run'.copied.inventory
              => replay'.shown \/ \E g \in replay'.pass.todo : object'[g].stamp > replay'.pass.stamps[g]
    BY <1>0, <2>1, <2>2, <2>3, <2>4, <2>5, ZenonT(40)
  <2> QED BY <1>2, <2>1, <2>6, <2>7 DEF Snapshot
<1>8. CASE replay'.pc # "refused" /\ replay.pass.phase = "again"
  <2>1. ~Refused(replay.pass, f, object)
    BY <1>8, ReplayStep
  <2>2. object[f].stamp = replay.pass.stamps[f]
    BY <1>8, <2>1 DEF Refused, Stamp
  <2>3. ~(object[f].stamp > replay.pass.stamps[f])
    BY <1>4, <2>2, SMT
  <2>4. CASE replay'.pc = "reading"
    <3>1. /\ PassOk(replay'.pass) /\ replay'.pass.stamps = replay.pass.stamps /\ replay'.pass.got = replay.pass.got
          /\ replay'.pass.phase = "again" /\ replay'.pass.todo = replay.pass.todo \ {f}
      BY <1>8, <2>4, ReplayStep
    <3>2. /\ \A g \in Files : Met(replay.pass, g) /\ HasRead(replay.pass, g)
          /\ replay'.pass.phase \in Passing
      BY <1>8, <3>1 DEF Met, HasRead, Passing
    <3>3. replay'.pass.got = run'.copied.inventory
              => replay'.shown \/ \E g \in replay'.pass.todo : object'[g].stamp > replay'.pass.stamps[g]
      BY <1>0, <1>1, <1>8, <2>3, <3>1
    <3>4. \A g \in Files : /\ replay'.pass.stamps[g] <= object'[g].stamp
                           /\ object'[g].stamp = replay'.pass.stamps[g] => object'[g].content = replay'.pass.got[g]
      BY <1>0, <1>1, <3>1, <3>2
    <3> QED BY <1>2, <2>4, <3>1, <3>2, <3>3, <3>4 DEF Snapshot
  <2>5. CASE replay'.pc = "verified"
    <3>1. replay.pass.todo = {f} /\ replay.pass.got = run.copied.inventory
      BY <1>8, <2>5, ReplayStep
    <3>2. replay'.shown
      BY <1>0, <1>1, <1>8, <2>3, <3>1
    <3> QED BY <1>2, <2>5, <3>2 DEF Snapshot
  <2>6. replay'.pc \in {"reading", "verified"}
    BY <1>8, ReplayStep
  <2> QED BY <2>4, <2>5, <2>6
<1> QED BY <1>0, <1>5, <1>6, <1>7, <1>8 DEF Passing

\* A change of a file keeps the snapshot: it raises a stamp.
LEMMA SnapshotInterfere ==
    ASSUME AcqShape, Snapshot, NEW f \in Files, Interfere(f)
    PROVE  Snapshot' /\ (replay.pc # "idle" /\ replay.shown => replay'.shown) /\ replay'.pc = replay.pc
<1>0. /\ replay'.pc = replay.pc /\ replay'.pass = replay.pass /\ run' = run
      /\ replay'.shown = ((replay.shown \/ AsReceived(object')) /\ replay.pc # "idle")
  BY DEF Interfere, AcqShape
<1>1. AsReceived(object)' <=> AsReceived(object')
  BY <1>0 DEF AsReceived
<1>2. object' = object \/ object' = [object EXCEPT ![f] = Toggle(object[f])]
  BY DEF Interfere
<1>3. Toggle(object[f]).stamp = object[f].stamp + 1
  BY SMT DEF Toggle, Changed
<1>4. DOMAIN object = Files /\ \A g \in Files : object[g].stamp \in Nat
  BY SMT DEF AcqShape, Trees
<1>5. ASSUME NEW g \in Files PROVE object'[g] = object[g] \/ object'[g].stamp = object[g].stamp + 1
  BY <1>2, <1>3, <1>4
<1>6. CASE replay.pc # "reading"
  BY <1>0, <1>1, <1>6 DEF Snapshot
<1>7. CASE replay.pc = "reading"
  <2>1. /\ PassOk(replay.pass) /\ replay.pass.phase \in Passing
        /\ \A g \in Files : Met(replay.pass, g) => replay.pass.stamps[g] <= object[g].stamp
        /\ \A g \in Files : HasRead(replay.pass, g) /\ object[g].stamp = replay.pass.stamps[g]
              => object[g].content = replay.pass.got[g]
        /\ replay.pass.phase = "again" /\ replay.pass.got = run.copied.inventory
              => replay.shown \/ \E g \in replay.pass.todo : object[g].stamp > replay.pass.stamps[g]
    BY <1>7 DEF Snapshot
  <2>2. \A g \in Files : replay.pass.stamps[g] \in Nat
    BY <2>1 DEF PassOk
  <2>3. ASSUME NEW g \in Files, Met(replay.pass, g)
        PROVE  /\ replay.pass.stamps[g] <= object'[g].stamp
               /\ object'[g].stamp = replay.pass.stamps[g] => object'[g] = object[g]
    <3>1. replay.pass.stamps[g] \in Nat /\ object[g].stamp \in Nat /\ replay.pass.stamps[g] <= object[g].stamp
      BY <1>4, <2>1, <2>2, <2>3
    <3>2. replay.pass.stamps[g] <= object[g].stamp + 1 /\ object[g].stamp + 1 # replay.pass.stamps[g]
      BY <3>1, Later
    <3> QED BY <1>5, <3>1, <3>2
  <2>4. ASSUME NEW g \in Files, object[g].stamp > replay.pass.stamps[g] PROVE object'[g].stamp > replay.pass.stamps[g]
    BY ONLY <1>4, <1>5, <2>2, <2>4, SMT
  <2>5. \A g \in Files : HasRead(replay.pass, g) => Met(replay.pass, g)
    BY DEF HasRead, Met
  <2>6. /\ \A g \in Files : Met(replay.pass, g) => replay.pass.stamps[g] <= object'[g].stamp
        /\ \A g \in Files : HasRead(replay.pass, g) /\ object'[g].stamp = replay.pass.stamps[g]
              => object'[g].content = replay.pass.got[g]
    BY <2>1, <2>3, <2>5
  <2>7. replay.pass.phase = "again" /\ replay.pass.got = run.copied.inventory
              => replay'.shown \/ \E g \in replay.pass.todo : object'[g].stamp > replay.pass.stamps[g]
    BY <1>0, <1>7, <2>1, <2>4 DEF PassOk
  <2>8. AsReceived(object)' => replay'.shown
    BY <1>0, <1>1, <1>7
  <2>9. /\ replay'.pc = "reading" /\ PassOk(replay'.pass) /\ replay'.pass.phase \in Passing
        /\ \A g \in Files : Met(replay'.pass, g) => replay'.pass.stamps[g] <= object'[g].stamp
        /\ \A g \in Files : HasRead(replay'.pass, g) /\ object'[g].stamp = replay'.pass.stamps[g]
              => object'[g].content = replay'.pass.got[g]
        /\ replay'.pass.phase = "again" /\ replay'.pass.got = run'.copied.inventory
              => replay'.shown \/ \E g \in replay'.pass.todo : object'[g].stamp > replay'.pass.stamps[g]
    BY <1>0, <1>7, <2>1, <2>6, <2>7
  <2>10. replay.shown => replay'.shown
    BY <1>0, <1>7
  <2> QED BY <1>0, <2>8, <2>9, <2>10 DEF Snapshot
<1> QED BY <1>0, <1>6, <1>7

\* Every step keeps the snapshot.
LEMMA SnapshotStep ==
    ASSUME AcqShape, Concluded, Stored, Snapshot, AcceptedWasShown,
           Proceeds \/ Replays \/ (\E f \in Files : Interfere(f)) \/ PowerLoss
    PROVE  Snapshot' /\ AcceptedWasShown'
<1>1. CASE Proceeds
  BY <1>1, CallsPrecede DEF Snapshot, AcceptedWasShown
<1>2. CASE PowerLoss
  BY <1>2 DEF PowerLoss, Snapshot, AcceptedWasShown, AsReceived
<1>3. ASSUME NEW f \in Files, Interfere(f) PROVE Snapshot' /\ AcceptedWasShown'
  BY <1>3, SnapshotInterfere DEF AcceptedWasShown
<1>4. ASSUME NEW f \in Files, Replay(f) PROVE Snapshot' /\ AcceptedWasShown'
  <2>1. run.copied = Receipt(run.copied.inventory)
    BY <1>4 DEF Replay, Concluded, Stored
  <2> QED BY <1>4, <2>1, SnapshotReplay DEF AcceptedWasShown
<1>5. CASE StartReplay
  <2>1. /\ replay'.pc \in {"reading", "refused"} /\ replay'.pass = StartPass /\ replay'.shown = AsReceived(object)
        /\ object' = object /\ run' = run
    BY <1>5, SMT DEF StartReplay
  <2>2. \A g \in Files : ~Met(replay'.pass, g) /\ ~HasRead(replay'.pass, g)
    BY <2>1, FirstPass DEF Met, HasRead
  <2>3. PassOk(replay'.pass) /\ replay'.pass.phase \in Passing /\ replay'.pass.phase # "again"
    BY <2>1, FirstPass DEF Passing
  <2>4. AsReceived(object)' => replay'.shown
    BY <2>1 DEF AsReceived
  <2> QED BY <2>1, <2>2, <2>3, <2>4 DEF Snapshot, AcceptedWasShown
<1>6. CASE ReplaySource
  <2>1. /\ replay'.pc \in {"accepted", "refused"} /\ replay'.shown = replay.shown /\ object' = object /\ run' = run
        /\ replay.pc = "verified"
    BY <1>6 DEF ReplaySource, AcqShape
  <2> QED BY <2>1 DEF Snapshot, AcceptedWasShown, AsReceived
<1> QED BY <1>1, <1>2, <1>3, <1>4, <1>5, <1>6 DEF Replays

-----------------------------------------------------------------------------
\* The first state satisfies the invariant.
LEMMA AcqInit ==
    ASSUME acqInit
    PROVE  AcqInv
<1>1. DOMAIN run = RunFields /\ DOMAIN replay = {"pc", "pass", "shown"}
  BY DEF acqInit, RunFields, NoReplay
<1>2. EmptyDirectory \in Trees
  BY SMT DEF EmptyDirectory, Absent, Trees, Contents
<1>3. NoReceipt.inventory \in Inventories
  <2>1. NoReceipt.inventory = [f \in Files |-> "absent"]
    BY SMT DEF NoReceipt
  <2> QED BY <2>1, SMT DEF Inventories, Contents
<1>4. /\ run.pc = "input" /\ run.state = "not-started" /\ run.receipt = FALSE /\ run.proof = FALSE /\ run.copied = NoReceipt
  BY SMT DEF acqInit
<1>5. replay.pc = "idle" /\ failure.written = FALSE
  BY SMT DEF acqInit, NoReplay, NoFailure
<1>6. AcqShape
  BY <1>1, <1>2, <1>3, <1>4, SMTT(40) DEF AcqShape, acqInit
<1>7. Reported /\ Kept /\ Concluded
  <2>1. disk = {} /\ durable = {} /\ outcome = "none"
    BY DEF acqInit
  <2> QED BY ONLY <1>4, <1>5, <2>1, SMT DEF Reported, Kept, Concluded, Unstarted, Storing, Received, Proving, Checking
<1>8. Stored
  <2>1. outcome = "none"
    BY DEF acqInit
  <2>2. /\ run.pc # "copy" /\ run.pc # "checksource" /\ run.pc \notin {"return", "closing"} /\ outcome # "result"
        /\ run.pc \notin Copied
    BY ONLY <1>4, <2>1, SMT DEF Copied, Received, Proving, Checking
  <2> QED BY <2>2 DEF Stored
<1>9. Undisturbed /\ Snapshot /\ AcceptedWasShown
  BY <1>5 DEF Undisturbed, Snapshot, AcceptedWasShown
<1> QED BY <1>6, <1>7, <1>8, <1>9 DEF AcqInv

\* Every step keeps the invariant.
LEMMA AcqStep ==
    ASSUME AcqInv, [acqNext]_acqVars
    PROVE  AcqInv'
<1>1. CASE acqNext
  <2>1. DOMAIN run' = RunFields /\ (Proceeds \/ Replays \/ (\E f \in Files : Interfere(f)) \/ PowerLoss)
    BY <1>1, RunKinds DEF AcqInv
  <2>2. AcqShape'
    BY <1>1, <2>1, StagedStep, ShapeStep DEF AcqInv
  <2>3. Reported' /\ Kept' /\ Concluded'
    BY <2>1, ReportedStep, KeptStep, ConcludedStep DEF AcqInv
  <2>4. Stored' /\ Undisturbed'
    BY <2>1, StoredStep, UndisturbedStep DEF AcqInv
  <2>5. Snapshot' /\ AcceptedWasShown'
    BY <2>1, SnapshotStep DEF AcqInv
  <2> QED BY <2>2, <2>3, <2>4, <2>5 DEF AcqInv
<1>2. CASE UNCHANGED acqVars
  <2>1. /\ UNCHANGED <<staged, object, disk, durable, run, failure>> /\ outcome' = outcome /\ replay' = replay /\ changes' = changes
        /\ power' = power
    BY <1>2 DEF acqVars
  <2>2. AcqShape' /\ Concluded'
    BY <2>1 DEF AcqInv, AcqShape, Concluded
  <2>3. Reported'
    BY <2>1 DEF AcqInv, Reported
  <2>4. Kept'
    BY <2>1 DEF AcqInv, Kept
  <2>5. Stored'
    BY <2>1 DEF AcqInv, Stored, Whole
  <2>6. Undisturbed' /\ AcceptedWasShown'
    BY <2>1 DEF AcqInv, Undisturbed, AcceptedWasShown
  <2>7. Snapshot'
    BY <2>1 DEF AcqInv, Snapshot, AsReceived
  <2> QED BY <2>2, <2>3, <2>4, <2>5, <2>6, <2>7 DEF AcqInv
<1> QED BY <1>1, <1>2

\* The invariant is enough.
LEMMA AcqInvIsEnough == AcqInv => CaptureIsWhole
<1> SUFFICES ASSUME AcqInv PROVE CaptureIsWhole
  OBVIOUS
<1>1. AcceptedWasShown
  BY DEF AcqInv
<1>2. ResultStaysVerifiable
  BY DEF AcqInv, Undisturbed, ResultStaysVerifiable
<1>3. FailureIsTruthful
  BY DEF AcqInv, Concluded, Reported, Kept, FailureIsTruthful
<1>4. MarkersComeLast
  BY DEF AcqInv, Kept, MarkersComeLast, Markers, Vouched
<1> QED BY <1>1, <1>2, <1>3, <1>4 DEF CaptureIsWhole

\* For every set of files, every request and any number of changes behind the
\* process's back, whichever calls fail and whenever power is lost: a replay that
\* got past its comparison saw one moment at which all files were what the receipt
\* says, an untouched result is never refused, failure.json is true, and SEALED
\* and COMPLETE are never there without what they vouch for.
THEOREM CaptureStaysWhole == acqSpec => []CaptureIsWhole
<1>1. acqInit => AcqInv
  BY AcqInit
<1>2. AcqInv /\ [acqNext]_acqVars => AcqInv'
  BY AcqStep
<1> QED BY <1>1, <1>2, AcqInvIsEnough, PTL DEF acqSpec
=============================================================================
