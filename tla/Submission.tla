----------------------------- MODULE Submission -----------------------------
(***************************************************************************)
(* Finalizing one exam session: SubmissionService.submitSession running in *)
(* several requests at once (double clicks, tabs, network retries), beside *)
(* the answer batches and lifecycle transitions that write the same        *)
(* session document.                                                       *)
(*                                                                         *)
(* A request takes three separate Firestore operations: it reads the       *)
(* session, sets submissionLock under a lastUpdateTime precondition, and   *)
(* finalizes in a transaction; a failed finalize is followed by a          *)
(* best-effort release of the lock.  Between any two of them every other   *)
(* writer may run, and the function instance may disappear.                *)
(***************************************************************************)
EXTENDS SessionLifecycle

CONSTANTS
  Requests,        \* slots for concurrent submitSession invocations
  Questions,       \* run.questionIds
  Options,         \* the options a student may select
  Blank,           \* no answer stored for the question
  Ungraded,        \* no metrics stored on the session
  MinTime,         \* questionTimeMap[q].minTime, the same for every question
  MaxTime,         \* questionTimeMap[q].maxTime
  SpentBound,      \* bound: cumulative time the model counts up to
  Hard,            \* the session's mode is Hard
  BackendSubmits,  \* some backend caller submits by transitionSessionState
  Faults           \* which of FaultKinds can happen

\* crash: the instance dies between two operations of a request.
\* storage: an operation fails and is not applied.
\* ackLost: an operation is applied but its caller sees an error.
\* content: the run or a question document the finalize reads is invalid.
FaultKinds == {"crash", "storage", "ackLost", "content"}

AnswerRecords == [option : Options \cup {Blank}, spent : 0..SpentBound]

\* answerMap and questionTimeMap[q].cumulativeTimeSpent, question by question.
\* The metrics are computed from them and from the run's content, which does
\* not change: a sheet also stands for the metrics that grade it.
Sheets == [Questions -> AnswerRecords]

ASSUME SubmissionAssumption ==
  /\ Blank \notin Options
  /\ Ungraded \notin Sheets
  /\ MinTime \in Nat /\ MaxTime \in Nat /\ SpentBound \in Nat
  /\ Hard \in BOOLEAN /\ BackendSubmits \in BOOLEAN
  /\ Faults \subseteq FaultKinds

\* What a request answers: "ok" with metrics, or an error with none.
Codes == {"none", "ok", "locked", "notActive", "error"}
Replies == [code : Codes, metrics : Sheets \cup {Ungraded}]
Failure(code) == [code |-> code, metrics |-> Ungraded]
Success(metrics) == [code |-> "ok", metrics |-> metrics]

VARIABLES
  status,          \* session.status
  submissionLock,  \* session.submissionLock
  sheet,           \* session.answerMap and session.questionTimeMap
  result,          \* the metrics on the session, as the sheet they grade
  yearHot,         \* the academic year is operational (not archived)
  pc,              \* where each request is
  fresh,           \* requests whose snapshot's updateTime is still current
  reply            \* what each request last answered

vars == <<status, submissionLock, sheet, result, yearHot, pc, fresh, reply>>
sessionDoc == <<status, submissionLock, sheet, result>>

\* lock: about to update submissionLock; recheck: the precondition failed;
\* finalize: lock acquired; release: finalize failed.
Steps == {"idle", "lock", "recheck", "finalize", "release"}

TypeOK ==
  /\ status \in Statuses
  /\ submissionLock \in BOOLEAN
  /\ sheet \in Sheets
  /\ result \in Sheets \cup {Ungraded}
  /\ yearHot \in BOOLEAN
  /\ pc \in [Requests -> Steps]
  /\ fresh \subseteq Requests
  /\ reply \in [Requests -> Replies]

Init ==
  /\ status = "created"
  /\ submissionLock = FALSE
  /\ sheet = [q \in Questions |-> [option |-> Blank, spent |-> 0]]
  /\ result = Ungraded
  /\ yearHot = TRUE
  /\ pc = [r \in Requests |-> "idle"]
  /\ fresh = {}
  /\ reply = [r \in Requests |-> Failure("none")]

Answered(s) == {q \in Questions : s[q].option # Blank}

\* validateSubmissionTiming: Hard mode refuses a sheet with an answered
\* question below minTime or above maxTime.
TimingAccepted(s) ==
  Hard => \A q \in Answered(s) : s[q].spent \in MinTime..MaxTime

\* Every write to the document moves its updateTime on.
DocumentWritten == fresh' = {}

Goto(r, step) == pc' = [pc EXCEPT ![r] = step]
Answer(r, a) == Goto(r, "idle") /\ reply' = [reply EXCEPT ![r] = a]

-----------------------------------------------------------------------------
(* The other writers of the document.                                      *)

\* transitionSessionState: one transaction that writes the status alone.
TransitionSession(actor, to) ==
  /\ TransitionAllowed(actor, status, to)
  /\ to = "submitted" => BackendSubmits
  /\ status' = to
  /\ DocumentWritten
  /\ UNCHANGED <<submissionLock, sheet, result, yearHot, pc, reply>>

\* Hard mode refuses a write to a question already at maxTime, and the whole
\* batch if a write leaves a question below minTime.
WriteAccepted(old, new) ==
  Hard => old.spent < MaxTime /\ new.spent >= MinTime

\* The answers of a batch that are neither stale nor locked are merged; a
\* batch that merges none still writes the document.
MergeBatch ==
  /\ \E new \in Sheets :
       /\ \A q \in Questions : new[q] # sheet[q] =>
            /\ new[q].option # Blank
            /\ new[q].spent >= sheet[q].spent
            /\ WriteAccepted(sheet[q], new[q])
       /\ sheet' = new
  /\ DocumentWritten
  /\ UNCHANGED <<status, submissionLock, result, yearHot, pc, reply>>

\* Mutant: a late answer batch is merged whatever the session's status.
PersistAnswersLate == MergeBatch

\* persistIncrementalAnswers, one transaction.  It does not look at
\* submissionLock.
PersistAnswers == status \in LiveStatuses /\ MergeBatch

\* The archive pipeline archives the academic year (another component).
ArchiveYear ==
  /\ yearHot
  /\ yearHot' = FALSE
  /\ UNCHANGED <<sessionDoc, pc, fresh, reply>>

-----------------------------------------------------------------------------
(* acquireSubmissionLock                                                   *)

\* Mutant: a submitted session is taken to be a graded one.
AssumeGraded == Success(sheet)

\* The answer to a submitted session: the stored metrics, or an error when
\* normalizeStoredResult finds none.
StoredAnswer ==
  IF result = Ungraded THEN Failure("error") ELSE Success(result)

\* The first read.
ReadSession(r) ==
  /\ pc[r] = "idle"
  /\ \/ /\ status = "submitted"
        /\ Answer(r, StoredAnswer)
        /\ UNCHANGED fresh
     \/ /\ status # "submitted"
        /\ submissionLock
        /\ Answer(r, Failure("locked"))
        /\ UNCHANGED fresh
     \/ /\ status \notin {"submitted", "active"}
        /\ ~submissionLock
        /\ Answer(r, Failure("notActive"))
        /\ UNCHANGED fresh
     \/ /\ status = "active"
        /\ ~submissionLock
        /\ Goto(r, "lock")
        /\ fresh' = fresh \cup {r}
        /\ UNCHANGED reply
  /\ UNCHANGED <<sessionDoc, yearHot>>

\* Mutant: the lock is set without the precondition on updateTime.
SetLockBlindly(r) ==
  /\ pc[r] = "lock"
  /\ submissionLock' = TRUE
  /\ DocumentWritten
  /\ Goto(r, "finalize")
  /\ UNCHANGED <<status, sheet, result, yearHot, reply>>

\* update(submissionLock: true) with lastUpdateTime = the snapshot's.
SetLock(r) ==
  /\ pc[r] = "lock"
  /\ r \in fresh
  /\ submissionLock' = TRUE
  /\ DocumentWritten
  /\ \/ Goto(r, "finalize") /\ UNCHANGED reply
     \/ "ackLost" \in Faults /\ Answer(r, Failure("error"))
  /\ UNCHANGED <<status, sheet, result, yearHot>>

\* The document has been written since the read: the precondition fails.
PreconditionFails(r) ==
  /\ pc[r] = "lock"
  /\ r \notin fresh
  /\ Goto(r, "recheck")
  /\ UNCHANGED <<sessionDoc, yearHot, fresh, reply>>

\* The read after a failed precondition.
Recheck(r) ==
  /\ pc[r] = "recheck"
  /\ Answer(r, IF status = "submitted" THEN StoredAnswer
                                         ELSE Failure("locked"))
  /\ UNCHANGED <<sessionDoc, yearHot, fresh>>

-----------------------------------------------------------------------------
(* submitSession: the finalize transaction and the release of the lock.    *)

\* Mutant: finalize without validateSubmissionTiming.
FinalizableUntimed == yearHot /\ status = "active" /\ submissionLock

Finalizable ==
  /\ yearHot
  /\ status = "active"
  /\ submissionLock
  /\ TimingAccepted(sheet)

\* The transaction commits: metrics, status and lock in one write.  After a
\* lost acknowledgement the caller sees an error, or the client library runs
\* the transaction again.
Finalize(r) ==
  /\ pc[r] = "finalize"
  /\ Finalizable
  /\ status' = "submitted"
  /\ submissionLock' = FALSE
  /\ result' = sheet
  /\ DocumentWritten
  /\ \/ Answer(r, Success(sheet))
     \/ "ackLost" \in Faults /\ Goto(r, "release") /\ UNCHANGED reply
     \/ "ackLost" \in Faults /\ UNCHANGED <<pc, reply>>
  /\ UNCHANGED <<sheet, yearHot>>

\* The transaction finds the session submitted and returns what is stored.
FinalizeReplay(r) ==
  /\ pc[r] = "finalize"
  /\ yearHot
  /\ status = "submitted"
  /\ result # Ungraded
  /\ Answer(r, Success(result))
  /\ UNCHANGED <<sessionDoc, yearHot, fresh>>

\* The transaction throws, by a guard, on invalid run content or in storage.
FinalizeFails(r) ==
  /\ pc[r] = "finalize"
  /\ \/ ~Finalizable /\ ~(yearHot /\ status = "submitted" /\ result # Ungraded)
     \/ "storage" \in Faults
     \/ "content" \in Faults /\ Finalizable
  /\ Goto(r, "release")
  /\ UNCHANGED <<sessionDoc, yearHot, fresh, reply>>

\* Mutant: a failed finalize returns without clearing the lock.
ReleaseNothing(r) ==
  /\ pc[r] = "release"
  /\ Answer(r, Failure("error"))
  /\ UNCHANGED <<sessionDoc, yearHot, fresh>>

\* releaseSubmissionLock: clears the lock of an active session, whoever set
\* it.  After a lost acknowledgement the client library runs it again.
Release(r) ==
  /\ pc[r] = "release"
  /\ IF status = "active" /\ submissionLock
       THEN /\ submissionLock' = FALSE
            /\ DocumentWritten
            /\ \/ Answer(r, Failure("error"))
               \/ "ackLost" \in Faults /\ UNCHANGED <<pc, reply>>
       ELSE /\ Answer(r, Failure("error"))
            /\ UNCHANGED <<submissionLock, fresh>>
  /\ UNCHANGED <<status, sheet, result, yearHot>>

\* An operation fails outright: a failed lock update or read is thrown to the
\* caller, a failed release is only logged.
OperationFails(r) ==
  /\ "storage" \in Faults
  /\ pc[r] \in {"lock", "recheck", "release"}
  /\ Answer(r, Failure("error"))
  /\ fresh' = fresh \ {r}
  /\ UNCHANGED <<sessionDoc, yearHot>>

\* The instance dies; nothing is answered and nothing is cleaned up.
Crash(r) ==
  /\ "crash" \in Faults
  /\ pc[r] # "idle"
  /\ Answer(r, Failure("none"))
  /\ fresh' = fresh \ {r}
  /\ UNCHANGED <<sessionDoc, yearHot>>

-----------------------------------------------------------------------------
RequestStep(r) ==
  \/ SetLock(r) \/ PreconditionFails(r) \/ Recheck(r)
  \/ Finalize(r) \/ FinalizeReplay(r) \/ FinalizeFails(r) \/ Release(r)

Next ==
  \/ \E r \in Requests : \/ ReadSession(r) \/ RequestStep(r)
                         \/ OperationFails(r) \/ Crash(r)
  \/ \E actor \in Actors, to \in Statuses : TransitionSession(actor, to)
  \/ PersistAnswers
  \/ ArchiveYear

Spec == Init /\ [][Next]_vars

\* A request that has begun runs on: the runtime schedules its continuations.
\* Nobody is obliged to submit, answer, archive or expire.
FairSpec == Spec /\ \A r \in Requests : WF_vars(RequestStep(r))

-----------------------------------------------------------------------------
(* Properties.                                                             *)

\* Requests that act as if they held submissionLock.
Holders == {r \in Requests : pc[r] \in {"finalize", "release"}}

\* The stored metrics grade exactly the stored answers, whatever answer
\* batches ran between the lock and the finalize, and only a submitted
\* session has metrics.
GradeMatchesSheet ==
  result # Ungraded => status = "submitted" /\ result = sheet

\* Every successful answer, first or replayed, carries the metrics that are
\* stored; two tabs can never be told different scores.
RepliesAgree ==
  \A r \in Requests : reply[r].code = "ok" =>
    result # Ungraded /\ reply[r].metrics = result

\* Hard mode never grades a sheet its timing rules refuse, although the last
\* answers are written after the request was admitted.
GradeIsTimely == result # Ungraded => TimingAccepted(result)

\* At most one request finalizes or releases at a time: the precondition on
\* updateTime makes the unlocked read-then-update a mutual exclusion.
OneHolder == \A r, s \in Holders : r = s

\* An active session is locked only while some request is finalizing it, so
\* that a failed submission can be tried again.
LockHasHolder == status = "active" /\ submissionLock => Holders # {}

\* What the protocol implements.
Contract == INSTANCE GradedSession WITH
  Callers <- Requests,
  open    <- status \in LiveStatuses,
  grade   <- result,
  told    <- [r \in Requests |-> reply[r].metrics]

\* The submission protocol grades a session at most once, from the answers it
\* froze, and tells every caller the same: it implements GradedSession.
ImplementsContract == Contract!Spec

\* Once graded, neither answers, metrics nor status ever change.
GradeIsFinal ==
  [][result # Ungraded => UNCHANGED <<status, sheet, result>>]_vars

\* A lock on an active session is eventually given up.
LockIsReleased ==
  status = "active" /\ submissionLock ~> ~(status = "active" /\ submissionLock)
=============================================================================
