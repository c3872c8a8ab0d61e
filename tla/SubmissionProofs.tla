-------------------------- MODULE SubmissionProofs --------------------------
(***************************************************************************)
(* Theorems about Submission, for any number of requests, questions and    *)
(* options, any timing window and any combination of faults.               *)
(***************************************************************************)
EXTENDS Submission, TLAPS

\* Told or not, a caller holds either no metrics or the stored ones.
RepliesCarryGrade ==
  \A r \in Requests : reply[r].metrics \in {Ungraded, result}

\* The inductive invariant behind the grading properties.
GradeInv ==
  /\ TypeOK
  /\ GradeMatchesSheet
  /\ GradeIsTimely
  /\ RepliesAgree
  /\ RepliesCarryGrade

\* A session that is open has no metrics yet.
LEMMA OpenIsUngraded ==
  ASSUME GradeMatchesSheet, status # "submitted"
  PROVE  result = Ungraded
BY DEF GradeMatchesSheet

\* An answer recorded for one request leaves the replies well formed.
LEMMA AnswerType ==
  ASSUME TypeOK, NEW r \in Requests, NEW a \in Replies, Answer(r, a)
  PROVE  /\ pc' \in [Requests -> Steps]
         /\ reply' \in [Requests -> Replies]
         /\ \A s \in Requests : reply'[s] = IF s = r THEN a ELSE reply[s]
BY DEF TypeOK, Answer, Goto, Steps

\* Failures and successes are replies.
LEMMA ReplyTypes ==
  /\ \A code \in Codes : Failure(code) \in Replies
  /\ \A s \in Sheets : Success(s) \in Replies
BY DEF Failure, Success, Replies, Codes

\* The replay of a submitted session is a reply.
LEMMA StoredAnswerType ==
  ASSUME TypeOK
  PROVE  StoredAnswer \in Replies
BY ReplyTypes DEF TypeOK, StoredAnswer, Codes
-----------------------------------------------------------------------------
\* A new session is ungraded and nobody has been told anything.
LEMMA InitGrade == Init => GradeInv
<1> SUFFICES ASSUME Init PROVE GradeInv
  OBVIOUS
<1>1. sheet \in Sheets
  BY SubmissionAssumption DEF Init, Sheets, AnswerRecords
<1>2. \A r \in Requests : reply[r] = Failure("none")
  BY DEF Init
<1>3. reply \in [Requests -> Replies]
  BY ReplyTypes DEF Init, Codes
<1>4. TypeOK
  BY <1>1, <1>3 DEF TypeOK, Init, Statuses, Steps
<1> QED
  BY <1>2, <1>4 DEF GradeInv, GradeMatchesSheet, GradeIsTimely, RepliesAgree,
                    RepliesCarryGrade, Init, Failure

\* An answer that tells no other metrics than the stored ones.
Honest(a) ==
  /\ a \in Replies
  /\ a.metrics \in {Ungraded, result}
  /\ a.code = "ok" => result # Ungraded /\ a.metrics = result

\* A failure tells no metrics.
LEMMA FailureIsHonest ==
  \A code \in {"locked", "notActive", "error", "none"} : Honest(Failure(code))
BY ReplyTypes DEF Honest, Failure, Codes

\* A replay tells the stored metrics, or fails.
LEMMA StoredAnswerIsHonest == ASSUME TypeOK PROVE Honest(StoredAnswer)
BY ReplyTypes, FailureIsHonest DEF Honest, StoredAnswer, Success, TypeOK

\* A step that writes neither answers, metrics nor status, and answers honestly.
LEMMA QuietStep ==
  ASSUME GradeInv, UNCHANGED <<status, sheet, result>>,
         submissionLock' \in BOOLEAN, yearHot' \in BOOLEAN, pc' \in [Requests -> Steps],
         fresh' \subseteq Requests,
         reply' \in [Requests -> Replies],
         \A r \in Requests : reply'[r] = reply[r] \/ Honest(reply'[r])
  PROVE  GradeInv'
<1>1. TypeOK'
  BY DEF GradeInv, TypeOK
<1>2. GradeMatchesSheet' /\ GradeIsTimely'
  BY DEF GradeInv, GradeMatchesSheet, GradeIsTimely, TimingAccepted, Answered
<1>3. RepliesAgree' /\ RepliesCarryGrade'
  BY DEF GradeInv, RepliesAgree, RepliesCarryGrade, Honest
<1> QED
  BY <1>1, <1>2, <1>3 DEF GradeInv

\* A step that only answers one request honestly.
LEMMA AnswerStep ==
  ASSUME GradeInv, NEW r \in Requests, NEW a, Honest(a), Answer(r, a),
         UNCHANGED <<status, sheet, result, yearHot>>,
         submissionLock' \in BOOLEAN, fresh' \subseteq Requests
  PROVE  GradeInv'
<1>1. a \in Replies
  BY DEF Honest
<1>2. /\ pc' \in [Requests -> Steps]
      /\ reply' \in [Requests -> Replies]
      /\ \A s \in Requests : reply'[s] = IF s = r THEN a ELSE reply[s]
  BY <1>1, AnswerType DEF GradeInv
<1> QED
  BY <1>2, QuietStep DEF GradeInv, TypeOK

\* A step that only moves one request on.
LEMMA GotoStep ==
  ASSUME GradeInv, NEW r \in Requests, NEW step \in Steps, Goto(r, step),
         UNCHANGED <<status, sheet, result, yearHot, reply>>,
         submissionLock' \in BOOLEAN, fresh' \subseteq Requests
  PROVE  GradeInv'
<1>1. pc' \in [Requests -> Steps]
  BY DEF Goto, GradeInv, TypeOK
<1> QED
  BY <1>1, QuietStep DEF GradeInv, TypeOK

\* A step that changes neither answers nor metrics, and no graded status.
LEMMA UngradedStep ==
  ASSUME GradeInv, result = Ungraded,
         UNCHANGED <<result, reply>>,
         status' \in Statuses, submissionLock' \in BOOLEAN, sheet' \in Sheets,
         yearHot' \in BOOLEAN, pc' \in [Requests -> Steps],
         fresh' \subseteq Requests
  PROVE  GradeInv'
<1>1. TypeOK'
  BY DEF GradeInv, TypeOK
<1> QED
  BY <1>1 DEF GradeInv, GradeMatchesSheet, GradeIsTimely, RepliesAgree,
              RepliesCarryGrade

\* Transitions keep the invariant: they leave a submitted session alone.
LEMMA TransitionGrade ==
  ASSUME GradeInv, NEW actor \in Actors, NEW to \in Statuses,
         TransitionSession(actor, to)
  PROVE  GradeInv'
<1>1. status # "submitted"
  BY DEF TransitionSession, TransitionAllowed, AllowedNext
<1>2. result = Ungraded
  BY <1>1 DEF GradeInv, GradeMatchesSheet
<1> QED
  BY <1>2, UngradedStep
  DEF TransitionSession, DocumentWritten, GradeInv, TypeOK

\* Answer batches keep it: they need a session that is open.
LEMMA PersistGrade ==
  ASSUME GradeInv, PersistAnswers
  PROVE  GradeInv'
<1>1. status # "submitted"
  BY DEF PersistAnswers, MergeBatch, LiveStatuses
<1>2. result = Ungraded
  BY <1>1 DEF GradeInv, GradeMatchesSheet
<1>3. sheet' \in Sheets
  BY DEF PersistAnswers, MergeBatch
<1> QED
  BY <1>2, <1>3, UngradedStep
  DEF PersistAnswers, MergeBatch, DocumentWritten, GradeInv, TypeOK

\* Archiving the year keeps it.
LEMMA ArchiveGrade ==
  ASSUME GradeInv, ArchiveYear
  PROVE  GradeInv'
BY QuietStep DEF ArchiveYear, sessionDoc, GradeInv, TypeOK

\* The finalize transaction establishes what it says of the metrics.
LEMMA FinalizeGrade ==
  ASSUME GradeInv, NEW r \in Requests, Finalize(r)
  PROVE  GradeInv'
<1>1. result = Ungraded /\ status = "active"
  BY DEF Finalize, Finalizable, GradeInv, GradeMatchesSheet
<1>2. \A s \in Requests : reply[s].metrics = Ungraded /\ reply[s].code # "ok"
  BY <1>1 DEF GradeInv, RepliesAgree, RepliesCarryGrade
<1>3. sheet \in Sheets /\ sheet # Ungraded
  BY SubmissionAssumption DEF GradeInv, TypeOK
<1>4. Success(sheet) \in Replies
  BY <1>3, ReplyTypes
<1>5. /\ pc' \in [Requests -> Steps]
      /\ reply' \in [Requests -> Replies]
      /\ \A s \in Requests :
           reply'[s] = reply[s] \/ reply'[s] = Success(sheet)
  <2>1. CASE Answer(r, Success(sheet))
    BY <2>1, <1>4, AnswerType DEF GradeInv
  <2>2. CASE Goto(r, "release") /\ UNCHANGED reply
    BY <2>2 DEF Goto, GradeInv, TypeOK, Steps
  <2>3. CASE UNCHANGED <<pc, reply>>
    BY <2>3 DEF GradeInv, TypeOK
  <2> QED BY <2>1, <2>2, <2>3 DEF Finalize
<1>6. TypeOK'
  BY <1>5, <1>3 DEF Finalize, GradeInv, TypeOK, Statuses, DocumentWritten
<1>7. GradeMatchesSheet' /\ GradeIsTimely'
  BY DEF Finalize, Finalizable, GradeMatchesSheet, GradeIsTimely,
         TimingAccepted, Answered
<1>8. RepliesAgree' /\ RepliesCarryGrade'
  BY <1>2, <1>3, <1>5 DEF Finalize, RepliesAgree, RepliesCarryGrade, Success
<1> QED
  BY <1>6, <1>7, <1>8 DEF GradeInv

\* The steps of a request keep it.
LEMMA RequestGrade ==
  ASSUME GradeInv, NEW r \in Requests,
         ReadSession(r) \/ RequestStep(r) \/ OperationFails(r) \/ Crash(r)
  PROVE  GradeInv'
<1>0. /\ fresh \subseteq Requests /\ submissionLock \in BOOLEAN
      /\ Honest(StoredAnswer)
      /\ \A code \in {"locked", "notActive", "error", "none"} :
            Honest(Failure(code))
  BY StoredAnswerIsHonest, FailureIsHonest DEF GradeInv, TypeOK
<1>1. CASE ReadSession(r)
  <2>1. CASE Goto(r, "lock") /\ fresh' = fresh \cup {r} /\ UNCHANGED reply
    BY <1>0, <1>1, <2>1, GotoStep DEF ReadSession, sessionDoc, Steps
  <2>2. ASSUME NEW a, Honest(a), Answer(r, a), UNCHANGED fresh
        PROVE  GradeInv'
    BY <1>0, <1>1, <2>2, AnswerStep DEF ReadSession, sessionDoc
  <2> QED BY <1>0, <1>1, <2>1, <2>2 DEF ReadSession
<1>2. CASE SetLock(r)
  <2>1. CASE Goto(r, "finalize") /\ UNCHANGED reply
    BY <1>2, <2>1, GotoStep DEF SetLock, DocumentWritten, Steps
  <2>2. CASE Answer(r, Failure("error"))
    BY <1>0, <1>2, <2>2, AnswerStep DEF SetLock, DocumentWritten
  <2> QED BY <1>2, <2>1, <2>2 DEF SetLock
<1>3. CASE PreconditionFails(r)
  BY <1>0, <1>3, GotoStep DEF PreconditionFails, sessionDoc, Steps
<1>4. CASE Recheck(r)
  <2>1. PICK a : Honest(a) /\ Answer(r, a)
    BY <1>0, <1>4 DEF Recheck
  <2> QED BY <1>0, <1>4, <2>1, AnswerStep DEF Recheck, sessionDoc
<1>5. CASE Finalize(r)
  BY <1>5, FinalizeGrade
<1>6. CASE FinalizeReplay(r)
  <2>1. Honest(Success(result))
    BY <1>6, ReplyTypes DEF FinalizeReplay, Honest, Success, GradeInv, TypeOK
  <2> QED BY <1>0, <1>6, <2>1, AnswerStep DEF FinalizeReplay, sessionDoc
<1>7. CASE FinalizeFails(r)
  BY <1>0, <1>7, GotoStep DEF FinalizeFails, sessionDoc, Steps
<1>8. CASE Release(r)
  <2>1. /\ submissionLock' \in BOOLEAN
        /\ fresh' \subseteq Requests
    BY <1>0, <1>8 DEF Release, DocumentWritten
  <2>2. CASE Answer(r, Failure("error"))
    BY <1>0, <1>8, <2>1, <2>2, AnswerStep DEF Release
  <2>3. CASE UNCHANGED <<pc, reply>>
    BY <1>8, <2>1, <2>3, QuietStep DEF Release, GradeInv, TypeOK
  <2> QED BY <1>8, <2>2, <2>3 DEF Release
<1>9. CASE OperationFails(r)
  BY <1>0, <1>9, AnswerStep DEF OperationFails, sessionDoc
<1>10. CASE Crash(r)
  BY <1>0, <1>10, AnswerStep DEF Crash, sessionDoc
<1> QED
  BY <1>1, <1>2, <1>3, <1>4, <1>5, <1>6, <1>7, <1>8, <1>9, <1>10
  DEF RequestStep

\* Every step keeps it.
LEMMA StepGrade == GradeInv /\ [Next]_vars => GradeInv'
<1> SUFFICES ASSUME GradeInv, [Next]_vars PROVE GradeInv'
  OBVIOUS
<1>1. CASE UNCHANGED vars
  BY <1>1, QuietStep DEF vars, GradeInv, TypeOK
<1>2. CASE Next
  BY <1>2, RequestGrade, TransitionGrade, PersistGrade, ArchiveGrade DEF Next
<1> QED BY <1>1, <1>2

\* What the grade rests on holds in every state.
THEOREM GradeInvariant == Spec => []GradeInv
BY InitGrade, StepGrade, PTL DEF Spec

\* Every reachable state of submitSession's protocol is well typed.
THEOREM TypeCorrect == Spec => []TypeOK
BY GradeInvariant, PTL DEF GradeInv

\* The metrics a session stores grade exactly its stored answers.
THEOREM GradeMatchesSheetAlways == Spec => []GradeMatchesSheet
BY GradeInvariant, PTL DEF GradeInv

\* No request is ever told metrics other than the stored ones.
THEOREM RepliesAgreeAlways == Spec => []RepliesAgree
BY GradeInvariant, PTL DEF GradeInv

\* Hard mode grades only sheets its timing rules accept.
THEOREM GradeIsTimelyAlways == Spec => []GradeIsTimely
BY GradeInvariant, PTL DEF GradeInv

-----------------------------------------------------------------------------
(* A graded session never changes.                                         *)

\* No step changes a graded session.
LEMMA StepFinal ==
  GradeInv /\ [Next]_vars =>
    (result # Ungraded => UNCHANGED <<status, sheet, result>>)
<1> SUFFICES ASSUME GradeInv, [Next]_vars, result # Ungraded
             PROVE  UNCHANGED <<status, sheet, result>>
  OBVIOUS
<1>1. status = "submitted"
  BY DEF GradeInv, GradeMatchesSheet
<1>2. CASE UNCHANGED vars
  BY <1>2 DEF vars
<1>3. ASSUME NEW r \in Requests,
             ReadSession(r) \/ RequestStep(r) \/ OperationFails(r) \/ Crash(r)
      PROVE  UNCHANGED <<status, sheet, result>>
  BY <1>1, <1>3
  DEF ReadSession, RequestStep, SetLock, PreconditionFails, Recheck, Finalize,
      Finalizable, FinalizeReplay, FinalizeFails, Release, OperationFails,
      Crash, sessionDoc
<1>4. ASSUME NEW actor \in Actors, NEW to \in Statuses,
             TransitionSession(actor, to)
      PROVE  FALSE
  BY <1>1, <1>4 DEF TransitionSession, TransitionAllowed, AllowedNext
<1>5. ~PersistAnswers
  BY <1>1 DEF PersistAnswers, MergeBatch, LiveStatuses
<1>6. CASE ArchiveYear
  BY <1>6 DEF ArchiveYear, sessionDoc
<1> QED
  BY <1>2, <1>3, <1>4, <1>5, <1>6 DEF Next

\* Answers, metrics and status of a graded session are final: no answer batch,
\* transition or late request touches them again.
THEOREM GradeIsFinalAlways == Spec => GradeIsFinal
<1>1. GradeInv /\ [Next]_vars =>
        [result # Ungraded => UNCHANGED <<status, sheet, result>>]_vars
  BY StepFinal
<1> QED
  BY <1>1, GradeInvariant, PTL DEF Spec, GradeIsFinal

-----------------------------------------------------------------------------
(* Submission implements GradedSession.                                    *)

\* The initial states are initial states of GradedSession.
LEMMA InitContract == Init => Contract!Init
<1> SUFFICES ASSUME Init PROVE Contract!Init
  OBVIOUS
<1>1. sheet \in Sheets
  BY InitGrade DEF GradeInv, TypeOK
<1> QED
  BY <1>1 DEF Init, Contract!Init, LiveStatuses, Failure

\* A step tells a caller the metrics as they are after it, or none.
LEMMA StepTells ==
  GradeInv' => Contract!Tell
<1> SUFFICES ASSUME GradeInv' PROVE Contract!Tell
  OBVIOUS
<1>1. \A r \in Requests : reply'[r].metrics \in {Ungraded, result'}
  BY DEF GradeInv, RepliesCarryGrade
<1> QED
  BY <1>1 DEF Contract!Tell

\* Every step is a step of GradedSession, or a stutter.
LEMMA StepContract == GradeInv /\ [Next]_vars => [Contract!Next]_Contract!vars
<1> SUFFICES ASSUME GradeInv, [Next]_vars
             PROVE  [Contract!Next]_Contract!vars
  OBVIOUS
<1>1. Contract!Tell
  BY StepGrade, StepTells
<1>2. CASE UNCHANGED vars
  BY <1>2 DEF vars, Contract!vars
<1>3. ASSUME UNCHANGED <<status, sheet, result>>
      PROVE  Contract!Next
  BY <1>1, <1>3 DEF Contract!Next
<1>4. CASE PersistAnswers
  BY <1>1, <1>4 DEF PersistAnswers, MergeBatch, Contract!Next, Contract!Write
<1>5. ASSUME NEW actor \in Actors, NEW to \in Statuses,
             TransitionSession(actor, to)
      PROVE  Contract!Next
  <2>1. UNCHANGED <<sheet, result>> /\ status' = to
    BY <1>5 DEF TransitionSession
  <2>2. CASE to \in LiveStatuses
    <3>1. status \in LiveStatuses
      BY <1>5, <2>2
      DEF TransitionSession, TransitionAllowed, AllowedNext, LiveStatuses,
          GradeInv, TypeOK, Statuses
    <3> QED BY <1>1, <2>1, <2>2, <3>1 DEF Contract!Next
  <2>3. CASE to \notin LiveStatuses /\ status \in LiveStatuses
    BY <1>1, <2>1, <2>3 DEF Contract!Next, Contract!Close
  <2>4. CASE to \notin LiveStatuses /\ status \notin LiveStatuses
    BY <1>1, <2>1, <2>4 DEF Contract!Next
  <2> QED BY <2>2, <2>3, <2>4
<1>6. ASSUME NEW r \in Requests, Finalize(r)
      PROVE  Contract!Next
  BY <1>1, <1>6
  DEF Finalize, Finalizable, Contract!Next, Contract!Grade, LiveStatuses
<1>7. ASSUME NEW r \in Requests, ~Finalize(r),
             ReadSession(r) \/ RequestStep(r) \/ OperationFails(r) \/ Crash(r)
      PROVE  UNCHANGED <<status, sheet, result>>
  BY <1>7
  DEF ReadSession, RequestStep, SetLock, PreconditionFails, Recheck,
      FinalizeReplay, FinalizeFails, Release, OperationFails, Crash, sessionDoc
<1>8. CASE ArchiveYear
  BY <1>3, <1>8 DEF ArchiveYear, sessionDoc
<1> QED
  BY <1>2, <1>3, <1>4, <1>5, <1>6, <1>7, <1>8 DEF Next

\* The protocol implements its contract: one grade at most, of frozen answers.
THEOREM Implementation == Spec => ImplementsContract
BY InitContract, StepContract, GradeInvariant, PTL
DEF Spec, ImplementsContract, Contract!Spec

-----------------------------------------------------------------------------
(* The lock.  A lost acknowledgement can leave two requests that both act  *)
(* as holders, so exclusion is proved for faults without it; a crash or a  *)
(* failed storage operation can leave the lock with no holder.             *)

\* A request about to lock with a current snapshot sees an unlocked active
\* session; a holder's session was activated and, while active, is locked.
LockInv ==
  /\ \A r \in Requests :
       pc[r] = "lock" /\ r \in fresh => status = "active" /\ ~submissionLock
  /\ OneHolder
  /\ Holders # {} => status \notin {"created", "started"}
  /\ Holders # {} /\ status = "active" => submissionLock
  /\ submissionLock => status \notin {"created", "started"}

\* At first the session is not locked.
LEMMA InitLock == Init => LockInv
BY DEF Init, LockInv, OneHolder, Holders

\* The pcs after a step that moves only one request.
LEMMA MovedPc ==
  ASSUME TypeOK, NEW r \in Requests, NEW step \in Steps, Goto(r, step)
  PROVE  \A s \in Requests : pc'[s] = IF s = r THEN step ELSE pc[s]
BY DEF TypeOK, Goto

\* The steps of a request keep the lock invariant.
LEMMA RequestLock ==
  ASSUME TypeOK, LockInv, "ackLost" \notin Faults, NEW r \in Requests,
         ReadSession(r) \/ RequestStep(r) \/ OperationFails(r) \/ Crash(r)
  PROVE  LockInv'
<1> USE MovedPc DEF LockInv, OneHolder, Holders, Steps, Answer, sessionDoc
<1>1. CASE ReadSession(r)
  <2>1. CASE Goto(r, "lock") /\ status = "active" /\ ~submissionLock
             /\ fresh' = fresh \cup {r}
    BY <1>1, <2>1 DEF ReadSession
  <2>2. CASE Goto(r, "idle") /\ UNCHANGED fresh
    BY <1>1, <2>2 DEF ReadSession
  <2> QED BY <1>1, <2>1, <2>2 DEF ReadSession
<1>2. CASE SetLock(r)
  <2>1. /\ status = "active" /\ status' = "active" /\ ~submissionLock
        /\ submissionLock' = TRUE
        /\ fresh' = {}
        /\ Goto(r, "finalize")
    BY <1>2 DEF SetLock, DocumentWritten
  <2>2. Holders = {}
    BY <2>1
  <2>3. \A s \in Requests : pc'[s] \in {"finalize", "release"} => s = r
    BY <2>1, <2>2
  <2> QED BY <2>1, <2>3
<1>3. CASE PreconditionFails(r)
  BY <1>3 DEF PreconditionFails
<1>4. CASE Recheck(r)
  BY <1>4 DEF Recheck
<1>5. CASE Finalize(r)
  <2>1. /\ pc[r] = "finalize" /\ status' = "submitted"
        /\ submissionLock' = FALSE /\ fresh' = {} /\ Goto(r, "idle")
    BY <1>5 DEF Finalize, DocumentWritten
  <2> QED BY <2>1
<1>6. CASE FinalizeReplay(r)
  BY <1>6 DEF FinalizeReplay
<1>7. CASE FinalizeFails(r)
  <2>1. /\ pc[r] = "finalize" /\ Goto(r, "release")
        /\ UNCHANGED <<status, submissionLock, fresh>>
    BY <1>7 DEF FinalizeFails
  <2> QED BY <2>1
<1>8. CASE Release(r)
  <2>1. /\ pc[r] = "release" /\ Goto(r, "idle") /\ UNCHANGED status
    BY <1>8 DEF Release
  <2>2. \A s \in Requests : pc'[s] \notin {"finalize", "release"}
    BY <2>1
  <2>3. CASE status = "active" /\ submissionLock
    <3>1. submissionLock' = FALSE /\ fresh' = {}
      BY <1>8, <2>3 DEF Release, DocumentWritten
    <3> QED BY <2>1, <2>2, <3>1
  <2>4. CASE ~(status = "active" /\ submissionLock)
    <3>1. UNCHANGED <<submissionLock, fresh>>
      BY <1>8, <2>4 DEF Release
    <3> QED BY <2>1, <2>2, <3>1
  <2> QED BY <2>3, <2>4
<1>9. CASE OperationFails(r)
  BY <1>9 DEF OperationFails
<1>10. CASE Crash(r)
  BY <1>10 DEF Crash
<1> QED
  BY <1>1, <1>2, <1>3, <1>4, <1>5, <1>6, <1>7, <1>8, <1>9, <1>10
  DEF RequestStep

\* Every step keeps it.
LEMMA StepLock ==
  TypeOK /\ LockInv /\ "ackLost" \notin Faults /\ [Next]_vars => LockInv'
<1> SUFFICES ASSUME TypeOK, LockInv, "ackLost" \notin Faults, [Next]_vars
             PROVE  LockInv'
  OBVIOUS
<1>1. CASE UNCHANGED vars
  BY <1>1 DEF vars, LockInv, OneHolder, Holders
<1>2. ASSUME NEW actor \in Actors, NEW to \in Statuses,
             TransitionSession(actor, to)
      PROVE  LockInv'
  <2>1. /\ UNCHANGED <<submissionLock, pc>> /\ fresh' = {}
        /\ status' = to /\ to \in AllowedNext[status]
    BY <1>2 DEF TransitionSession, TransitionAllowed, DocumentWritten
  <2>2. status \notin {"created", "started"} =>
          to \in {"submitted", "expired", "terminated"}
    BY <2>1 DEF AllowedNext, TypeOK, Statuses
  <2> QED BY <2>1, <2>2 DEF LockInv, OneHolder, Holders
<1>3. CASE PersistAnswers
  BY <1>3 DEF PersistAnswers, MergeBatch, DocumentWritten, LockInv, OneHolder, Holders
<1>4. CASE ArchiveYear
  BY <1>4 DEF ArchiveYear, sessionDoc, LockInv, OneHolder, Holders
<1> QED
  BY <1>1, <1>2, <1>3, <1>4, RequestLock DEF Next

\* As long as no acknowledgement is lost, at most one request acts as the
\* holder of submissionLock, even if instances crash or storage fails.
THEOREM LockExcludes == "ackLost" \notin Faults => (Spec => []OneHolder)
<1> SUFFICES ASSUME "ackLost" \notin Faults PROVE Spec => []OneHolder
  OBVIOUS
<1>1. TypeOK /\ LockInv /\ [Next]_vars => LockInv'
  BY StepLock
<1>2. LockInv => OneHolder
  BY DEF LockInv
<1> QED
  BY <1>1, <1>2, InitLock, TypeCorrect, PTL DEF Spec

\* With every operation completing, a locked active session has a holder.
LEMMA StepHolder ==
  TypeOK /\ LockInv /\ LockHasHolder /\ Faults \subseteq {"content"}
    /\ [Next]_vars => LockHasHolder'
<1> SUFFICES ASSUME TypeOK, LockInv, LockHasHolder,
                    Faults \subseteq {"content"}, [Next]_vars
             PROVE  LockHasHolder'
  OBVIOUS
<1> USE DEF LockHasHolder, Holders
<1>1. CASE UNCHANGED vars
  BY <1>1 DEF vars
<1>2. ASSUME NEW actor \in Actors, NEW to \in Statuses,
             TransitionSession(actor, to)
      PROVE  LockHasHolder'
  <2>1. /\ UNCHANGED <<submissionLock, pc>>
        /\ status' = to /\ to \in AllowedNext[status]
    BY <1>2 DEF TransitionSession, TransitionAllowed
  <2>2. to = "active" => status = "started"
    BY <2>1 DEF AllowedNext, TypeOK, Statuses
  <2> QED BY <2>1, <2>2 DEF LockInv
<1>3. CASE PersistAnswers
  BY <1>3 DEF PersistAnswers, MergeBatch
<1>4. CASE ArchiveYear
  BY <1>4 DEF ArchiveYear, sessionDoc
<1>5. ASSUME NEW r \in Requests, UNCHANGED <<status, submissionLock>>,
             NEW step \in Steps, Goto(r, step),
             pc[r] \in {"finalize", "release"} => step = "release"
      PROVE  LockHasHolder'
  BY <1>5, MovedPc
<1>6. ASSUME NEW r \in Requests, SetLock(r)
      PROVE  LockHasHolder'
  BY <1>6, MovedPc DEF SetLock, Steps
<1>7. ASSUME NEW r \in Requests, Finalize(r) \/ Release(r)
      PROVE  LockHasHolder'
  BY <1>7 DEF Finalize, Release
<1>8. ASSUME NEW r \in Requests,
             \/ ReadSession(r) \/ PreconditionFails(r) \/ Recheck(r)
             \/ FinalizeFails(r)
      PROVE  LockHasHolder'
  BY <1>5, <1>8
  DEF ReadSession, PreconditionFails, Recheck, FinalizeFails, Answer,
      sessionDoc, Steps
<1>9. ASSUME NEW r \in Requests, FinalizeReplay(r)
      PROVE  LockHasHolder'
  BY <1>9 DEF FinalizeReplay, sessionDoc
<1> QED
  BY <1>1, <1>2, <1>3, <1>4, <1>6, <1>7, <1>8, <1>9
  DEF Next, RequestStep, OperationFails, Crash

\* Without crashes or storage failures no failed submission leaves an active
\* session locked.
THEOREM NoStrandedLock ==
  Faults \subseteq {"content"} => (Spec => []LockHasHolder)
<1> SUFFICES ASSUME Faults \subseteq {"content"}
             PROVE  Spec => []LockHasHolder
  OBVIOUS
<1>1. Init => LockHasHolder
  BY DEF Init, LockHasHolder
<1>2. TypeOK /\ LockInv /\ [Next]_vars => LockInv'
  BY StepLock
<1>3. TypeOK /\ LockInv /\ LockHasHolder /\ [Next]_vars => LockHasHolder'
  BY StepHolder
<1> QED
  BY <1>1, <1>2, <1>3, InitLock, TypeCorrect, PTL DEF Spec
=============================================================================
