---------------------------- MODULE AnswerBatch ----------------------------
(***************************************************************************)
(* How the server merges a batch of answers into a session:                *)
(* AnswerBatchService.persistIncrementalAnswers, one transaction that      *)
(* stores the whole batch or, if any of it is invalid, nothing.            *)
(*                                                                         *)
(* Time is counted in units since the session's start (startedAt, or else  *)
(* createdAt).  The code's 5 seconds of tolerance and 5 seconds between    *)
(* writes are the constants Tolerance and Interval.  No question has a     *)
(* time limit here (a mode other than Hard): none is refused for it.       *)
(***************************************************************************)
EXTENDS Integers, Sequences, FiniteSets

CONSTANTS
  Questions,   \* the run's questions
  Options,     \* responses a student can give
  Unanswered,  \* the string "UNANSWERED" the client sends for an empty response
  Absent,      \* no answer stored for the question
  Interval,    \* minimumWriteIntervalMs
  MaxBatch,    \* maxPendingAnswers
  Tolerance    \* TIMING_CLOCK_SKEW_TOLERANCE_MS

ASSUME AnswerBatchAssumption ==
  /\ IsFiniteSet(Questions)
  /\ Unanswered \notin Options
  /\ Absent \notin Options \cup {Unanswered}
  /\ Interval \in Nat /\ MaxBatch \in Nat \ {0} /\ Tolerance \in Nat

Responses == Options \cup {Unanswered}

\* One element of the request's "answers".
Writes(clock) ==
  [question : Questions, option : Responses, at : clock, spent : clock]

\* What the session keeps of a question: the answer, its clientTimestamp and
\* the cumulative time.  exitedAt is that timestamp too after every write.
\* With no answer the timestamp is before every other.
NoAnswers == [q \in Questions |-> [option |-> Absent, at |-> -1, spent |-> 0]]

\* The units of time a sheet has counted, <<q, n>> being the nth of question q.
Units(sheet) == UNION {{q} \X (1..sheet[q].spent) : q \in Questions}
TotalSpent(sheet) == Cardinality(Units(sheet))

\* Mutant: an older answer replaces a newer one.
NeverStale(sheet, w) == FALSE

\* A write older than the stored answer is ignored.
Stale(sheet, w) == w.at < sheet[w.question].at

\* Mutant: a repeated write counts its time again.
NeverReplay(sheet, w) == FALSE

\* A write not newer than the last counted one adds no time.
Replay(sheet, w) == w.at <= sheet[w.question].at

\* The time a write adds: timeSpent is taken for the time since the last one.
Delta(sheet, w) == IF Replay(sheet, w) THEN 0 ELSE w.spent

\* Mutant: only the single write is compared with the elapsed time.
ReportedFits(total, w) == w.spent <= w.at + Tolerance

\* Neither a question's reported time nor the session's projected total may
\* exceed the time since the session started.
Fits(total, w) == w.spent <= w.at + Tolerance /\ total <= w.at + Tolerance

\* The positions of the writes that are not ignored.  Every write is compared
\* with the stored sheet, also where the batch has two of a question.
Fresh(sheet, batch) == {i \in DOMAIN batch : ~Stale(sheet, batch[i])}

\* The units that the writes up to the ith add, and with them the session's
\* projected total.
Added(sheet, batch, i) ==
  UNION {{j} \X (1..Delta(sheet, batch[j])) :
           j \in {k \in Fresh(sheet, batch) : k <= i}}
Projected(sheet, batch, i) ==
  TotalSpent(sheet) + Cardinality(Added(sheet, batch, i))

Valid(sheet, batch) ==
  \A i \in Fresh(sheet, batch) : Fits(Projected(sheet, batch, i), batch[i])

\* The sheet with the batch: of two writes of a question the last one stays.
Merged(sheet, batch) ==
  [q \in Questions |->
     LET mine == {i \in Fresh(sheet, batch) : batch[i].question = q}
         w == batch[CHOOSE i \in mine : \A j \in mine : j <= i]
     IN  IF mine = {} THEN sheet[q]
         ELSE [option |-> w.option, at |-> w.at,
               spent |-> sheet[q].spent + Delta(sheet, w)]]

\* assertAnswerWriteBatchingConstraints; "since" is the client's word.
WellPaced(batch, since) == Len(batch) \in 1..MaxBatch /\ since >= Interval

\* ACTIVE_WRITE_STATUSES; the page is answered in "active" only.
Writable == {"created", "started", "active"}

BatchAccepted(status, sheet, batch, since) ==
  status \in Writable /\ WellPaced(batch, since) /\ Valid(sheet, batch)

\* The sheet after a request with the batch, accepted or not.
AfterBatch(status, sheet, batch, since) ==
  IF BatchAccepted(status, sheet, batch, since)
    THEN Merged(sheet, batch) ELSE sheet
=============================================================================
