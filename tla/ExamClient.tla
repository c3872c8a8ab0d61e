----------------------------- MODULE ExamClient -----------------------------
(***************************************************************************)
(* The exam page (ExamRuntimeApp) and the server, from the moment the exam *)
(* begins until the session is submitted.  The page keeps the answers that *)
(* are not on the server yet, one per question, and sends them in batches  *)
(* from several callbacks that do not wait for each other: every five      *)
(* seconds, when the network returns, and before a submission.             *)
(*                                                                         *)
(* The page's clock is the server's.  Modes other than Hard.               *)
(***************************************************************************)
EXTENDS AnswerBatch, Subsequences, SequencesExt, FiniteSetsExt

CONSTANTS
  FirstQuestion,  \* the question shown first
  Deadline,       \* deadlineEpochMs
  Horizon,        \* bound: the clock stops here
  MaxFlights,     \* bound: batch requests under way at the same time
  MaxWrites,      \* bound: answers queued for one question
  MaxLosses,      \* bound: requests that fail on the page
  MaxEvents       \* bound: answers queued and requests failed, all together

ASSUME ExamClientAssumption ==
  /\ FirstQuestion \in Questions
  /\ Deadline \in Nat \ {0} /\ Horizon \in Nat /\ Deadline <= Horizon
  /\ MaxFlights \in Nat /\ MaxWrites \in Nat
  /\ MaxLosses \in Nat /\ MaxEvents \in Nat

VARIABLES
  now,        \* the clock
  selected,   \* selectedQuestionId
  shown,      \* responseStateByQuestionId
  spent,      \* questionTimingById[q].timeSpentMs, from the page's own ticks
  pending,    \* pendingAnswerMap, in its key order
  lastWrite,  \* lastAnswerWriteAtMs
  life,       \* sessionLifecycleState
  phase,      \* where submitSession is
  reason,     \* why it was called: "manual" or "expiry"
  flights,    \* POST .../answers requests under way
  post,       \* POST .../submit
  lost,       \* how many requests have failed on the page
  status,     \* session.status on the server
  sheet,      \* session.answerMap and questionTimeMap on the server
  final,      \* history: the batch sent for the submission under way
  writes,     \* history: answers queued for each question
  reported    \* history: the timeSpent of all of them together

page == <<selected, shown, spent, pending, lastWrite, life, phase, reason>>
server == <<status, sheet>>
history == <<final, writes, reported>>
network == <<flights, post, lost>>
vars == <<now, page, network, server, history>>

Clock == 0..Horizon

\* A batch request: sent, or answered; awaited until the page sees an error.
Flights ==
  [answers : Seq(Writes(Clock)), since : Int, sentAt : Clock,
   for : {"sync", "submit"}, stage : {"sent", "ok", "refused"},
   awaited : BOOLEAN]

TypeOK ==
  /\ now \in Clock
  /\ selected \in Questions
  /\ shown \in [Questions -> Responses]
  /\ spent \in [Questions -> Clock]
  /\ pending \in Seq(Writes(Clock))
  /\ \A i, j \in DOMAIN pending :
       pending[i].question = pending[j].question => i = j
  /\ lastWrite \in -Interval..Horizon
  /\ life \in {"active", "expired", "submitted", "terminated"}
  /\ phase \in {"none", "flush", "post"}
  /\ reason \in {"none", "manual", "expiry"}
  /\ (phase = "none") = (reason = "none")
  /\ flights \subseteq Flights
  /\ \A f \in flights : Len(f.answers) \in 1..MaxBatch
  /\ post \in {"none", "sent", "served"}
  /\ lost \in 0..MaxLosses
  /\ status \in {"active", "submitted"}
  /\ sheet \in [Questions -> [option : Responses \cup {Absent},
                              at : Clock \cup {-1}, spent : Nat]]
  /\ final \in Seq(Writes(Clock))
  /\ writes \in [Questions -> 0..MaxWrites]
  /\ reported \in [Questions -> Nat]

\* beginExamSession: the first batch need not wait.
Init ==
  /\ now = 0
  /\ selected = FirstQuestion
  /\ shown = [q \in Questions |-> Unanswered]
  /\ spent = [q \in Questions |-> 0]
  /\ pending = <<>>
  /\ lastWrite = -Interval
  /\ life = "active"
  /\ phase = "none"
  /\ reason = "none"
  /\ flights = {}
  /\ post = "none"
  /\ lost = 0
  /\ status = "active"
  /\ sheet = NoAnswers
  /\ final = <<>>
  /\ writes = [q \in Questions |-> 0]
  /\ reported = [q \in Questions |-> 0]

-----------------------------------------------------------------------------
(* The page: time, navigation and answers.                                 *)

\* The one-second interval: the time goes to the question on the screen.
Tick ==
  /\ now < Horizon
  /\ now' = now + 1
  /\ spent' = IF life = "submitted" THEN spent
                ELSE [spent EXCEPT ![selected] = @ + 1]
  /\ UNCHANGED <<selected, shown, pending, lastWrite, life, phase, reason,
                 network, server, history>>

\* The submit dialog covers the page while a manual submission runs.
Navigable == life = "active" /\ phase = "none"

Select(q) ==
  /\ Navigable
  /\ q # selected
  /\ selected' = q
  /\ UNCHANGED <<now, shown, spent, pending, lastWrite, life, phase, reason,
                 network, server, history>>

Events == lost + MapThenSumSet(LAMBDA q : writes[q], Questions)

\* queueAnswerWrite: the response, with the question's time so far.
WriteOf(q, response) ==
  [question |-> q, option |-> response, at |-> now, spent |-> spent[q]]

\* pendingAnswerMap with w in it: in the place of the question's write if it
\* has one, and else at the end.
Queue(queue, w) ==
  IF \E i \in DOMAIN queue : queue[i].question = w.question
    THEN [i \in DOMAIN queue |->
            IF queue[i].question = w.question THEN w ELSE queue[i]]
    ELSE Append(queue, w)

QueueAnswer(q, response) ==
  /\ writes[q] < MaxWrites /\ Events < MaxEvents
  /\ pending' = Queue(pending, WriteOf(q, response))
  /\ writes' = [writes EXCEPT ![q] = @ + 1]
  /\ reported' = [reported EXCEPT ![q] = @ + spent[q]]

\* The writes of a question that the page or the network holds.
WritesOf(q) ==
  {w \in ToSet(pending) \cup UNION {ToSet(f.answers) : f \in flights} :
     w.question = q}

\* An option is picked, changed or cleared, or the answer is saved again.  Two
\* changes of a question are at least a unit of the clock apart.
Answer(response) ==
  /\ Navigable
  /\ \A w \in WritesOf(selected) : w.at < now
  /\ sheet[selected].at < now
  /\ shown' = [shown EXCEPT ![selected] = response]
  /\ QueueAnswer(selected, response)
  /\ UNCHANGED <<now, selected, spent, lastWrite, life, phase, reason,
                 network, server, final>>

-----------------------------------------------------------------------------
(* Batches: flushAnswerBatch and its requests.                             *)

\* Mutant: the batch is not cut to its maximum size.
WholeQueue(queue) == queue

\* The first answers of pendingAnswers.
FirstOf(queue) ==
  SubSeq(queue, 1, IF Len(queue) < MaxBatch THEN Len(queue) ELSE MaxBatch)

Flight(purpose) ==
  [answers |-> FirstOf(pending), since |-> now - lastWrite, sentAt |-> now,
   for |-> purpose, stage |-> "sent", awaited |-> TRUE]

Send(purpose) ==
  /\ Cardinality(flights) < MaxFlights
  /\ flights' = flights \cup {Flight(purpose)}

\* The interval, the heartbeat and a full queue flush alike, at least Interval
\* after the last stored batch; returning online, where the network can fail,
\* flushes at once.
Sync ==
  /\ life # "submitted"
  /\ pending # <<>>
  /\ now - lastWrite >= Interval \/ MaxLosses > 0
  /\ Send("sync")
  /\ UNCHANGED <<now, page, post, lost, server, history>>

\* persistIncrementalAnswers takes the request.  Nobody reads the answer if the
\* page has given up on it, and a refusal changes the page only if it waits to
\* submit.
ServeBatch(f) ==
  /\ f.stage = "sent"
  /\ sheet' = AfterBatch(status, sheet, f.answers, f.since)
  /\ LET stored == BatchAccepted(status, sheet, f.answers, f.since)
         reply == [f EXCEPT !.stage = IF stored THEN "ok" ELSE "refused"]
     IN flights' = (flights \ {f}) \cup
          (IF f.awaited /\ (stored \/ f.for = "submit") THEN {reply} ELSE {})
  /\ UNCHANGED <<now, page, post, lost, status, history>>

SubmissionEnds == phase' = "none" /\ reason' = "none" /\ final' = <<>>

\* A batch that fails before a submission fails the submission: a manual one
\* may be tried again, an automatic one terminates the session.
SubmissionFails ==
  /\ SubmissionEnds
  /\ life' = IF reason = "expiry" THEN "terminated" ELSE life

\* The questions of a batch, persisted or ignored by the server.
Settled(f) == {f.answers[i].question : i \in DOMAIN f.answers}

\* Mutant: the reply to a batch empties the queue.
UnsettledNone(f) == <<>>

\* What stays pending after the reply: settled questions go, whatever was
\* queued for them since the batch was sent.
Unsettled(f) ==
  Keep(pending, {i \in DOMAIN pending : pending[i].question \notin Settled(f)})

\* The reply to an accepted batch.
BatchStored(f) ==
  /\ f.stage = "ok" /\ f.awaited
  /\ flights' = flights \ {f}
  /\ pending' = Unsettled(f)
  /\ lastWrite' = f.sentAt
  /\ IF f.for = "submit"
       THEN phase' = "post" /\ post' = "sent" ELSE UNCHANGED <<phase, post>>
  /\ UNCHANGED <<now, selected, shown, spent, life, reason, lost, server,
                 history>>

\* Mutant: a submission goes on although its batch failed.
FlushFailureIgnored(f) ==
  IF f.for = "submit"
    THEN phase' = "post" /\ post' = "sent" /\ UNCHANGED <<life, reason, final>>
    ELSE UNCHANGED <<phase, life, reason, final, post>>

\* flushAnswerBatch returns false.
FlushFails(f) ==
  /\ IF f.for = "submit"
       THEN SubmissionFails ELSE UNCHANGED <<phase, life, reason, final>>
  /\ UNCHANGED post

\* The reply is a refusal.
BatchRefused(f) ==
  /\ f.stage = "refused"
  /\ flights' = flights \ {f}
  /\ FlushFails(f)
  /\ UNCHANGED <<now, selected, shown, spent, pending, lastWrite, lost, server,
                 writes, reported>>

\* The request fails on the page: it was lost, or it has been answered, or it
\* arrives later.
BatchLost(f) ==
  /\ f.awaited
  /\ lost < MaxLosses /\ Events < MaxEvents
  /\ lost' = lost + 1
  /\ \/ flights' = flights \ {f}
     \/ /\ f.stage = "sent"
        /\ flights' = (flights \ {f}) \cup {[f EXCEPT !.awaited = FALSE]}
  /\ FlushFails(f)
  /\ UNCHANGED <<now, selected, shown, spent, pending, lastWrite, server, writes,
                 reported>>

-----------------------------------------------------------------------------
(* Expiry and submission.                                                  *)

\* remainingMs is 0.
Expire ==
  /\ life = "active"
  /\ now >= Deadline
  /\ life' = "expired"
  /\ UNCHANGED <<now, selected, shown, spent, pending, lastWrite, phase, reason,
                 network, server, history>>

\* submitSession: flush the pending answers once, whatever their pace, then
\* submit; with nothing pending, submit at once.
BeginSubmission(why) ==
  /\ phase = "none"
  /\ reason' = why
  /\ final' = FirstOf(pending)
  /\ IF pending = <<>>
       THEN phase' = "post" /\ post' = "sent" /\ UNCHANGED flights
       ELSE phase' = "flush" /\ Send("submit") /\ UNCHANGED post

\* submitExam queues the question on the screen once more.  The flush uses the
\* pendingAnswers of the last render, without it.
SubmitManually ==
  /\ life = "active"
  /\ BeginSubmission("manual")
  /\ QueueAnswer(selected, shown[selected])
  /\ UNCHANGED <<now, selected, shown, spent, lastWrite, life, lost, server>>

SubmitOnExpiry ==
  /\ life = "expired"
  /\ BeginSubmission("expiry")
  /\ UNCHANGED <<now, selected, shown, spent, pending, lastWrite, life, lost, server,
                 writes, reported>>

\* SubmissionService.submitSession, which answers a replay like the first.
ServeSubmission ==
  /\ post = "sent"
  /\ status' = "submitted"
  /\ post' = IF phase = "post" THEN "served" ELSE "none"
  /\ UNCHANGED <<now, page, flights, lost, sheet, history>>

Submitted ==
  /\ phase = "post" /\ post = "served"
  /\ SubmissionEnds /\ life' = "submitted" /\ post' = "none"
  /\ UNCHANGED <<now, selected, shown, spent, pending, lastWrite, flights, lost,
                 server, writes, reported>>

\* The submission request fails on the page; it may still arrive.
PostFails ==
  /\ phase = "post"
  /\ lost < MaxLosses /\ Events < MaxEvents
  /\ lost' = lost + 1
  /\ SubmissionFails
  /\ post' \in IF post = "sent" THEN {"none", "sent"} ELSE {"none"}
  /\ UNCHANGED <<now, selected, shown, spent, pending, lastWrite, flights,
                 server, writes, reported>>

Next ==
  \/ Tick
  \/ \E q \in Questions : Select(q)
  \/ \E response \in Responses : Answer(response)
  \/ Sync
  \/ \E f \in flights : \/ ServeBatch(f) \/ BatchStored(f)
                        \/ BatchRefused(f) \/ BatchLost(f)
  \/ Expire \/ SubmitManually \/ SubmitOnExpiry
  \/ ServeSubmission \/ Submitted \/ PostFails

Spec == Init /\ [][Next]_vars

-----------------------------------------------------------------------------
(* Properties.                                                             *)

InSheet(q) == sheet[q].option # Absent

\* A question answered once is never lost on the way: until it is stored it
\* stays pending, through failed, repeated and late batches.
AnsweredOnceIsKept ==
  \A q \in Questions : writes[q] = 1 =>
    \/ sheet[q].option = shown[q]
    \/ \E i \in DOMAIN pending :
         pending[i].question = q /\ pending[i].option = shown[q]

\* The server counts the time of every answer at most once, however often it
\* is sent: a question has no more time than its answers reported.
TimeCountedOnce == \A q \in Questions : sheet[q].spent <= reported[q]

\* The stored times add up to no more than the exam had lasted at the newest
\* answer, give or take the tolerance.
TimeWithinElapsed ==
  (\E q \in Questions : InSheet(q)) =>
    \E q \in Questions : TotalSpent(sheet) <= sheet[q].at + Tolerance

\* The answers flushed for a submission are on the sheet, or newer ones, when
\* the page asks for the grading.
FlushedBeforePost ==
  phase = "post" => \A i \in DOMAIN final :
    InSheet(final[i].question) /\ sheet[final[i].question].at >= final[i].at

\* A stored answer is only ever replaced by one given later: batches that
\* overtake each other, or arrive again, never bring an old answer back.
NewestStays ==
  [][\A q \in Questions :
       /\ sheet'[q].at >= sheet[q].at
       /\ sheet'[q].at = sheet[q].at => sheet'[q] = sheet[q]]_vars

\* What the page and the network hold of all questions.
Held == UNION {WritesOf(q) : q \in Questions}

\* The record that the page, the network and the server implement.
Record ==
  INSTANCE ExamRecord WITH
    Answers <- Writes(Clock),
    NoRecord <- [option |-> Absent, at |-> -1, spent |-> 0],
    open <- status = "active",
    held <- Held

\* However batches are lost, repeated, overtaken or answered too late: an
\* answer given is held until its question is on the sheet, a stored answer is
\* only replaced by one held and given later, and none after the submission.
ImplementsRecord == Record!Spec

\* What is graded is what the student sees: "Submission always operates on
\* the most recent answer state."
GradedIsShown ==
  status = "submitted" =>
    \A q \in Questions : InSheet(q) \/ shown[q] # Unanswered =>
      sheet[q].option = shown[q]
=============================================================================
