# TLA+ verification of the exam platform

The platform runs timed exams: a browser page collects answers, Firebase
functions store them, grade the session and run a pipeline of analytics,
billing counts, insights and e-mail jobs; an administrator archives the
academic year. Around the exam, administrators upload rosters and assign runs,
the vendor deploys calibrations and licenses, Stripe reports payments, and a
meter counts what is billed. This directory models the path of an exam session
and the parts around it, model-checks them with TLC on small instances, and
proves their safety properties with TLAPS for all instances. Paths are relative
to `src/`; `services/` is `functions/src/services/`.

## The system

| Part | State | Operations | What makes it hard | What makes it correct |
|---|---|---|---|---|
| Session lifecycle (`services/session.ts`) | `sessions/{id}.status`, start and deadline times | start, transition, write-batching policy | starts of one student race; a query limited to 25 documents | one live session per student and run; terminal states stay |
| Answer batching (`services/answerBatch.ts`) | `answerMap`, `questionTimeMap` | `persistIncrementalAnswers` (a transaction) | batches late, repeated, overtaking each other, after the end | the newest answer wins, time counts once and fits the elapsed time |
| Submission engine (`services/submission.ts`) | `submissionLock`, status, metrics | lock, re-read, finalize, replay, release | two requests at once; death or lost acknowledgement between steps; answers and archiving in between | graded once, from what is stored, everybody told the same; the lock excludes and is given up |
| Failure recovery (`services/failureRecovery.ts`, triggers) | retry jobs, Cloud Tasks, dead letters | queue, claim, run, retry, sweep, dead-letter | three kinds of executor; redelivered events; tasks dropped; crashes | one execution at a time; exact retries; nothing forgotten; jobs settle |
| Post-submission pipeline (`services/postSubmissionPipeline.ts` and its engines) | analytics documents with a last-session marker, insights, e-mail jobs | eight stages, each a transaction or a write | a stage fails and all are run again, beside other sessions | effects in order, complete, and counted once |
| Usage metering (`services/usageMetering.ts`, triggers) | `usageMeter` by month, markers of counted events | record a session, an assignment, a student status | events late, repeated, in any order, dated by a document field; a month's first event counts by a query | each event counts once, and the count is that of the active students |
| Billing (`services/billingSnapshot.ts`) | `billingSnapshots` by month | make a month's bill, on schedule or for a Stripe event; set its payment status | the meter is read before the transaction; two callers make the same bill | a bill never exceeds the meter and never changes |
| Licensing and claims (`services/licenseManagement.ts`, `paymentEventIntegration.ts`, `licenseClaimFreshness.ts`, `customClaimSynchronization.ts`, `identitySessionSecurity.ts`, `adminSettings.ts`) | license and history, Stripe event log, `settingsUsers`, custom claims, valid sessions | vendor update, Stripe event, staff access, password reset, soft delete; each projects into claims and revokes sessions | redelivered events; users are projected one by one; failures half-way; license and access write the same claims | an event applies once; answered means projected; no stale claims once it is; claims follow access |
| Students (`services/studentBulkIngestion.ts`, `studentOnboardingActivation.ts`, `studentSoftDelete.ts`) | student documents, Auth accounts, onboarding mails | upload with deactivation and rollback, first login, soft delete | documents and accounts are never in one transaction; reads are old when written | accounts, claims and mails agree with the roster |
| Templates, assignments, calibration (`services/templateCreation.ts`, `assignmentCreation.ts`, `adminTests.ts`, `adminRuns.ts`, `calibrationDeployment.ts`) | template status, run documents with their calibration version, analytics documents | create, process the creation event, deploy, start, submit | a run is written by its request and again, later, by its event | the sessions of a run work with one version |
| Archive and retention (`services/archivePipeline.ts`, `services/adminSettings.ts`, `services/dataTierPartition.ts`, `services/dataRetentionPolicy.ts`) | year status, BigQuery rows, deleted documents | archive (nine steps), lock from the settings page, retention | separate reads while sessions go on; two requests; a lock written on an old read; retries | nothing is submitted in a locked year; a request that found the year locked leaves no submitted session out |
| Exam page (`apps/exam/src/ExamRuntimeApp.tsx`) | answers on screen, `pendingAnswerMap`, clock | answer, sync, flush, submit, expire | callbacks that do not wait for each other; lost requests | what is answered is kept, stored and graded |
| Question bank; risk and pattern engines; e-mail queue; governance and audit; vendor analytics and simulation; search and CDN; portals; the gateway's checks of a request | documents of their own | uploads, reports, views | mostly single-document updates, pure computations or views | see "Not modelled" |

They meet in the session document. The page posts batches to answer batching,
then asks the submission engine to submit. Its finalize transaction makes the
document `submitted`; the update event starts the pipeline; a pipeline that
throws leaves a retry job with failure recovery, which runs it again from its
first stage. Starts and submissions are refused once the year is not `active`
(batches look at the session document only); the archive exports the submitted
sessions and retention deletes them afterwards.

The other parts meet in documents and in events. A session starts with the
calibration version of its run's document, which assignment creation took from
the institute. Every write of a student and every new run sends an event to the
meter; the bill is made from the meter; a Stripe event changes the license,
projects it into the claims and then makes or marks the bill. The gateway
believes the claims in a token and looks at no document, so licensing, staff
access, uploads and soft deletes all write the claims of the same users and
revoke their sessions.

At this commit no handler calls `transitionSessionState`, so nothing outside
the tests takes a session from `created` to `active` (the repository's wiring
plan lists it). The models let a caller make the transitions the service
allows, as the lifecycle tests do.

## Modules

| Module | What it models | How it corresponds |
|---|---|---|
| `SessionLifecycle` | statuses, transition table, actor rules | definitions shared by the modules that hold a session |
| `GradedSession` | abstract: what a submission promises | four actions, no locks, requests or faults |
| `Submission` | one session, any number of `submitSession` requests, batches, transitions, archiving | `pc[r]` is the await a request is at; `fresh` holds the requests whose `updateTime` precondition still holds; each transaction is one action with its outcomes as disjuncts |
| `SubmissionProofs` | theorems about `Submission` | |
| `AnswerBatch` | the merge of a batch into the sheet | the loop over the batch is stated write by write: each is compared with the stored sheet and with the projected total up to it, all or nothing; a total is the number of time units counted so far |
| `Subsequences` | `filter` | `Keep(s, P)`, the elements of a sequence at a set of positions, in order |
| `ExamClient` | the page, its requests, the server's answers | each callback and each completion of an awaited request is an action; a request is served at any later time and its reply seen, or lost, later still |
| `ExamRecord` | abstract: what page, network and server promise about the answers | give, store, drop, close; no queue, batches, requests or replies |
| `FailureRecovery` | triggers, jobs, tasks, sweep, dead letters | `schedule` keeps the jobs in the order of `nextAttemptAt` and `due` how many of them are due; executions of a claimed job are `claims` |
| `RetryPolicy` | abstract: what the retry queue promises | run, finish, fail, lose; no documents, tasks, claims or sweeps |
| `QueueProofs` | theorems about `ExamClient` with `AnswerBatch` and `ExamRecord`, and about `FailureRecovery` | |
| `PostSubmission` | executions of the pipeline for several sessions | `at[s][n]` is the stage of the n-th execution; `counted[d][s]` is how often document `d` has added session `s`, in place of the sums |
| `PostSubmissionProofs` | theorems about `PostSubmission` | |
| `ExamYear` | the runs and sessions of a year, archive requests, the settings page's lock, retention | `pc[a]` is the step of an archive request; the reads of the year, of the runs and of each run's sessions, the lock, the BigQuery calls and the final write are separate actions. `lock[k]` is where `AdminSettingsService.lockAcademicYear` is: two reads, then its plain write |
| `ExamYearProofs` | theorems about `ExamYear` | |
| `Licensing` | license, event log, projection into claims and sessions, staff access | `pc[r]` is the await a webhook or a call is at, `step[r][u]` what it still has to do to one user: read the authority, write or clear the claims, revoke; users go on beside one another, as in `Promise.all` |
| `LicensingProofs` | theorems about `Licensing` | |
| `Billing` | metered events, a meter and a bill per month | `events` are the writes not yet or already counted, by id; `metered[c]` the markers of a month; `task` what a billing invocation has read |
| `BillingProofs` | theorems about `Billing` | |
| `Roster` | uploads over student documents, Auth accounts and mails | `row[u][s]` is the next account call of one row; the transaction, the audit entry after it, the rollback and the clearing of claims are separate actions |
| `RosterProofs` | theorems about `Roster` | |
| `Assignments` | a template, its runs, their processing, sessions | `Begin` is the check of the window in `processAssignmentCreated`, `Read` its read of the documents, `Commit` its transaction, which reads nothing; a request and an event are both such calls |
| `AssignmentsProofs` | theorems about `Assignments` | |
| `MCSubmission`, `MCExamClient`, `MCFailureRecovery`, `MCPostSubmission`, `MCExamYear`, `MCLicensing`, `MCBilling`, `MCRoster`, `MCAssignments` | instances | model values, symmetry, the functions given to constants |

`ExamClient` extends `AnswerBatch`; `Submission` and `ExamYear` extend
`SessionLifecycle`; `ExamClient` and `FailureRecovery` filter with `Subsequences`;
`Submission` has an instance of `GradedSession`, `ExamClient` one of
`ExamRecord`, `FailureRecovery` one of `RetryPolicy`. A submitted session is one step in `ExamClient` and `ExamYear`: `Submission` is where its
requests are taken apart. `Billing` has the writes of an upload in one step,
with statuses read before (`Earlier`), and `Licensing`
soft deletes with the calls that follow: `Roster` is where uploads are taken
apart, `Licensing` where claims are. An upload's two reads, of its rows'
students and of those it may deactivate, are one in `Roster`: each student is in
one of them only, and its properties speak of one student at a time.

History variables. `disturbed` (`Licensing`, `Roster`) names the users or
students two requests were at work on at once, or one was left half-way by a
request that nobody repeats; `drifted` (`Billing`) the months whose document
was created beside other changes, or whose count was cut off at zero; `moved`
(`Assignments`) the runs created again, or whose window opened while they were
being processed. They are written beside every step and disable none. Each
marks a case in which the code promises nothing and the models do go wrong;
the property that mentions it says that nothing else goes wrong.

Abstractions. Metrics are the answer sheet they are computed from, so two
metrics are equal when the sheets are. Averages, histograms and insight texts
are the sets and counts of sessions that enter them. A time is a small number;
the batch interval of five seconds and the tolerance of five seconds are
constants. `pendingAnswerMap` is a sequence without repeated questions, in the
order of the map's keys. Ids, paths and payloads are model values; the task id
that is cut at 100 characters is `TaskName`, which drops the retry count of
`LongIds`. Operators marked "Mutant" are plausible mistakes in the definition
after them; no specification uses them.

## Runs

`tlc -config X.cfg M` for each row; M and the property lists are in
`PROJECT.json`.

| Run | Instance | Shows |
|---|---|---|
| `submission_faults` | two requests (symmetric), one question with two options, time window 1..2, spent up to 3, Hard mode, all faults | a session is graded at most once, from the answers stored at that moment, within Hard mode's times; everybody told "ok" is told these metrics; and the whole implements `GradedSession` |
| `submission_lock` | three requests, run content may be invalid, instances do not die | `submissionLock` excludes, belongs to a request while it is set, and is given up |
| `recovery` | two jobs, one with a long id and one redelivered, one retry, all faults | one execution of a session at a time, dead letters exact, nothing forgotten, every job settles; and the sessions delivered once follow `RetryPolicy` |
| `post_submission` | two sessions of one run that share a question, two executions each, one of them redelivered | usage exact, effects in order, insights include their session, a question document follows its run |
| `exam_network` | two questions, one option, two flights, one loss, three events, deadline 2 | an answer given once is kept; time counts once and fits; the flush precedes the submission; and the whole implements `ExamRecord`: no question loses all its answers, and the sheet moves only forward, to answers held, until the submission |
| `exam_year` | two runs, a student's two sessions in one and one in the other, two archive requests, a lock from the settings page | one live session in a run, a request that found the year locked leaves nothing out, a locked year gains no submission |
| `licensing` | one staff member, one student, one Stripe event delivered up to twice, one call, two layers | the event changes the license once and is answered when it has been projected; after that no claims or sessions of an earlier version are left; claims and sessions follow staff access |
| `billing` | two students, two months, three events, two billing invocations | the running month's count is that of the active students, a bill never shows more than the meter and never changes |
| `roster` | two students, two uploads | a student on the roster keeps the account, the invited have their mail, a deleted student has no claims and an invited or active one has them, when no two requests met at the student |
| `assignment` | two runs of one template, three sessions, two versions, three calls | the sessions of a run work with one version |
| `exam_lost_update`, `count_misdated` | the instance with the behaviour | each violates one property the documentation states; see "Findings" |

### Bounds

Two requests are enough for every overtaking of one by the other in
`Submission`; the lock is checked with three because a late release of one may
free a lock between two others. One question suffices there: the merge of
batches is `AnswerBatch`'s subject. `SpentBound` is one more than `MaxTime`, so
that a sheet Hard mode refuses exists. `recovery` has `MaxRetries` 1 in place of
5: a first failure, a retry and the failure after the last retry all occur;
`SweepLimit` 2 in place of 20 lets both jobs into the sweep. Two executions per
session are a failure and its retry, or an event delivered twice. In the exam runs `MaxFlights` 2 lets a periodic
batch and a submission's flush overlap; `MaxBatch` 1 leaves answers behind with
two questions, as ten do with eleven, but no total is carried from one write of
a batch to the next: that is left to the theorem of `TimeWithinElapsed`.
`MaxEvents`, `MaxWrites` and `Horizon`
only keep the state space finite.

In `exam_year` two runs let the queries of a request, one per run, come before
and after a submission, and two requests let the second find the rows of the
first, or the year it has locked.
`QueryLimit` 2 equals the number of sessions the student can have in a run; the
code's 25 is checked in no run with more.

In `licensing` two deliveries are a retry, and a redelivery beside the first;
the call beside them is a vendor update or any staff request, so that license
and access meet in the staff member's claims. `Parallel` 2 lets any two of them overlap.
Two layers tell an old license from a new one. In `billing` two months are a
month and the next, `Earlier` lets an upload write a status that is one change old, `MaxEvents` 3 is a change beside another and one more out
of order, two tasks are the scheduler beside a webhook, or two webhooks.
`roster` starts from no document or an active student (`Earlier`): the other
documents are reached by the uploads, logins and deletes of the run; two
uploads over two students cover an upload that names one and deactivates the
other while the second does the opposite. In `assignment` three calls are a
request, its event, and a repetition of either; two sessions in one run can
disagree, and the third shares no run with them.

Deadlock is checked in the submission runs. It is not in the others: there the
jobs settle, the executions, calls and uploads are used up or the clock stops.

### Fairness

`Submission!FairSpec`: the steps of a request that has begun are weakly fair, as
the runtime schedules a continuation; nobody is obliged to submit, to answer or
to archive. `FailureRecovery!FairSpec`: triggers and executions run on, the
sweep starts again and goes on (it is scheduled every five minutes), and time
passes. Cloud Tasks need not dispatch anything, and pipelines need not succeed.
The other modules are checked for safety only. The code promises no retry of
theirs: repeated deliveries of an event are Stripe's affair, and what holds
once one of them succeeds is the subject of `SyncedIsFresh`.

## Findings

Each is a run that ends in a counterexample; `PROJECT.json` quotes the lines.

- `exam_lost_update`: the reply to a batch drops the pending answer of a
  question, also one given after the batch was sent
  (`apps/exam/src/ExamRuntimeApp.tsx:1731`).
- `count_misdated`: a student's event is metered in the month of the document's
  `updatedAt` (`services/usageMetering.ts:248`), which a first login
  (`services/studentOnboardingActivation.ts:55`) and a soft delete
  (`services/studentSoftDelete.ts:137`) leave alone; in a later month they
  change the old month's meter, and the running month shows a wrong number of
  active students.

Seen while modelling, without a run of their own. Most are behaviours of the
models, whose properties say what holds beside them; those of detail the models
leave out (counters, several institutes) are read from the code. In the exam's
path:

- An instance that dies between the lock's update and the finalize leaves the
  active session locked, and every later submission is answered
  `SUBMISSION_LOCKED` (`services/submission.ts:1010`).
- Analytics documents remember the last session only; a retry after another
  session has been counted counts the first again
  (`services/runAnalyticsEngine.ts:388`).
- Settled jobs keep `nextAttemptAt` and fill the sweep's query of twenty
  (`services/failureRecovery.ts:450`).
- The final batch at expiry may be refused for its pace and the page ends the
  session unsubmitted (`ExamRuntimeApp.tsx:2046`).
- A session that is started and submitted between the archive's reads and its
  lock is not exported (`services/archivePipeline.ts:699`).
- A Hard session whose last batch took a question past its maximum is refused
  by `validateSubmissionTiming`, and the question takes no more answers: the
  session cannot be submitted (`services/submission.ts:321-336`, against
  `docs/3_Core_Architectures.md:4443-4444`).
- The page sends "UNANSWERED" for an empty response; it is stored and graded as
  an attempt.
- A request may be refused with `SUBMISSION_LOCKED` although the holder then
  fails; the caller has to try again.
- The page reports a question's absolute time and the server adds it
  (`ExamRuntimeApp.tsx:1631-1636`), and one batch of ten is flushed before a
  submission; both are in the repository's wiring plan (BWM-021, BWM-022).
- A lost reply to the submission and an answer queued meanwhile: the retry's
  flush is refused by the submitted session and never reaches the replay.
- Typing steadily sets the five-second interval up anew each time.
- A job whose instance dies stays `processing` for good; a job's first task is
  always numbered 0, also after a redelivery, and is then dropped.
- The export of an earlier archive attempt is recognized by its number of rows
  alone (`services/archivePipeline.ts:733`). The year, the runs and each run's
  sessions are read by separate queries before the year is locked (`:893`), so
  two requests that find it active may read different sessions, equally many,
  of two runs: the first exports its own and fails, and the second archives the
  year without one it has read.
- `AdminSettingsService.lockAcademicYear` reads the year and its runs and then
  writes "Locked" whatever the year is by now (`services/adminSettings.ts:922`):
  a year that has been archived and answered in between is locked again.
- When a first archive attempt failed after its insert and the second reads one
  session more, the counts never agree and every request ends in an internal
  error; a session live when the year is locked can never be submitted.

In the parts around it:

- A vendor update whose projection fails stays committed and is not repeated:
  old claims remain until something else projects
  (`services/licenseManagement.ts:407`).
- Only the delivery that applied a Stripe event goes on to the bill; if it dies
  before that, the repetition finds the event processed and the bill is never
  told (`services/paymentEventIntegration.ts:1064`).
- `upsertUserAccess` decides what to do from a record read before its write;
  two of them may both miss the change of the other
  (`services/adminSettings.ts:1018`).
- A license change projects into soft-deleted students too and gives them
  claims again (`services/licenseClaimFreshness.ts:106`).
- An upload whose audit entry fails after the transaction deletes the accounts
  it has created, while documents and mails stay; the commit mode it would have
  logged is `all_or_nothing` (`services/studentBulkIngestion.ts:523`, `780`,
  `798`). The rollback also misses a `createUser` that is still in flight when
  another row has failed (`:509`), and a crash after the transaction leaves the
  deactivated students their claims (`:540`).
- A late event of a template's creation writes its first status and run count
  over later ones (`services/templateCreation.ts:466-475`). Request and event
  both add to `totalRuns` (`services/adminRuns.ts:243`,
  `services/assignmentCreation.ts:748`).
- The API may create a run again under its id while students are in it
  (`services/adminRuns.ts:241`). A creation event that comes after the window
  has opened, or after a downgrade, throws and is not repeated: the run has no
  analytics document and is not metered (`services/assignmentCreation.ts:513`).
- A month without a single event has no meter and is not billed
  (`services/billingSnapshot.ts:248`).
- A calibration is deployed institute by institute; repeated with the same log
  id, it fails at the first institute that is done
  (`services/calibrationDeployment.ts:279`).

## Proofs

All constants are arbitrary, within the assumptions stated in the modules.

`SubmissionProofs`. `GradeInv` joins the types, `GradeMatchesSheet`,
`GradeIsTimely`, `RepliesAgree` and `RepliesCarryGrade`. The last is the
strengthening: a reply's metrics are none or the stored ones even when its code
is an error, which the refinement needs, where `told` is what callers hold. It
is inductive: an ungraded session has no replies to contradict; the finalize
writes metrics, sheet and reply from the same read; and after it the transition
table and the status checks of the other writers leave the document alone. From it
follow the type invariant, the three safety properties, `GradeIsFinal` (proved
without a run), and the refinement of `GradedSession` step by step
(`Implementation`). `LockInv`
says that at most one request is past the lock's precondition, that the active
session is locked while there is one, and that a request whose snapshot is still
current looks at an unlocked session; this gives
`LockExcludes`, under the assumption that no acknowledgement is lost (a lost
acknowledgement of the release lets it run a second time, and it clears the lock
of an active session whoever set it). `NoStrandedLock` assumes that nothing but
the run's content fails: an instance that dies does strand the lock.

`QueueProofs`, both parts. What a filter leaves is numbered by `Rank`, a
bijection between the positions that are kept and 1 to their number
(`RankNumbers`), so `Keep` returns the elements at those positions, each of them
once (`KeepNumbers`).

`QueueProofs`, the exam. Two steps of modelling make the merge provable without
induction. A batch has at most one write of a question, as it is cut from a map
by question, so `Merged` is a function of the sheet and that write (`MergedIs`).
And the sum of the times is the number of elements of `Units`, where unit
n of question q is the pair of both: merging a batch adds a set of units disjoint
from the old one (`MergedTotal`), and a total that fits is a cardinality that
fits. `ExamInv` joins the types with

- `FlightsAreSound`: a batch on its way has one write of a question, an answered
  one is still awaited by the page, and of an accepted one the sheet has every
  answer or a newer one.
- `LastFlush`: the flight a submission waits for is the only one of its kind, and
  it carries `final`. With the former it gives `FlushedBeforePost`.
- for each question: what is shown, queued, on its way and stored was given no
  later than now (`Past`); two writes of one moment are the same (`SameMoment`),
  since a repetition must not differ from what it repeats; the answer of a
  question answered once is stored or queued (`FirstAnswer`); and
  (`TimeReserved`) the time stored and the time that newer writes under way
  can still add do not exceed what was reported. The last is the strengthening of
  `TimeCountedOnce`: a batch adds what was reserved for its write, and a stale or
  repeated one adds nothing.

`TimeWithinElapsed` and `NewestStays` follow from the merge itself and the guard
of the transaction.

`ExamKeepsRecord` is the refinement of `ExamRecord`: what is held are the writes
that are queued or on their way, the record is the sheet, and it is open while the
session is active. It promises of a question what the code does: as long as the
sheet has none of its answers, the newest is held; once the sheet has one, a later
one may still be dropped, because the reply to a batch takes the question out of
the queue whatever was queued since (`exam_lost_update` shows what a student
loses by it). `SameMoment` makes every change of the sheet a newer write, and the
answer repeated by a manual submission the one already given. Beyond `ExamInv` it
needs `HeldIsQueued`: what is under way is still queued, or something newer is,
until the question is on the sheet, so that a request that fails takes
nothing with it. `NewestStays` follows from `ExamRecord` and is proved without a
run.

`QueueProofs`, the retry queue. `RecoveryInv` says two things of a job: an
unsettled job has retries left, exists once its trigger has written it, and is
completed only when processed, however often the event comes (`AnyJob`); and as
long as it comes once, the trigger is over before the job is there, a claim finds
its job `processing` with its own retry count, there is one claim at most, and
the dead letters are the failed jobs (`OnceJob`). A waiting job hence has no
claim, which is what makes the claim exclusive. The order of `nextAttemptAt`, the
tasks and the sweep's list are not needed for it: they only decide which claim
comes next, and a claim checks the document. They are the subject of `QueueTyped`,
from which the types follow: every job that was ever written has exactly one
place in the order. It has to say that a claimed job has a document, or the
outcome would write one that has no place, and that no task is created beyond
`MaxRetries`, or a claim of it would be no claim. Taking a job out of the order
keeps the number of the others that are due (`OthersInOrder`), putting it in gives
it one place (`InsertedOnce`).

`QueueFollowsPolicy` is the refinement of `RetryPolicy` for the sessions that are
not redelivered. A session is "running" from the start of its trigger's pipeline
until the failure is written, and while there is a claim of its job; the number
of runs is read from `retryCount`. A write of "completed" that fails counts as a
failed run, in the code as in the policy. The invariant it needs beyond
`RecoveryInv` and `QueueTyped` is that a job that does not exist has not been
retried (`FreshJobs`).

`PostSubmissionProofs`. `UsageInv`: what is metered is finite, and the
volume is its cardinality. `CountInv`: a document's marker names a session in its
sums; a session is in its own documents only, and there no more often than it has
executions that left the engine behind; its questions are counted alike. The
marker fact is what makes `AloneCountedOnce` inductive: a document that holds the
session and no other must name it, so the engine recognizes it. `EffectInv`
adds what an execution at each stage has done (`Reached`), from which
the order of the effects, completeness and the insight properties follow.
It assumes that the engines' documents are distinct, as their collections are.
Completeness (`DoneIsComplete`) and `InsightIsFinal` are proved without a run.

`ExamYearProofs`. `YearInv`: the year is not active any more once a request is past
its lock or has found the year locked (`LockedBehind`); nothing is deleted
before the year is archived or beside a request (`DeletedLast`); a request has
seen only sessions that stay submitted (`SeenIsSubmitted`), and so has the table
(`RowsAreSubmitted`); a session's run is older than the session
(`CreatedInRun`); and (`FinalRead`) a request that found the year locked has
seen each submitted session or has yet to read its run. The last is the argument
for `RetryIsComplete`. In a locked year the submitted sessions stay the same, so
separate reads of it make one; the code compares a row count with the number of
sessions read, and as the rows are submitted sessions, all of which the request
has seen, equal numbers mean equal sets. A request that found the year active
has no such invariant: its reads may be of different moments, see
"Findings". `LockedYearIsFinal` rests on the actor rules: nobody but
the finalize transaction, which looks at the year, submits; and on no writer of
the year's status making it active again, the settings page's lock included.
`OneLive` needs `FewSessions`: no student has more session documents in a run
than the query of `startSession` returns; beyond that limit the query may miss a
live one. `RowsAreSubmitted` is proved without a run.

`LicensingProofs`. `LicenseInv`: the event log and the history say the same of
every event (`LogMatchesHistory`), a request at work for an event agrees with
both (`JobsMatchLog`), and its steps on users belong to where it is
(`StepsBelong`); then a marked event has been projected and an event is in the
history once. `IdentityInv` speaks of the users nobody has disturbed: at most
one request is at work on one (`WorksAlone`); whoever is not being read,
written or revoked has the claims and the session that access (`FollowsAccess`)
and, once the current version's event is marked, the license (`FollowsLicense`)
call for; and what a request holds for a user is what it will be right to
write. The reading step is the hard one: between it and the write nothing else
may change what was read, and that is what "undisturbed" buys.

`BillingProofs`. `BillInv`: a peak is never below its count, and what a task has
read is within the meter, whose peak never sinks; so is a bill made from it.
`CountInv` is the argument for the count: for the running month, count + pending activations = active students + pending deactivations, each a
cardinality of a finite set (`Balanced`); when nothing is pending the count is
the active students. Every action keeps the balance unless it falls into one of
the exceptions of `drifted` or dates an event otherwise.

`RosterProofs`. `RosterInv`: steps belong to the rows of a working upload
(`RowsBelong`), a row past its calls has an account (`RowsHaveAccounts`); hence
`AccountIsKept` and `InvitedIsMailed`. `AccessInv` speaks of the undisturbed
students: at most one upload or delete is at work on one, each call leaves the
account where the next needs it, and the student is in order when all are done.

`AssignmentsProofs`. `SessionInv`: a call at work has passed its checks
(`Checked`), a session is in a run that exists and has been opened
(`StartedInOpenRun`), and while a run that has not moved is open no event is
about to write it (`OpenIsSettled`), from which the sessions' agreement follows.

Only model-checked: liveness (`LockIsReleased`, `JobsSettle`), which needs
fairness and ENABLED, out of the prover's reach. Every invariant and action
property of the passing runs, and the three refinements, are theorems. Assumed of the
constants beyond what their kind implies: the questions of a run are a finite
set, the engines' documents are distinct, and what the named `ASSUME`s of the
modules state.

## Not modelled

- Question bank: validation and single-document updates. Risk and
  pattern engines: pure scoring. E-mail queue: jobs are only written.
  Governance, audit, vendor analytics, simulation: reports, logs and test data.
  The gateway's checks of a request: stateless. Search, CDN and portals: query
  construction, static policy and views.
- Of the exam's path: session tokens and entry validation; the page's local
  recovery, adaptive phases, Hard mode locks and browser integrity; Hard mode in
  `AnswerBatch` and `ExamClient` (it is in `Submission`); failures of
  `submitSession` seen by the page other than lost replies; retention of
  e-mail jobs, billing records and audit logs; the statistics themselves.
- Of the parts around it: prices, discounts, invoice figures, limits and their
  flags, billing records; signatures and the parsing of Stripe events; the
  validation and parsing of uploaded rows; the list and the export of
  students; fingerprints, snapshots and audit entries of templates; the run
  counter; the sequence of institutes of a calibration, its stored versions and
  simulation; the documents of staff other than their status.

## Plan

1. Done: submission with its contract, recovery, pipeline, page with batching,
   archive, licensing with claims, meter and bills, roster, assignments; proofs
   of the invariants of all of them; the three refinements.
2. Worth adding next: the page's local recovery and Hard mode client, with the
   liveness of a submission that is retried; calibration over several
   institutes with its retries; retention of the other collections.
3. Next proofs: an abstract license (each event counts once, claims follow in the end) for
   `Licensing`; what the retry queue still guarantees of a redelivered session.
