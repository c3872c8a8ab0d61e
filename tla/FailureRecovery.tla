--------------------------- MODULE FailureRecovery ---------------------------
(***************************************************************************)
(* Retrying the post-submission pipeline: the examSessionOnUpdate trigger, *)
(* the retry job it writes when the pipeline throws, the Cloud Tasks       *)
(* dispatches and the scheduled sweep that run the job again, and the dead *)
(* letter after the last retry.  One job per submitted session: the job id *)
(* is made of the session's path.                                          *)
(*                                                                         *)
(* A job is claimed in a transaction but its outcome is written by an      *)
(* unconditional set, and a second delivery of the trigger's event puts a  *)
(* job in progress back in the queue.                                      *)
(***************************************************************************)
EXTENDS SequencesExt, Subsequences

CONSTANTS
  Jobs,          \* submitted sessions, and the retry jobs they may get
  MaxRetries,    \* job.maxRetries
  SweepLimit,    \* the query limit of sweepDueJobs
  UseCloudTasks, \* FAILURE_RECOVERY_USE_CLOUD_TASKS
  LongIds,       \* jobs whose id fills the 100 characters of a task id
  Redelivered,   \* sessions whose event may be delivered a second time
  Faults         \* which of FaultKinds can happen

\* crash: an instance dies, or the write of an outcome fails.
\* enqueue: Cloud Tasks refuses a task.
\* storage: the write of "completed" fails, after the pipeline succeeded.
FaultKinds == {"crash", "enqueue", "storage"}

ASSUME RecoveryAssumption ==
  /\ MaxRetries \in Nat \ {0} /\ SweepLimit \in Nat \ {0}
  /\ UseCloudTasks \in BOOLEAN
  /\ LongIds \subseteq Jobs /\ Redelivered \subseteq Jobs
  /\ Faults \subseteq FaultKinds

JobStatuses == {"none", "pending", "processing", "retrying", "completed",
                "failed"}
Waiting == {"pending", "retrying"}
Finished == {"completed", "failed"}

\* The trigger for a session: its pipeline has failed ("failed"), and its job
\* has been written ("written").
TriggerSteps == {"waiting", "running", "failed", "written", "done"}

\* Tasks are named after the job and its retryCount, cut at 100 characters.
\* The largest retryCount is that of a job in the dead-letter queue.
Tasks == Jobs \X (0..MaxRetries + 1)
TaskName(j, retries) == <<j, IF j \in LongIds THEN 0 ELSE retries>>

Sweeper == -1
Claims == [by : {Sweeper} \cup 0..MaxRetries, job : Jobs,
           retries : 0..MaxRetries]

VARIABLES
  trigger,    \* where the trigger of each session is
  delivered,  \* sessions whose event has been delivered again
  doc,        \* the retry job: status and retryCount ("none": no document)
  schedule,   \* the jobs in the order of nextAttemptAt
  due,        \* how many of them have nextAttemptAt <= now
  tasks,      \* each task: not yet created, queued, or used up
  claims,     \* executions of claimed jobs in progress
  sweep,      \* jobs the running sweep has still to process
  deadLetter, \* jobs in the dead-letter queue
  processed,  \* sessions whose pipeline has run to its end
  crashed     \* jobs or triggers lost in a crash

recoveryVars == <<trigger, delivered, doc, schedule, due, tasks, claims, sweep,
                  deadLetter, processed, crashed>>
queueVars == <<doc, schedule, due, tasks>>

RecoveryTypeOK ==
  /\ trigger \in [Jobs -> TriggerSteps]
  /\ delivered \subseteq Redelivered
  /\ doc \in [Jobs -> [status : JobStatuses, retries : 0..MaxRetries + 1]]
  /\ IsInjective(schedule)
  /\ ToSet(schedule) = {j \in Jobs : doc[j].status # "none"}
  /\ due \in 0..Len(schedule)
  /\ tasks \in [Tasks -> {"new", "queued", "used"}]
  /\ claims \subseteq Claims
  /\ ToSet(sweep) \subseteq Jobs
  /\ deadLetter \subseteq Jobs
  /\ processed \subseteq Jobs
  /\ crashed \subseteq Jobs

RecoveryInit ==
  /\ trigger = [j \in Jobs |-> "waiting"]
  /\ delivered = {}
  /\ doc = [j \in Jobs |-> [status |-> "none", retries |-> 0]]
  /\ schedule = <<>>
  /\ due = 0
  /\ tasks = [t \in Tasks |-> "new"]
  /\ claims = {}
  /\ sweep = <<>>
  /\ deadLetter = {}
  /\ processed = {}
  /\ crashed = {}

DueJobs == {j \in Jobs : \E i \in 1..due : schedule[i] = j}

-----------------------------------------------------------------------------
(* nextAttemptAt.                                                          *)

Others(j) == Keep(schedule, {i \in DOMAIN schedule : schedule[i] # j})
OthersDue(j) == IF j \in DueJobs THEN due - 1 ELSE due

\* nextAttemptAt = now.
ScheduleNow(j) ==
  /\ schedule' = InsertAt(Others(j), OthersDue(j) + 1, j)
  /\ due' = OthersDue(j) + 1

\* nextAttemptAt = now + a delay: after the jobs that are due, anywhere among
\* those that are not, whose delays differ.
ScheduleLater(j) ==
  /\ \E place \in OthersDue(j) + 1..Len(Others(j)) + 1 :
       schedule' = InsertAt(Others(j), place, j)
  /\ due' = OthersDue(j)

TimePasses ==
  /\ due < Len(schedule)
  /\ due' = due + 1
  /\ UNCHANGED <<trigger, delivered, doc, schedule, tasks, claims, sweep,
                 deadLetter, processed, crashed>>

\* enqueueRetryTask: creates the task, unless its name has been used before
\* (task-already-exists) or Cloud Tasks is off or refuses it (only logged).
EnqueueRetryTask(j, retries) ==
  LET t == TaskName(j, retries)
  IN  \/ /\ UseCloudTasks
         /\ tasks[t] = "new"
         /\ tasks' = [tasks EXCEPT ![t] = "queued"]
      \/ /\ ~UseCloudTasks \/ tasks[t] # "new" \/ "enqueue" \in Faults
         /\ UNCHANGED tasks

-----------------------------------------------------------------------------
(* handleSessionUpdated and queuePostSubmissionFailure.                    *)

StartTrigger(j) ==
  /\ trigger[j] = "waiting"
  /\ trigger' = [trigger EXCEPT ![j] = "running"]
  /\ UNCHANGED <<delivered, queueVars, claims, sweep, deadLetter, processed,
                 crashed>>

PipelineEnds(j) ==
  /\ trigger[j] = "running"
  /\ \/ /\ trigger' = [trigger EXCEPT ![j] = "done"]
        /\ processed' = processed \cup {j}
     \/ /\ trigger' = [trigger EXCEPT ![j] = "failed"]
        /\ UNCHANGED processed
  /\ UNCHANGED <<delivered, queueVars, claims, sweep, deadLetter, crashed>>

\* Mutant: the failure is logged and no job is written.
LogFailure(j) ==
  /\ trigger[j] = "failed"
  /\ trigger' = [trigger EXCEPT ![j] = "done"]
  /\ UNCHANGED <<delivered, queueVars, claims, sweep, deadLetter, processed,
                 crashed>>

\* The transaction of queuePostSubmissionFailure.  A job in progress is put
\* back in the queue; a settled one is left alone.
QueueFailure(j) ==
  /\ trigger[j] = "failed"
  /\ IF doc[j].status \in Finished
       THEN /\ trigger' = [trigger EXCEPT ![j] = "done"]
            /\ UNCHANGED <<doc, schedule, due>>
       ELSE /\ trigger' = [trigger EXCEPT ![j] = "written"]
            /\ doc' = [doc EXCEPT ![j].status =
                         IF @ # "none" /\ doc[j].retries > 0
                           THEN "retrying" ELSE "pending"]
            /\ ScheduleNow(j)
  /\ UNCHANGED <<delivered, tasks, claims, sweep, deadLetter, processed,
                 crashed>>

\* The job's first task: always number 0, whatever its retryCount.
EnqueueFirstTask(j) ==
  /\ trigger[j] = "written"
  /\ trigger' = [trigger EXCEPT ![j] = "done"]
  /\ EnqueueRetryTask(j, 0)
  /\ UNCHANGED <<delivered, doc, schedule, due, claims, sweep, deadLetter,
                 processed, crashed>>

\* Events are delivered at least once.
Redeliver(j) ==
  /\ trigger[j] = "done"
  /\ j \in Redelivered \ delivered
  /\ delivered' = delivered \cup {j}
  /\ trigger' = [trigger EXCEPT ![j] = "waiting"]
  /\ UNCHANGED <<queueVars, claims, sweep, deadLetter, processed, crashed>>

-----------------------------------------------------------------------------
(* processRetryJob: the claim, by a task or by the sweep.                  *)

\* Mutant: the claim does not look at the job's status.
ClaimableWhenDue(j) == doc[j].status # "none" /\ j \in DueJobs

Claimable(j) == doc[j].status \in Waiting /\ j \in DueJobs

Claim(j, by) ==
  /\ Claimable(j)
  /\ doc' = [doc EXCEPT ![j].status = "processing"]
  /\ claims' = claims \cup {[by |-> by, job |-> j, retries |-> doc[j].retries]}

\* Cloud Tasks dispatches a task once (maxAttempts is 1): a task that finds
\* nothing to claim is used up all the same.
DispatchTask(t) ==
  /\ tasks[t] = "queued"
  /\ tasks' = [tasks EXCEPT ![t] = "used"]
  /\ \/ Claim(t[1], t[2])
     \/ ~Claimable(t[1]) /\ UNCHANGED <<doc, claims>>
  /\ UNCHANGED <<trigger, delivered, schedule, due, sweep, deadLetter,
                 processed, crashed>>

SweepRuns == \E c \in claims : c.by = Sweeper

\* Mutant: the sweep takes up new jobs only.
SweepWindowOfPending ==
  Keep(schedule, {i \in 1..due : doc[schedule[i]].status = "pending"})

\* The query: the first SweepLimit jobs that are due, whatever their status,
\* and of them those that are waiting.
SweepWindow ==
  Keep(schedule,
       {i \in 1..due : i <= SweepLimit /\ doc[schedule[i]].status \in Waiting})

StartSweep ==
  /\ sweep = <<>>
  /\ ~SweepRuns
  /\ SweepWindow # <<>>
  /\ sweep' = SweepWindow
  /\ UNCHANGED <<trigger, delivered, queueVars, claims, deadLetter, processed,
                 crashed>>

\* The loop claims its next job, or passes over one claimed meanwhile.
SweepNext ==
  /\ sweep # <<>>
  /\ ~SweepRuns
  /\ sweep' = Tail(sweep)
  /\ \/ Claim(Head(sweep), Sweeper)
     \/ ~Claimable(Head(sweep)) /\ UNCHANGED <<doc, claims>>
  /\ UNCHANGED <<trigger, delivered, schedule, due, tasks, deadLetter,
                 processed, crashed>>

-----------------------------------------------------------------------------
(* processRetryJob: the outcome.                                           *)

\* Mutant: the job is completed before the pipeline is awaited.
CompleteEarly(c) ==
  /\ doc' = [doc EXCEPT ![c.job].status = "completed"]
  /\ claims' = claims \ {c}
  /\ UNCHANGED <<trigger, delivered, schedule, due, tasks, sweep, deadLetter,
                 processed, crashed>>

\* The pipeline ran: the job is completed, whatever has become of it.
Succeed(c) ==
  /\ doc' = [doc EXCEPT ![c.job].status = "completed"]
  /\ processed' = processed \cup {c.job}
  /\ claims' = claims \ {c}
  /\ UNCHANGED <<trigger, delivered, schedule, due, tasks, sweep, deadLetter,
                 crashed>>

\* Mutant: one retry too many.
RetriesLeftAtLimit(c) == c.retries <= MaxRetries

RetriesLeft(c) == c.retries + 1 <= MaxRetries

\* handleRetryFailure.  Its retryCount is the claim's plus one.  It also runs
\* when only the write of "completed" failed.
Fail(c) ==
  /\ IF RetriesLeft(c)
       THEN /\ doc' = [doc EXCEPT ![c.job] =
                         [status |-> "retrying", retries |-> c.retries + 1]]
            /\ ScheduleLater(c.job)
            /\ EnqueueRetryTask(c.job, c.retries + 1)
            /\ UNCHANGED deadLetter
       ELSE /\ doc' = [doc EXCEPT ![c.job] =
                         [status |-> "failed", retries |-> c.retries + 1]]
            /\ deadLetter' = deadLetter \cup {c.job}
            /\ UNCHANGED <<schedule, due, tasks>>
  /\ claims' = claims \ {c}
  /\ \/ UNCHANGED processed
     \/ "storage" \in Faults /\ processed' = processed \cup {c.job}
  /\ UNCHANGED <<trigger, delivered, sweep, crashed>>

\* The instance dies while a job is executed, before or after the pipeline's
\* end: the job stays "processing".  With it dies the sweep it belongs to.
CrashClaim(c) ==
  /\ "crash" \in Faults
  /\ claims' = claims \ {c}
  /\ sweep' = IF c.by = Sweeper THEN <<>> ELSE sweep
  /\ processed' \in {processed, processed \cup {c.job}}
  /\ crashed' = crashed \cup {c.job}
  /\ UNCHANGED <<trigger, delivered, queueVars, deadLetter>>

\* The instance dies in the trigger, or the job cannot be written: the event
\* is not delivered again, the trigger has no failure policy.
CrashTrigger(j) ==
  /\ "crash" \in Faults
  /\ trigger[j] \in {"running", "failed", "written"}
  /\ trigger' = [trigger EXCEPT ![j] = "done"]
  /\ crashed' = crashed \cup {j}
  /\ UNCHANGED <<delivered, queueVars, claims, sweep, deadLetter, processed>>

-----------------------------------------------------------------------------
TriggerStep(j) ==
  StartTrigger(j) \/ PipelineEnds(j) \/ QueueFailure(j) \/ EnqueueFirstTask(j)

Outcome(c) == Succeed(c) \/ Fail(c)

RecoveryNext ==
  \/ \E j \in Jobs : TriggerStep(j) \/ Redeliver(j) \/ CrashTrigger(j)
  \/ \E t \in Tasks : DispatchTask(t)
  \/ \E c \in claims : Outcome(c) \/ CrashClaim(c)
  \/ StartSweep \/ SweepNext \/ TimePasses

RecoverySpec == RecoveryInit /\ [][RecoveryNext]_recoveryVars

\* Triggers and executions run on, time passes, and the sweep is scheduled
\* every five minutes.  Cloud Tasks and the pipeline owe nothing.
FairSpec ==
  /\ RecoverySpec
  /\ \A j \in Jobs : WF_recoveryVars(TriggerStep(j))
  /\ WF_recoveryVars(\E c \in claims : Outcome(c))
  /\ WF_recoveryVars(StartSweep) /\ WF_recoveryVars(SweepNext)
  /\ WF_recoveryVars(TimePasses)

-----------------------------------------------------------------------------
(* The policy.  A session's first execution is its trigger's, and retryCount *)
(* says how many of the job's executions have failed.                      *)

Sure == Jobs \ Redelivered

Executed(j) ==
  trigger[j] \in {"running", "failed"} \/ \E c \in claims : c.job = j

\* A job that is "processing" with no execution has lost it, and so has a
\* session with neither a job nor results after its trigger.
StageOf(j) ==
  IF Executed(j) THEN "running"
  ELSE IF doc[j].status = "none" /\ trigger[j] = "waiting" THEN "submitted"
  ELSE IF doc[j].status \in Waiting THEN "queued"
  ELSE IF doc[j].status = "failed" THEN "dead"
  ELSE IF doc[j].status = "completed" THEN "done"
  ELSE IF doc[j].status = "none" /\ j \in processed THEN "done"
  ELSE "lost"

RunsOf(j) ==
  IF doc[j].status = "none" THEN IF trigger[j] = "waiting" THEN 0 ELSE 1
  ELSE IF doc[j].status \in Waiting \cup {"failed"} THEN doc[j].retries + 1
  ELSE doc[j].retries + 2

Policy == INSTANCE RetryPolicy WITH
  Sessions <- Sure,
  Limit <- MaxRetries + 2,
  Crashes <- "crash" \in Faults,
  stage <- [j \in Sure |-> StageOf(j)],
  runs <- [j \in Sure |-> RunsOf(j)]

-----------------------------------------------------------------------------
(* Properties.                                                             *)

\* Sessions whose event has been delivered once.
DeliveredOnce == Jobs \ delivered

\* A session's pipeline is never run by two executions at once, be they the
\* trigger, a task or the sweep: the claim is exclusive.
OneExecution ==
  \A j \in DeliveredOnce :
    LET running == {c \in claims : c.job = j}
    IN  /\ Cardinality(running) <= 1
        /\ trigger[j] = "running" => running = {}

\* A job is completed only if the pipeline has run to its end, even when a
\* redelivered event races the executions of the job.
CompletedIsProcessed ==
  \A j \in Jobs : doc[j].status = "completed" => j \in processed

\* The dead-letter queue holds exactly the jobs that failed once more than
\* maxRetries allows.
DeadLetterIsExact ==
  \A j \in DeliveredOnce :
    /\ j \in deadLetter <=> doc[j].status = "failed"
    /\ doc[j].status = "failed" <=> doc[j].retries = MaxRetries + 1

\* When the trigger is over the session is processed or its job exists; a
\* failed pipeline is never forgotten, short of a crash.
NothingForgotten ==
  \A j \in Jobs : trigger[j] = "done" =>
    j \in processed \/ doc[j].status # "none" \/ j \in crashed

\* Triggers, tasks, sweeps and crashes together do with a session delivered
\* once what the policy says: run it, run it again at most MaxRetries + 1 times,
\* one execution at a time, and stop for good.
FollowsPolicy == Policy!Spec

\* Every queued job is completed or dead-lettered in the end, unless the
\* instance executing it died.
JobsSettle ==
  \A j \in Jobs : doc[j].status # "none" ~>
    doc[j].status \in Finished \/ j \in crashed
=============================================================================
