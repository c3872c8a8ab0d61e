------------------------------ MODULE ExamYear ------------------------------
(***************************************************************************)
(* The sessions of an academic year: students start and finish them, an    *)
(* administrator locks the year or archives it, and the retention job      *)
(* deletes the session documents of the archived year.                     *)
(*                                                                         *)
(* AcademicYearArchiveService.archiveAcademicYear is a sequence of         *)
(* separate reads (the year, the runs, each run's sessions), a lock        *)
(* transaction, BigQuery calls and a plain write; the settings' lock is    *)
(* two reads and a plain write.  Sessions go on beside them, requests run  *)
(* beside each other, and any operation may fail.                          *)
(***************************************************************************)
EXTENDS SessionLifecycle, FiniteSets

CONSTANTS
  Runs,        \* runs that may be created
  Sessions,    \* session documents that may be created
  RunOf,       \* RunOf[s]: the run of session s
  StudentOf,   \* StudentOf[s]: the student of session s
  Attempts,    \* archive requests
  Lockers,     \* requests of the settings page to lock the year
  QueryLimit,  \* how many of the student's sessions startSession looks at
  Deleted      \* not a status: the document has been deleted

ASSUME ExamYearAssumption ==
  /\ IsFiniteSet(Sessions)
  /\ RunOf \in [Sessions -> Runs] /\ DOMAIN StudentOf = Sessions
  /\ QueryLimit \in Nat
  /\ Deleted \notin Statuses \cup {"none"}

VARIABLES
  yearStatus,  \* academicYears/{year}.status, in lower case
  run,         \* run[r].status, "none" before it is created
  open,        \* runs whose start window is open
  session,     \* session[s].status, "none" before it is created
  pc,          \* where each archive request is
  found,       \* the year's status it has read
  unread,      \* runs it has listed and not read the sessions of
  fit,         \* whether what it has read allows the archive
  seen,        \* the submitted sessions it has read
  rows,        \* the sessions in the BigQuery archive table
  lock         \* where each lock request is

school == <<yearStatus, run, open>>
reads == <<found, unread, fit, seen>>
vars == <<school, session, pc, reads, rows, lock>>

YearStatuses == {"active", "locked", "archived"}
Steps == {"idle", "runs", "sessions", "lock", "count", "insert", "snapshot",
          "archive", "done", "failed"}

TypeOK ==
  /\ yearStatus \in YearStatuses
  /\ run \in [Runs -> {"none", "scheduled", "completed"}]
  /\ open \subseteq Runs
  /\ session \in [Sessions -> Statuses \cup {"none", Deleted}]
  /\ pc \in [Attempts -> Steps]
  /\ found \in [Attempts -> YearStatuses \cup {"none"}]
  /\ unread \in [Attempts -> SUBSET Runs]
  /\ fit \in [Attempts -> BOOLEAN]
  /\ seen \in [Attempts -> SUBSET Sessions]
  /\ rows \subseteq Sessions
  /\ lock \in [Lockers -> {"idle", "runs", "write", "done"}]

Init ==
  /\ yearStatus = "active"
  /\ run = [r \in Runs |-> "none"] /\ open = {}
  /\ session = [s \in Sessions |-> "none"]
  /\ pc = [a \in Attempts |-> "idle"]
  /\ found = [a \in Attempts |-> "none"]
  /\ unread = [a \in Attempts |-> {}]
  /\ fit = [a \in Attempts |-> TRUE]
  /\ seen = [a \in Attempts |-> {}]
  /\ rows = {}
  /\ lock = [k \in Lockers |-> "idle"]

In(status) == {s \in Sessions : session[s] = status}
Live == {s \in Sessions : session[s] \in LiveStatuses}
Of(r) == {s \in Sessions : RunOf[s] = r}

-----------------------------------------------------------------------------
(* Runs.                                                                   *)

\* The run's document is written.  Its creation looks at the year before that,
\* which may be locked by then.  The time until its window opens is left out:
\* only the starts of sessions look at the window.
CreateRun(r) ==
  /\ run[r] = "none"
  /\ run' = [run EXCEPT ![r] = "scheduled"]
  /\ open' = open \cup {r}
  /\ UNCHANGED <<yearStatus, session, pc, reads, rows, lock>>

\* The window ends.
CloseWindow(r) ==
  /\ r \in open
  /\ open' = open \ {r}
  /\ UNCHANGED <<yearStatus, run, session, pc, reads, rows, lock>>

\* The run gets a terminal status; no service of the repository sets it.
CompleteRun(r) ==
  /\ run[r] = "scheduled"
  /\ run' = [run EXCEPT ![r] = "completed"]
  /\ UNCHANGED <<yearStatus, open, session, pc, reads, rows, lock>>

-----------------------------------------------------------------------------
(* Sessions.                                                               *)

\* The session documents of s's student in its run.
Siblings(s) ==
  {t \in Of(RunOf[s]) : /\ StudentOf[t] = StudentOf[s]
                         /\ session[t] \notin {"none", Deleted}}

\* What the query of at most QueryLimit of them may return.
QueryResults(s) ==
  {result \in SUBSET Siblings(s) :
     \/ result = Siblings(s) /\ Cardinality(result) <= QueryLimit
     \/ Cardinality(result) = QueryLimit}

\* Mutant: only a session being written counts as active.
NoneActive(s) ==
  \E result \in QueryResults(s) : \A t \in result : session[t] # "active"

\* No session of the student in the run is live, as far as the query tells.
NoneLive(s) == \E result \in QueryResults(s) : result \cap Live = {}

\* startSession, one transaction.  It looks at the year and at the run's
\* window, never at the run's status.
StartSession(s) ==
  /\ session[s] = "none"
  /\ yearStatus = "active"
  /\ RunOf[s] \in open
  /\ NoneLive(s)
  /\ session' = [session EXCEPT ![s] = "created"]
  /\ UNCHANGED <<school, pc, reads, rows, lock>>

\* transitionSessionState, which does not look at the year.  No backend caller
\* submits this way.
TransitionSession(s, to) ==
  /\ session[s] \in Statuses
  /\ \E actor \in Actors \ {"backend"} : TransitionAllowed(actor, session[s], to)
  /\ session' = [session EXCEPT ![s] = to]
  /\ UNCHANGED <<school, pc, reads, rows, lock>>

\* Mutant: the year is not looked at when a session is finalized.
SubmitAnyYear(s) ==
  /\ session[s] = "active"
  /\ session' = [session EXCEPT ![s] = "submitted"]
  /\ UNCHANGED <<school, pc, reads, rows, lock>>

\* The finalize transaction of submitSession (see Submission).
SubmitSession(s) ==
  /\ session[s] = "active"
  /\ yearStatus = "active"
  /\ session' = [session EXCEPT ![s] = "submitted"]
  /\ UNCHANGED <<school, pc, reads, rows, lock>>

-----------------------------------------------------------------------------
(* Archiving.                                                              *)

Goto(a, step) == pc' = [pc EXCEPT ![a] = step]

\* A request moves on with what it has read; when it fails, that is gone.
Move(a, step) ==
  /\ Goto(a, step)
  /\ IF step # "failed" THEN UNCHANGED reads
     ELSE /\ found' = [found EXCEPT ![a] = "none"]
          /\ unread' = [unread EXCEPT ![a] = {}]
          /\ fit' = [fit EXCEPT ![a] = TRUE]
          /\ seen' = [seen EXCEPT ![a] = {}]

\* prepareExecutionContext reads the year first: an archived one is done with.
ReadYear(a) ==
  /\ pc[a] = "idle"
  /\ found' = [found EXCEPT ![a] = yearStatus]
  /\ Goto(a, IF yearStatus = "archived" THEN "done" ELSE "runs")
  /\ UNCHANGED <<school, session, unread, fit, seen, rows, lock>>

\* Then it lists the runs, with their statuses.
ReadRuns(a) ==
  /\ pc[a] = "runs"
  /\ unread' = [unread EXCEPT ![a] = {r \in Runs : run[r] # "none"}]
  /\ fit' = [fit EXCEPT ![a] = \A r \in Runs : run[r] # "scheduled"]
  /\ Goto(a, "sessions")
  /\ UNCHANGED <<school, session, found, seen, rows, lock>>

\* One of the queries, all sent at once, for the sessions of a listed run.
ReadSessions(a, r) ==
  /\ pc[a] = "sessions" /\ r \in unread[a]
  /\ unread' = [unread EXCEPT ![a] = @ \ {r}]
  /\ seen' = [seen EXCEPT ![a] = @ \cup (Of(r) \cap In("submitted"))]
  /\ fit' = [fit EXCEPT ![a] = @ /\ Of(r) \cap Live = {}]
  /\ UNCHANGED <<school, session, pc, found, rows, lock>>

\* validateArchivePreconditions, on what was read: every run terminal, no
\* session live.
CheckReads(a) ==
  /\ pc[a] = "sessions" /\ unread[a] = {}
  /\ Move(a, IF fit[a] THEN "lock" ELSE "failed")
  /\ UNCHANGED <<school, session, rows, lock>>

\* lockAcademicYear, a transaction; a locked or archived year stays as it is.
LockYear(a) ==
  /\ pc[a] = "lock"
  /\ yearStatus' = IF yearStatus = "active" THEN "locked" ELSE yearStatus
  /\ Move(a, "count")
  /\ UNCHANGED <<run, open, session, rows, lock>>

\* Mutant: a table with any rows passes for exported.
AnyRowsDo(a) == IF rows = {} THEN "insert" ELSE "snapshot"

\* After getExistingRowCount: as many rows as sessions pass for the export of
\* an earlier attempt, an empty table is filled, anything else is an error.
AfterCount(a) ==
  IF Cardinality(rows) = Cardinality(seen[a]) THEN "snapshot"
  ELSE IF rows = {} THEN "insert" ELSE "failed"

CountRows(a) ==
  /\ pc[a] = "count"
  /\ Move(a, AfterCount(a))
  /\ UNCHANGED <<school, session, rows, lock>>

\* insertSessionRows: all rows or none, each once by its insertId.
InsertRows(a) ==
  /\ pc[a] = "insert"
  /\ rows' = rows \cup seen[a]
  /\ Move(a, "snapshot")
  /\ UNCHANGED <<school, session, lock>>

\* generateGovernanceSnapshot has written the governance snapshot.
TakeSnapshot(a) ==
  /\ pc[a] = "snapshot"
  /\ Move(a, "archive")
  /\ UNCHANGED <<school, session, rows, lock>>

\* The year is archived by a plain write, followed by the audit record.
SetArchived(a) ==
  /\ pc[a] = "archive"
  /\ yearStatus' = "archived"
  /\ Move(a, "done")
  /\ UNCHANGED <<run, open, session, rows, lock>>

\* An operation fails, or the instance goes away: what is written stays.
AttemptFails(a) ==
  /\ pc[a] \notin {"idle", "done", "failed"}
  /\ Move(a, "failed")
  /\ UNCHANGED <<school, session, rows, lock>>

-----------------------------------------------------------------------------
(* The settings' lock: AdminSettingsService.lockAcademicYear.              *)

\* The year is read; one that is locked or archived is refused.
ReadYearToLock(k) ==
  /\ lock[k] = "idle"
  /\ lock' = [lock EXCEPT ![k] = IF yearStatus = "active" THEN "runs" ELSE "done"]
  /\ UNCHANGED <<school, session, pc, reads, rows>>

\* hasActiveAttempts: a run not yet over refuses the lock.
CheckRuns(k) ==
  /\ lock[k] = "runs"
  /\ lock' = [lock EXCEPT ![k] =
                IF \E r \in Runs : run[r] = "scheduled" THEN "done" ELSE "write"]
  /\ UNCHANGED <<school, session, pc, reads, rows>>

\* The year is locked by a plain write, whatever it is by now.
SetLocked(k) ==
  /\ lock[k] = "write"
  /\ yearStatus' = "locked"
  /\ lock' = [lock EXCEPT ![k] = "done"]
  /\ UNCHANGED <<run, open, session, pc, reads, rows>>

\* An operation fails, or the instance goes away.
LockFails(k) ==
  /\ lock[k] \in {"runs", "write"}
  /\ lock' = [lock EXCEPT ![k] = "done"]
  /\ UNCHANGED <<school, session, pc, reads, rows>>

-----------------------------------------------------------------------------
(* Retention.                                                              *)

\* applySessionRetention deletes the session documents of an archived year, in
\* batches, after a grace period no request outlives.
DeleteSession(s) ==
  /\ yearStatus = "archived"
  /\ \A a \in Attempts : pc[a] \in {"idle", "done", "failed"}
  /\ \A k \in Lockers : lock[k] \in {"idle", "done"}
  /\ session[s] \notin {"none", Deleted}
  /\ session' = [session EXCEPT ![s] = Deleted]
  /\ UNCHANGED <<school, pc, reads, rows, lock>>

Archiving(a) ==
  \/ ReadYear(a) \/ ReadRuns(a) \/ (\E r \in Runs : ReadSessions(a, r))
  \/ CheckReads(a) \/ LockYear(a) \/ CountRows(a) \/ InsertRows(a)
  \/ TakeSnapshot(a) \/ SetArchived(a) \/ AttemptFails(a)

Locking(k) == ReadYearToLock(k) \/ CheckRuns(k) \/ SetLocked(k) \/ LockFails(k)

Taking(s) == \/ StartSession(s) \/ SubmitSession(s)
             \/ \E to \in Statuses : TransitionSession(s, to)

Next ==
  \/ \E r \in Runs : CreateRun(r) \/ CloseWindow(r) \/ CompleteRun(r)
  \/ \E s \in Sessions : Taking(s) \/ DeleteSession(s)
  \/ \E a \in Attempts : Archiving(a)
  \/ \E k \in Lockers : Locking(k)

Spec == Init /\ [][Next]_vars

-----------------------------------------------------------------------------
(* Properties.                                                             *)

\* A student has at most one live session in a run: "One active session per
\* student per run".
OneLiveSession ==
  \A s, t \in Live :
    StudentOf[s] = StudentOf[t] /\ RunOf[s] = RunOf[t] => s = t

\* Requests that have gone on to the snapshot, and perhaps answered.
Past(a) == pc[a] \in {"snapshot", "archive", "done"}

\* A request that found the year locked, as every retry of one that locked it
\* does, goes on only when all submitted sessions of the year are in the
\* archive table: it has read them all, although its queries are separate, and
\* the comparison of counts refuses what an earlier request, which read while
\* sessions went on, may have left there.
RetryIsComplete ==
  \A a \in Attempts : found[a] = "locked" /\ Past(a) => In("submitted") \subseteq rows

\* Only submitted sessions are ever exported, and none of them changes any more
\* unless it is deleted.
RowsAreSubmitted == \A s \in rows : session[s] \in {"submitted", Deleted}

\* Once the year is locked, by whichever request, its set of submitted sessions
\* only shrinks, by deletion: what a new request reads was there for every
\* earlier one.
LockedYearIsFinal ==
  [][yearStatus # "active" => In("submitted")' \subseteq In("submitted")]_vars
=============================================================================
