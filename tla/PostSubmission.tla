--------------------------- MODULE PostSubmission ---------------------------
(***************************************************************************)
(* What PostSubmissionPipelineService.execute does for the sessions of an  *)
(* institute: eight Firestore operations in a row, any of which may fail.  *)
(* A failed execution is run again from its first stage (FailureRecovery), *)
(* and a redelivered event runs it again whatever became of the first.     *)
(* Executions for different sessions interleave stage by stage.            *)
(*                                                                         *)
(* Usage, insights and notifications leave a document per session.  The    *)
(* analytics engines keep only the id of the last session they processed.  *)
(***************************************************************************)
EXTENDS Integers, Sequences, FiniteSets

CONSTANTS
  Sessions,      \* submitted sessions
  None,          \* no session, no insight snapshot
  RunDoc,        \* RunDoc[s]: the runAnalytics document of the session's run
  StudentDoc,    \* StudentDoc[s]: its student's studentYearMetrics document
  QuestionDocs,  \* QuestionDocs[s]: questionAnalytics of its questions
  Executions,    \* bound: executions of the pipeline for one session
  Redelivered    \* sessions whose event may be delivered more than once

Engines == {"run", "student", "question"}

\* The analytics documents an engine updates for a session.
Targets(engine, s) ==
  CASE engine = "run"      -> {RunDoc[s]}
    [] engine = "student"  -> {StudentDoc[s]}
    [] engine = "question" -> QuestionDocs[s]

TargetsOf(s) == UNION {Targets(e, s) : e \in Engines}
Docs == UNION {TargetsOf(s) : s \in Sessions}

ASSUME PostSubmissionAssumption ==
  /\ None \notin Sessions /\ \A S \in SUBSET Sessions : None # S
  /\ DOMAIN RunDoc = Sessions /\ DOMAIN StudentDoc = Sessions
  /\ DOMAIN QuestionDocs = Sessions
  /\ \A s \in Sessions : QuestionDocs[s] # {}
  /\ \A e, f \in Engines : \A s, t \in Sessions :
       e # f => Targets(e, s) \cap Targets(f, t) = {}
  /\ Executions \in Nat \ {0}
  /\ Redelivered \subseteq Sessions

\* Mutant: insights before analytics.
StagesInsightFirst ==
  <<"announce", "meter", "readInsight", "writeInsight",
    "run", "student", "question", "notify", "done">>

\* The pipeline's stages, in order.
Stages == <<"announce", "meter", "run", "student", "question",
            "readInsight", "writeInsight", "notify", "done">>
After(stage) == Stages[CHOOSE i \in 2..Len(Stages) : Stages[i - 1] = stage]

VARIABLES
  at,         \* at[s][n]: where the session's n-th execution is
  announced,  \* processingMarkers.analyticsTrigger.lastProcessedSessionId
  last,       \* processingMarkers.<engine>.lastProcessedSessionId
  counted,    \* counted[d][s]: times s has been added to the sums of d
  metered,    \* sessionEvents documents of the usage meter
  volume,     \* usageMeter.sessionExecutionVolume
  seen,       \* seen[s][n]: the run's sessions as read for the insight
  insight,    \* insight[s]: the same, in the snapshots written
  emails      \* sessions with jobs in emailQueue

vars == <<at, announced, last, counted, metered, volume, seen, insight, emails>>

TypeOK ==
  /\ at \in [Sessions -> [1..Executions ->
              {Stages[i] : i \in 1..Len(Stages)} \cup {"new", "failed"}]]
  /\ announced \in [Docs -> Sessions \cup {None}]
  /\ last \in [Docs -> Sessions \cup {None}]
  /\ counted \in [Docs -> [Sessions -> 0..Executions]]
  /\ metered \subseteq Sessions
  /\ volume \in Nat
  /\ seen \in [Sessions -> [1..Executions -> SUBSET Sessions]]
  /\ insight \in [Sessions -> (SUBSET Sessions) \cup {None}]
  /\ emails \subseteq Sessions

Init ==
  /\ at = [s \in Sessions |-> [n \in 1..Executions |-> "new"]]
  /\ announced = [d \in Docs |-> None]
  /\ last = [d \in Docs |-> None]
  /\ counted = [d \in Docs |-> [s \in Sessions |-> 0]]
  /\ metered = {}
  /\ volume = 0
  /\ seen = [s \in Sessions |-> [n \in 1..Executions |-> {}]]
  /\ insight = [s \in Sessions |-> None]
  /\ emails = {}

-----------------------------------------------------------------------------
Goto(s, n, stage) == at' = [at EXCEPT ![s][n] = stage]

\* The stage is over and the next one begins.
Pass(s, n) == Goto(s, n, After(at[s][n]))

\* The first execution is the trigger's; the next ones are retries of a
\* failed one, or redeliveries beside a previous one.
Start(s, n) ==
  /\ at[s][n] = "new"
  /\ n > 1 => \/ at[s][n - 1] = "failed"
              \/ s \in Redelivered /\ at[s][n - 1] # "new"
  /\ Goto(s, n, "announce")
  /\ UNCHANGED <<announced, last, counted, metered, volume, seen, insight,
                 emails>>

\* SubmissionAnalyticsTriggerService marks the run and the student documents.
Announce(s, n) ==
  /\ at[s][n] = "announce"
  /\ announced' = [d \in Docs |-> IF d \in {RunDoc[s], StudentDoc[s]}
                                    THEN s ELSE announced[d]]
  /\ Pass(s, n)
  /\ UNCHANGED <<last, counted, metered, volume, seen, insight, emails>>

\* Mutant: the session's event document is not looked up.
MeterAgain(s, n) ==
  /\ at[s][n] = "meter"
  /\ metered' = metered \cup {s}
  /\ volume' = volume + 1
  /\ Pass(s, n)
  /\ UNCHANGED <<announced, last, counted, seen, insight, emails>>

\* recordSessionExecutionUsage: once per session, by its event document.
Meter(s, n) ==
  /\ at[s][n] = "meter"
  /\ metered' = metered \cup {s}
  /\ volume' = IF s \in metered THEN volume ELSE volume + 1
  /\ Pass(s, n)
  /\ UNCHANGED <<announced, last, counted, seen, insight, emails>>

\* Mutant: an analytics engine that keeps no marker.
NeverProcessed(engine, s) == FALSE

\* Mutant: a document with any marker passes for processed.
MarkerPresent(engine, s) == \A d \in Targets(engine, s) : last[d] # None

\* "already_processed": s is the last session of all the documents, for the
\* question engine of every question at once.
AlreadyProcessed(engine, s) == \A d \in Targets(engine, s) : last[d] = s

\* Mutant: only the first of the documents is updated.
CountOne(engine, s, n) ==
  /\ at[s][n] = engine
  /\ LET d == CHOOSE x \in Targets(engine, s) : TRUE
     IN  /\ counted' = [counted EXCEPT ![d][s] = @ + 1]
         /\ last' = [last EXCEPT ![d] = s]
  /\ Pass(s, n)
  /\ UNCHANGED <<announced, metered, volume, seen, insight, emails>>

\* processSubmittedSession of an analytics engine, one transaction: adds the
\* session to the sums of its documents and becomes their last session.
Count(engine, s, n) ==
  /\ at[s][n] = engine
  /\ IF AlreadyProcessed(engine, s)
       THEN UNCHANGED <<last, counted>>
       ELSE /\ last' = [d \in Docs |->
                 IF d \in Targets(engine, s) THEN s ELSE last[d]]
            /\ counted' = [d \in Docs |->
                 IF d \in Targets(engine, s)
                   THEN [counted[d] EXCEPT ![s] = @ + 1] ELSE counted[d]]
  /\ Pass(s, n)
  /\ UNCHANGED <<announced, metered, volume, seen, insight, emails>>

\* Sessions that an analytics document has taken in.
CountedIn(d) == {s \in Sessions : counted[d][s] > 0}

\* InsightEngineService reads, outside a transaction: it stops if the
\* snapshots exist, and else builds them from the run's analytics.
ReadInsight(s, n) ==
  /\ at[s][n] = "readInsight"
  /\ IF insight[s] # None
       THEN Goto(s, n, "notify") /\ UNCHANGED seen
       ELSE /\ Goto(s, n, "writeInsight")
            /\ seen' = [seen EXCEPT ![s][n] = CountedIn(RunDoc[s])]
  /\ UNCHANGED <<announced, last, counted, metered, volume, insight, emails>>

\* Its transaction: the snapshots, unless they exist by now.
WriteInsight(s, n) ==
  /\ at[s][n] = "writeInsight"
  /\ insight' = [insight EXCEPT ![s] = IF @ = None THEN seen[s][n] ELSE @]
  /\ Pass(s, n)
  /\ UNCHANGED <<announced, last, counted, metered, volume, seen, emails>>

\* Email jobs under ids made of the session; none if no rule applies or the
\* student has no address.
Notify(s, n) ==
  /\ at[s][n] = "notify"
  /\ emails' \in {emails, emails \cup {s}}
  /\ Pass(s, n)
  /\ UNCHANGED <<announced, last, counted, metered, volume, seen, insight>>

\* A stage throws; what the earlier ones wrote stays.
StageFails(s, n) ==
  /\ at[s][n] \notin {"new", "done", "failed"}
  /\ Goto(s, n, "failed")
  /\ UNCHANGED <<announced, last, counted, metered, volume, seen, insight,
                 emails>>

Execution(s, n) ==
  \/ Start(s, n) \/ Announce(s, n) \/ Meter(s, n)
  \/ \E engine \in Engines : Count(engine, s, n)
  \/ ReadInsight(s, n) \/ WriteInsight(s, n) \/ Notify(s, n)
  \/ StageFails(s, n)

Next == \E s \in Sessions, n \in 1..Executions : Execution(s, n)

Spec == Init /\ [][Next]_vars

-----------------------------------------------------------------------------
(* Properties.                                                             *)

Started(s) == {n \in 1..Executions : at[s][n] # "new"}
In(engine, s) == \A d \in Targets(engine, s) : counted[d][s] > 0

\* The usage meter, which is billed, counts every session exactly once however
\* often the pipeline is run for it, and misses none it has reached.
UsageIsExact == volume = Cardinality(metered)

\* The effects of a failed execution are those of its first stages: nothing
\* later is there without everything before it.
EffectsInOrder ==
  \A s \in Sessions :
    /\ In("run", s) => s \in metered
    /\ In("student", s) => In("run", s)
    /\ In("question", s) => In("student", s)
    /\ insight[s] # None => In("question", s)
    /\ s \in emails => insight[s] # None

\* When an execution ends well, nothing of the session is missing.
DoneIsComplete ==
  \A s \in Sessions : (\E n \in 1..Executions : at[s][n] = "done") =>
    s \in metered /\ insight[s] # None /\ \A e \in Engines : In(e, s)

\* The insight snapshots of a session are built from analytics that include
\* the session.
InsightIncludesSession ==
  \A s \in Sessions : insight[s] # None => s \in insight[s]

\* The questions of a session are counted together, all or none.
QuestionsTogether ==
  \A s \in Sessions : \A d, e \in QuestionDocs[s] :
    counted[d][s] = counted[e][s]

\* As long as no other session enters a document's sums, running the pipeline
\* again adds nothing: there the last-session marker is enough.
AloneCountedOnce ==
  \A s \in Sessions :
    (\A d \in TargetsOf(s) : CountedIn(d) \subseteq {s}) =>
      \A d \in TargetsOf(s) : counted[d][s] <= 1

\* Insight snapshots, once written, are never replaced.
InsightIsFinal ==
  [][\A s \in Sessions : insight[s] # None => insight'[s] = insight[s]]_vars
=============================================================================
