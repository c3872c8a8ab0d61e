------------------------ MODULE PostSubmissionProofs ------------------------
(***************************************************************************)
(* Theorems about PostSubmission, for any number of sessions, executions   *)
(* and questions, however the documents are shared between sessions.       *)
(***************************************************************************)
EXTENDS PostSubmission, FiniteSetTheorems, TLAPS

\* Where an execution can be.
Places == {"announce", "meter", "run", "student", "question", "readInsight",
           "writeInsight", "notify", "done", "new", "failed"}

\* The stages behind each effect: an execution that is there has made it, or
\* found it made.
BehindInsight == {"notify", "done"}
BehindQuestion == {"readInsight", "writeInsight"} \cup BehindInsight
BehindStudent == {"question"} \cup BehindQuestion
BehindRun == {"student"} \cup BehindStudent
BehindMeter == {"run"} \cup BehindRun

\* The stages that come before an engine has run, and the executions, failed
\* ones included, that are not there any more.
Upto(engine) ==
  {"new", "announce", "meter", "run"}
    \cup (IF engine = "run" THEN {}
          ELSE {"student"} \cup (IF engine = "student" THEN {} ELSE {"question"}))
Past(engine, s) == {n \in 1..Executions : at[s][n] \notin Upto(engine)}

\* The types, but for the bound on counted.
Types ==
  /\ at \in [Sessions -> [1..Executions -> Places]]
  /\ announced \in [Docs -> Sessions \cup {None}]
  /\ last \in [Docs -> Sessions \cup {None}]
  /\ counted \in [Docs -> [Sessions -> Nat]]
  /\ metered \subseteq Sessions
  /\ seen \in [Sessions -> [1..Executions -> SUBSET Sessions]]
  /\ insight \in [Sessions -> (SUBSET Sessions) \cup {None}]
  /\ emails \subseteq Sessions
-----------------------------------------------------------------------------
\* The successor of each stage.
LEMMA AfterStages ==
  /\ After("announce") = "meter" /\ After("meter") = "run"
  /\ After("run") = "student" /\ After("student") = "question"
  /\ After("question") = "readInsight" /\ After("readInsight") = "writeInsight"
  /\ After("writeInsight") = "notify" /\ After("notify") = "done"
<1>1. /\ Len(Stages) = 9
      /\ Stages[1] = "announce" /\ Stages[2] = "meter" /\ Stages[3] = "run"
      /\ Stages[4] = "student" /\ Stages[5] = "question"
      /\ Stages[6] = "readInsight" /\ Stages[7] = "writeInsight"
      /\ Stages[8] = "notify" /\ Stages[9] = "done"
  BY DEF Stages
<1>2. \A i \in 2..9 : i - 1 \in {1, 2, 3, 4, 5, 6, 7, 8}
  OBVIOUS
<1>3. After("announce") = "meter"
  <2>1. \A i \in 2..Len(Stages) : Stages[i - 1] = "announce" <=> i = 2
    BY <1>1, <1>2
  <2>2. (CHOOSE i \in 2..Len(Stages) : Stages[i - 1] = "announce") = 2
    BY <1>1, <2>1
  <2> QED BY <1>1, <2>2 DEF After
<1>4. After("meter") = "run"
  <2>1. \A i \in 2..Len(Stages) : Stages[i - 1] = "meter" <=> i = 3
    BY <1>1, <1>2
  <2>2. (CHOOSE i \in 2..Len(Stages) : Stages[i - 1] = "meter") = 3
    BY <1>1, <2>1
  <2> QED BY <1>1, <2>2 DEF After
<1>5. After("run") = "student"
  <2>1. \A i \in 2..Len(Stages) : Stages[i - 1] = "run" <=> i = 4
    BY <1>1, <1>2
  <2>2. (CHOOSE i \in 2..Len(Stages) : Stages[i - 1] = "run") = 4
    BY <1>1, <2>1
  <2> QED BY <1>1, <2>2 DEF After
<1>6. After("student") = "question"
  <2>1. \A i \in 2..Len(Stages) : Stages[i - 1] = "student" <=> i = 5
    BY <1>1, <1>2
  <2>2. (CHOOSE i \in 2..Len(Stages) : Stages[i - 1] = "student") = 5
    BY <1>1, <2>1
  <2> QED BY <1>1, <2>2 DEF After
<1>7. After("question") = "readInsight"
  <2>1. \A i \in 2..Len(Stages) : Stages[i - 1] = "question" <=> i = 6
    BY <1>1, <1>2
  <2>2. (CHOOSE i \in 2..Len(Stages) : Stages[i - 1] = "question") = 6
    BY <1>1, <2>1
  <2> QED BY <1>1, <2>2 DEF After
<1>8. After("readInsight") = "writeInsight"
  <2>1. \A i \in 2..Len(Stages) : Stages[i - 1] = "readInsight" <=> i = 7
    BY <1>1, <1>2
  <2>2. (CHOOSE i \in 2..Len(Stages) : Stages[i - 1] = "readInsight") = 7
    BY <1>1, <2>1
  <2> QED BY <1>1, <2>2 DEF After
<1>9. After("writeInsight") = "notify"
  <2>1. \A i \in 2..Len(Stages) : Stages[i - 1] = "writeInsight" <=> i = 8
    BY <1>1, <1>2
  <2>2. (CHOOSE i \in 2..Len(Stages) : Stages[i - 1] = "writeInsight") = 8
    BY <1>1, <2>1
  <2> QED BY <1>1, <2>2 DEF After
<1>10. After("notify") = "done"
  <2>1. \A i \in 2..Len(Stages) : Stages[i - 1] = "notify" <=> i = 9
    BY <1>1, <1>2
  <2>2. (CHOOSE i \in 2..Len(Stages) : Stages[i - 1] = "notify") = 9
    BY <1>1, <2>1
  <2> QED BY <1>1, <2>2 DEF After
<1> QED
  BY <1>3, <1>4, <1>5, <1>6, <1>7, <1>8, <1>9, <1>10

\* The only fact about Targets that a step uses.
LEMMA TargetFacts ==
  ASSUME NEW s \in Sessions
  PROVE  /\ \A e \in Engines : Targets(e, s) # {} /\ Targets(e, s) \subseteq Docs
         /\ Targets("run", s) = {RunDoc[s]}
         /\ Targets("student", s) = {StudentDoc[s]}
         /\ Targets("question", s) = QuestionDocs[s]
         /\ TargetsOf(s) = UNION {Targets(e, s) : e \in Engines}
         /\ \A e, f \in Engines : \A t \in Sessions :
              e # f => Targets(e, s) \cap Targets(f, t) = {}
<1>1. /\ Targets("run", s) = {RunDoc[s]}
      /\ Targets("student", s) = {StudentDoc[s]}
      /\ Targets("question", s) = QuestionDocs[s]
  BY DEF Targets
<1>2. \A e \in Engines : Targets(e, s) # {}
  BY <1>1, PostSubmissionAssumption DEF Engines
<1>3. \A e \in Engines : Targets(e, s) \subseteq Docs
  BY DEF TargetsOf, Docs
<1> QED
  BY <1>1, <1>2, <1>3, PostSubmissionAssumption DEF TargetsOf

\* A step of one execution leaves all the others where they are.
LEMMA Moved ==
  ASSUME Types, NEW s \in Sessions, NEW n \in 1..Executions,
         NEW x \in Places, Goto(s, n, x)
  PROVE  /\ at' \in [Sessions -> [1..Executions -> Places]]
         /\ \A t \in Sessions : \A m \in 1..Executions :
              at'[t][m] = IF t = s /\ m = n THEN x ELSE at[t][m]
BY DEF Types, Goto

\* An execution that passes is at a stage, and goes to the next one.
LEMMA Passed ==
  ASSUME NEW s \in Sessions, NEW n \in 1..Executions, Pass(s, n),
         at[s][n] \in {"announce", "meter", "run", "student", "question",
                       "readInsight", "writeInsight", "notify"}
  PROVE  /\ at[s][n] = "announce" => Goto(s, n, "meter")
         /\ at[s][n] = "meter" => Goto(s, n, "run")
         /\ at[s][n] = "run" => Goto(s, n, "student")
         /\ at[s][n] = "student" => Goto(s, n, "question")
         /\ at[s][n] = "question" => Goto(s, n, "readInsight")
         /\ at[s][n] = "writeInsight" => Goto(s, n, "notify")
         /\ at[s][n] = "notify" => Goto(s, n, "done")
BY AfterStages DEF Pass
-----------------------------------------------------------------------------
(* Usage and types.                                                        *)

\* Usage is exact because what is metered is finite: sessions are metered
\* one at a time.
UsageInv ==
  /\ Types
  /\ IsFiniteSet(metered)
  /\ UsageIsExact

\* Nothing is metered at first.
LEMMA InitUsage == Init => UsageInv
<1> SUFFICES ASSUME Init PROVE UsageInv
  OBVIOUS
<1>1. IsFiniteSet(metered) /\ Cardinality(metered) = 0
  BY FS_EmptySet DEF Init
<1>2. UsageIsExact
  BY <1>1 DEF UsageIsExact, Init
<1>3. Types
  BY DEF Types, Init, Places
<1> QED
  BY <1>1, <1>2, <1>3 DEF UsageInv

\* The type of seen, and of what one execution has seen.
LEMMA SeenType ==
  ASSUME Types
  PROVE  /\ seen \in [Sessions -> [1..Executions -> SUBSET Sessions]]
         /\ \A s \in Sessions : \A n \in 1..Executions :
              seen[s][n] \in SUBSET Sessions
<1>1. seen \in [Sessions -> [1..Executions -> SUBSET Sessions]]
  BY DEF Types
<1> QED
  BY <1>1

\* A step keeps the types.
LEMMA StepTypes ==
  ASSUME Types, NEW s \in Sessions, NEW n \in 1..Executions, Execution(s, n)
  PROVE  Types'
<1>1. CASE Start(s, n)
  <2>1. at' \in [Sessions -> [1..Executions -> Places]]
    BY <1>1, Moved DEF Start, Places
  <2> QED BY <1>1, <2>1 DEF Start, Types
<1>2. CASE Announce(s, n)
  <2>1. at' \in [Sessions -> [1..Executions -> Places]]
    BY <1>2, Moved, Passed DEF Announce, Places
  <2>2. announced' \in [Docs -> Sessions \cup {None}]
    BY <1>2 DEF Announce, Types
  <2> QED BY <1>2, <2>1, <2>2 DEF Announce, Types
<1>3. CASE Meter(s, n)
  <2>1. at' \in [Sessions -> [1..Executions -> Places]]
    BY <1>3, Moved, Passed DEF Meter, Places
  <2> QED BY <1>3, <2>1 DEF Meter, Types
<1>4. ASSUME NEW engine \in Engines, Count(engine, s, n) PROVE Types'
  <2>1. at' \in [Sessions -> [1..Executions -> Places]]
    BY <1>4, Moved, Passed DEF Count, Places, Engines
  <2>2. last' \in [Docs -> Sessions \cup {None}]
    BY <1>4 DEF Count, Types
  <2>3. counted' \in [Docs -> [Sessions -> Nat]]
    <3>1. \A d \in Docs : [counted[d] EXCEPT ![s] = @ + 1] \in [Sessions -> Nat]
      BY DEF Types
    <3> QED BY <1>4, <3>1 DEF Count, Types
  <2> QED BY <1>4, <2>1, <2>2, <2>3 DEF Count, Types
<1>5. CASE ReadInsight(s, n)
  <2>1. at' \in [Sessions -> [1..Executions -> Places]]
    BY <1>5, Moved DEF ReadInsight, Places
  <2>2. CountedIn(RunDoc[s]) \in SUBSET Sessions
    BY DEF CountedIn
  <2>3. seen' = seen \/ seen' = [seen EXCEPT ![s][n] = CountedIn(RunDoc[s])]
    BY <1>5 DEF ReadInsight
  <2>4. seen' \in [Sessions -> [1..Executions -> SUBSET Sessions]]
    BY <2>2, <2>3, SeenType
  <2> QED BY <1>5, <2>1, <2>4 DEF ReadInsight, Types
<1>6. CASE WriteInsight(s, n)
  <2>1. at' \in [Sessions -> [1..Executions -> Places]]
    BY <1>6, Moved, Passed DEF WriteInsight, Places
  <2>2. seen[s][n] \in SUBSET Sessions
    BY SeenType
  <2>3. insight' \in [Sessions -> (SUBSET Sessions) \cup {None}]
    BY <1>6, <2>2 DEF WriteInsight, Types
  <2> QED BY <1>6, <2>1, <2>3 DEF WriteInsight, Types
<1>7. CASE Notify(s, n)
  <2>1. at' \in [Sessions -> [1..Executions -> Places]]
    BY <1>7, Moved, Passed DEF Notify, Places
  <2> QED BY <1>7, <2>1 DEF Notify, Types
<1>8. CASE StageFails(s, n)
  <2>1. at' \in [Sessions -> [1..Executions -> Places]]
    BY <1>8, Moved DEF StageFails, Places
  <2> QED BY <1>8, <2>1 DEF StageFails, Types
<1> QED
  BY <1>1, <1>2, <1>3, <1>4, <1>5, <1>6, <1>7, <1>8 DEF Execution

\* A step adds at most one session to the meter, and counts it.
LEMMA StepUsage == UsageInv /\ [Next]_vars => UsageInv'
<1> SUFFICES ASSUME UsageInv, [Next]_vars PROVE UsageInv'
  OBVIOUS
<1>1. CASE UNCHANGED vars
  BY <1>1 DEF vars, UsageInv, Types, UsageIsExact
<1>2. ASSUME NEW s \in Sessions, NEW n \in 1..Executions, Execution(s, n)
      PROVE  UsageInv'
  <2>1. Types'
    BY <1>2, StepTypes DEF UsageInv
  <2>2. CASE Meter(s, n)
    <3>1. IsFiniteSet(metered') /\ (s \notin metered =>
             Cardinality(metered') = Cardinality(metered) + 1)
      BY <2>2, FS_AddElement DEF Meter, UsageInv
    <3>2. s \in metered => metered' = metered
      BY <2>2 DEF Meter
    <3> QED
      BY <2>1, <2>2, <3>1, <3>2 DEF Meter, UsageInv, UsageIsExact
  <2>3. CASE ~Meter(s, n)
    <3>1. UNCHANGED <<metered, volume>>
      BY <1>2, <2>3 DEF Execution, Start, Announce, Count, ReadInsight,
                        WriteInsight, Notify, StageFails
    <3> QED
      BY <2>1, <3>1 DEF UsageInv, UsageIsExact
  <2> QED
    BY <2>2, <2>3
<1> QED
  BY <1>1, <1>2 DEF Next

\* The usage meter counts each session that has been metered exactly once, in
\* any interleaving of any number of executions.
THEOREM UsageIsExactAlways == Spec => []UsageIsExact
<1>1. UsageInv => UsageIsExact
  BY DEF UsageInv
<1> QED
  BY InitUsage, StepUsage, <1>1, PTL DEF Spec
-----------------------------------------------------------------------------
(* The counts.                                                             *)

\* A document's marker names a session that is in its sums, if any is.
LastIsCounted ==
  \A d \in Docs : IF last[d] = None THEN \A s \in Sessions : counted[d][s] = 0
                                    ELSE counted[d][last[d]] > 0

\* A session is in the sums of its own documents only, and no more often than
\* executions of it have left the engine behind.
CountsBounded ==
  \A s \in Sessions, d \in Docs :
    /\ d \notin TargetsOf(s) => counted[d][s] = 0
    /\ \A e \in Engines : d \in Targets(e, s) =>
         counted[d][s] <= Cardinality(Past(e, s))

CountInv ==
  /\ Types
  /\ LastIsCounted
  /\ CountsBounded
  /\ QuestionsTogether
  /\ AloneCountedOnce

\* What the transaction of an engine adds, document by document.
LEMMA CountEffect ==
  ASSUME Types, NEW e \in Engines, NEW s \in Sessions, NEW n \in 1..Executions,
         Count(e, s, n), ~AlreadyProcessed(e, s)
  PROVE  /\ \A d \in Docs :
              last'[d] = IF d \in Targets(e, s) THEN s ELSE last[d]
         /\ \A d \in Docs : \A t \in Sessions :
              counted'[d][t] = IF d \in Targets(e, s) /\ t = s
                                 THEN counted[d][t] + 1 ELSE counted[d][t]
<1>1. \A d \in Docs : counted[d] \in [Sessions -> Nat]
  BY DEF Types
<1> QED
  BY <1>1 DEF Count

\* No other step touches the sums or the markers.
LEMMA CountsOnlyByEngines ==
  ASSUME NEW s \in Sessions, NEW n \in 1..Executions, Execution(s, n)
  PROVE  \/ UNCHANGED <<last, counted>>
         \/ \E e \in Engines : Count(e, s, n) /\ ~AlreadyProcessed(e, s)
BY DEF Execution, Start, Announce, Meter, Count, ReadInsight, WriteInsight,
       Notify, StageFails

\* No more executions leave an engine behind than there are.
LEMMA PastIsFinite ==
  ASSUME NEW e, NEW s
  PROVE  /\ IsFiniteSet(Past(e, s)) /\ Cardinality(Past(e, s)) \in Nat
         /\ Cardinality(Past(e, s)) <= Executions
<1>1. IsFiniteSet(1..Executions) /\ Cardinality(1..Executions) = Executions
  BY FS_Interval, PostSubmissionAssumption
<1>2. Past(e, s) \subseteq 1..Executions
  BY DEF Past
<1> QED
  BY <1>1, <1>2, FS_Subset, FS_CardinalityType

\* Executions only ever leave an engine behind, and every one that runs it does.
LEMMA PastGrows ==
  ASSUME Types, NEW s \in Sessions, NEW n \in 1..Executions, Execution(s, n),
         NEW e \in Engines, NEW t \in Sessions
  PROVE  /\ Past(e, t) \subseteq Past(e, t)'
         /\ Count(e, s, n) => Past(e, s)' = Past(e, s) \cup {n}
                              /\ n \notin Past(e, s)
<1> DEFINE Forward(x) == /\ x \in Places /\ Goto(s, n, x)
                         /\ \A f \in Engines : x \in Upto(f) => at[s][n] \in Upto(f)
<1>1. \E x : Forward(x)
  <2>1. CASE Start(s, n)
    <3>1. Forward("announce")
      BY <2>1 DEF Start, Places, Upto
    <3> QED BY <3>1
  <2>2. CASE Announce(s, n)
    <3>1. Forward("meter")
      BY <2>2, Passed DEF Announce, Places, Upto
    <3> QED BY <3>1
  <2>3. CASE Meter(s, n)
    <3>1. Forward("run")
      BY <2>3, Passed DEF Meter, Places, Upto
    <3> QED BY <3>1
  <2>4. ASSUME NEW f \in Engines, Count(f, s, n) PROVE \E x : Forward(x)
    <3>1. CASE f = "run"
      <4>1. Forward("student")
        BY <2>4, <3>1, Passed DEF Count, Places, Upto, Engines
      <4> QED BY <4>1
    <3>2. CASE f = "student"
      <4>1. Forward("question")
        BY <2>4, <3>2, Passed DEF Count, Places, Upto, Engines
      <4> QED BY <4>1
    <3>3. CASE f = "question"
      <4>1. Forward("readInsight")
        BY <2>4, <3>3, Passed DEF Count, Places, Upto, Engines
      <4> QED BY <4>1
    <3> QED BY <3>1, <3>2, <3>3 DEF Engines
  <2>5. CASE ReadInsight(s, n)
    <3>1. Forward("notify") \/ Forward("writeInsight")
      BY <2>5 DEF ReadInsight, Places, Upto
    <3> QED BY <3>1
  <2>6. CASE WriteInsight(s, n)
    <3>1. Forward("notify")
      BY <2>6, Passed DEF WriteInsight, Places, Upto
    <3> QED BY <3>1
  <2>7. CASE Notify(s, n)
    <3>1. Forward("done")
      BY <2>7, Passed DEF Notify, Places, Upto
    <3> QED BY <3>1
  <2>8. CASE StageFails(s, n)
    <3>1. Forward("failed")
      BY <2>8 DEF StageFails, Places, Upto
    <3> QED BY <3>1
  <2> QED
    BY <2>1, <2>2, <2>3, <2>4, <2>5, <2>6, <2>7, <2>8 DEF Execution
<1>2. PICK x : Forward(x)
  BY <1>1
<1>3. \A u \in Sessions : \A m \in 1..Executions :
        at'[u][m] = IF u = s /\ m = n THEN x ELSE at[u][m]
  BY <1>2, Moved
<1>4. Past(e, t) \subseteq Past(e, t)'
  BY <1>2, <1>3 DEF Past
<1>5. ASSUME Count(e, s, n)
      PROVE  Past(e, s)' = Past(e, s) \cup {n} /\ n \notin Past(e, s)
  <2>1. at[s][n] = e /\ e \in Upto(e)
    BY <1>5 DEF Count, Upto, Engines
  <2>2. n \notin Past(e, s)
    BY <2>1 DEF Past
  <2>3. x \notin Upto(e)
    <3>1. /\ e = "run" => x = "student"
          /\ e = "student" => x = "question"
          /\ e = "question" => x = "readInsight"
      <4>1. at'[s][n] = x
        BY <1>3
      <4>2. /\ e = "run" => Goto(s, n, "student")
            /\ e = "student" => Goto(s, n, "question")
            /\ e = "question" => Goto(s, n, "readInsight")
        BY <1>5, <2>1, Passed DEF Count, Engines
      <4>3. \A y \in Places : Goto(s, n, y) => at'[s][n] = y
        BY Moved
      <4> QED BY <4>1, <4>2, <4>3 DEF Places
    <3> QED BY <3>1 DEF Upto, Engines
  <2> QED
    BY <1>3, <2>2, <2>3 DEF Past
<1> QED
  BY <1>4, <1>5

\* No session is counted at first.
LEMMA InitCount == Init => CountInv
<1> SUFFICES ASSUME Init PROVE CountInv
  OBVIOUS
<1>1. Types
  BY InitUsage DEF UsageInv
<1>2. \A d \in Docs : last[d] = None /\ \A s \in Sessions : counted[d][s] = 0
  BY DEF Init
<1>3. LastIsCounted
  BY <1>2 DEF LastIsCounted
<1>4. CountsBounded
  BY <1>2, PastIsFinite DEF CountsBounded
<1>5. \A s \in Sessions : QuestionDocs[s] \subseteq Docs /\ TargetsOf(s) \subseteq Docs
  BY TargetFacts DEF Engines
<1>6. QuestionsTogether
  BY <1>2, <1>5 DEF QuestionsTogether
<1>7. AloneCountedOnce
  BY <1>2, <1>5 DEF AloneCountedOnce
<1> QED
  BY <1>1, <1>3, <1>4, <1>6, <1>7 DEF CountInv

\* A session that no other has joined in an engine's documents, and that the
\* engine does not recognize as processed, is in none of them.
LEMMA AloneIsNew ==
  ASSUME CountInv, NEW e \in Engines, NEW s \in Sessions,
         ~AlreadyProcessed(e, s),
         \A d \in Targets(e, s) : CountedIn(d) \subseteq {s}
  PROVE  \A d \in Targets(e, s) : counted[d][s] = 0
<1>1. PICK d0 \in Targets(e, s) : last[d0] # s
  BY DEF AlreadyProcessed
<1>2. d0 \in Docs
  BY TargetFacts
<1>3. counted[d0][s] \in Nat /\ last[d0] \in Sessions \cup {None}
  BY <1>2 DEF CountInv, Types
<1>4. counted[d0][s] = 0
  <2>1. SUFFICES ASSUME counted[d0][s] > 0 PROVE FALSE
    BY <1>3
  <2>2. last[d0] # None /\ counted[d0][last[d0]] > 0
    BY <1>2, <1>3, <2>1 DEF CountInv, LastIsCounted
  <2>3. last[d0] \in CountedIn(d0)
    BY <1>3, <2>2 DEF CountedIn
  <2> QED
    BY <1>1, <2>3
<1>5. \A d \in Targets(e, s) : counted[d][s] = counted[d0][s]
  <2>1. CASE e = "question"
    BY <1>1, <2>1, TargetFacts DEF CountInv, QuestionsTogether
  <2>2. CASE e # "question"
    BY <1>1, <2>2, TargetFacts DEF Engines
  <2> QED
    BY <2>1, <2>2
<1> QED
  BY <1>4, <1>5

\* The transaction of an engine keeps the invariant.
LEMMA CountStep ==
  ASSUME CountInv, NEW s \in Sessions, NEW n \in 1..Executions, Execution(s, n),
         NEW e \in Engines, Count(e, s, n), ~AlreadyProcessed(e, s), Types'
  PROVE  CountInv'
<1> DEFINE New(d, t) == d \in Targets(e, s) /\ t = s
<1>1. /\ \A d \in Docs : last'[d] = IF d \in Targets(e, s) THEN s ELSE last[d]
      /\ \A d \in Docs : \A t \in Sessions :
           counted'[d][t] = IF New(d, t) THEN counted[d][t] + 1 ELSE counted[d][t]
  BY CountEffect DEF CountInv
<1>2. \A d \in Docs : \A t \in Sessions : counted[d][t] \in Nat
  BY DEF CountInv, Types
<1>3. \A d \in Docs : last[d] \in Sessions \cup {None}
  BY DEF CountInv, Types
<1> HIDE DEF New
<1>4. LastIsCounted'
  <2> SUFFICES ASSUME NEW d \in Docs
               PROVE  IF last'[d] = None
                        THEN \A t \in Sessions : counted'[d][t] = 0
                        ELSE counted'[d][last'[d]] > 0
    BY DEF LastIsCounted
  <2>1. CASE d \in Targets(e, s)
    <3>1. last'[d] = s /\ s # None
      BY <1>1, <2>1, PostSubmissionAssumption
    <3>2. counted'[d][s] = counted[d][s] + 1
      BY <1>1, <2>1 DEF New
    <3> QED
      BY <1>2, <3>1, <3>2
  <2>2. CASE d \notin Targets(e, s)
    <3>1. last'[d] = last[d] /\ \A t \in Sessions : counted'[d][t] = counted[d][t]
      BY <1>1, <2>2 DEF New
    <3> QED
      BY <1>3, <3>1 DEF CountInv, LastIsCounted
  <2> QED
    BY <2>1, <2>2
<1>5. CountsBounded'
  <2> SUFFICES ASSUME NEW t \in Sessions, NEW d \in Docs
               PROVE  /\ d \notin TargetsOf(t) => counted'[d][t] = 0
                      /\ \A f \in Engines : d \in Targets(f, t) =>
                           counted'[d][t] <= Cardinality(Past(f, t)')
    BY DEF CountsBounded
  <2>1. ASSUME d \notin TargetsOf(t) PROVE counted'[d][t] = 0
    <3>1. ~New(d, t)
      BY <2>1, TargetFacts DEF New
    <3> QED
      BY <1>1, <2>1, <3>1 DEF CountInv, CountsBounded
  <2>2. ASSUME NEW f \in Engines, d \in Targets(f, t)
        PROVE  counted'[d][t] <= Cardinality(Past(f, t)')
    <3>1. counted[d][t] <= Cardinality(Past(f, t))
      BY <2>2 DEF CountInv, CountsBounded
    <3>2. Past(f, t) \subseteq Past(f, t)' /\ Past(f, t)' \subseteq 1..Executions
      BY PastGrows DEF CountInv, Past
    <3>3. /\ IsFiniteSet(Past(f, t)') /\ Cardinality(Past(f, t)') \in Nat
          /\ IsFiniteSet(Past(f, t)) /\ Cardinality(Past(f, t)) \in Nat
      <4>1. IsFiniteSet(1..Executions)
        BY FS_Interval, PostSubmissionAssumption
      <4> QED
        BY <3>2, <4>1, PastIsFinite, FS_Subset, FS_CardinalityType
    <3>4. Cardinality(Past(f, t)) <= Cardinality(Past(f, t)')
      BY <3>2, <3>3, FS_Subset
    <3>5. CASE New(d, t)
      <4>1. f = e /\ t = s
        BY <2>2, <3>5, TargetFacts DEF New
      <4>2. Past(f, t)' = Past(f, t) \cup {n} /\ n \notin Past(f, t)
        BY <4>1, PastGrows DEF CountInv
      <4>3. Cardinality(Past(f, t)') = Cardinality(Past(f, t)) + 1
        BY <3>3, <4>2, FS_AddElement
      <4> QED
        BY <1>1, <1>2, <3>1, <3>3, <3>5, <4>3
    <3>6. CASE ~New(d, t)
      BY <1>1, <1>2, <3>1, <3>3, <3>4, <3>6
    <3> QED
      BY <3>5, <3>6
  <2> QED
    BY <2>1, <2>2
<1>6. QuestionsTogether'
  <2> SUFFICES ASSUME NEW t \in Sessions, NEW c \in QuestionDocs[t],
                      NEW d \in QuestionDocs[t]
               PROVE  counted'[c][t] = counted'[d][t]
    BY DEF QuestionsTogether
  <2>1. c \in Docs /\ d \in Docs
    BY TargetFacts DEF Engines
  <2>2. New(c, t) <=> New(d, t)
    <3>1. c \in Targets("question", t) /\ d \in Targets("question", t)
      BY TargetFacts
    <3>2. "question" \in Engines
      BY DEF Engines
    <3>3. New(c, t) \/ New(d, t) => e = "question" /\ t = s
      BY <3>1, <3>2, TargetFacts DEF New
    <3> QED
      BY <3>1, <3>3 DEF New
  <2>3. counted[c][t] = counted[d][t]
    BY DEF CountInv, QuestionsTogether
  <2> QED
    BY <1>1, <2>1, <2>2, <2>3
<1>7. AloneCountedOnce'
  <2> SUFFICES ASSUME NEW t \in Sessions,
                      \A d \in TargetsOf(t) : CountedIn(d)' \subseteq {t},
                      NEW d \in TargetsOf(t)
               PROVE  counted'[d][t] <= 1
    BY DEF AloneCountedOnce
  <2>1. TargetsOf(t) \subseteq Docs
    BY TargetFacts
  <2>2. \A c \in Docs : CountedIn(c) \subseteq CountedIn(c)'
    BY <1>1, <1>2 DEF CountedIn
  <2>3. \A c \in TargetsOf(t) : CountedIn(c) \subseteq {t}
    BY <2>1, <2>2
  <2>4. counted[d][t] <= 1
    BY <2>3 DEF CountInv, AloneCountedOnce
  <2>5. CASE New(d, t)
    <3>1. Targets(e, s) \subseteq TargetsOf(t) /\ d \in Targets(e, s) /\ t = s
      BY <2>5, TargetFacts DEF New
    <3>2. counted[d][t] = 0
      BY <2>3, <3>1, AloneIsNew
    <3> QED
      BY <1>1, <2>1, <2>5, <3>2
  <2>6. CASE ~New(d, t)
    BY <1>1, <2>1, <2>4, <2>6
  <2> QED
    BY <2>5, <2>6
<1> QED
  BY <1>4, <1>5, <1>6, <1>7 DEF CountInv

\* So does every step.
LEMMA StepCount == CountInv /\ [Next]_vars => CountInv'
<1> SUFFICES ASSUME CountInv, [Next]_vars PROVE CountInv'
  OBVIOUS
<1>1. CASE UNCHANGED vars
  <2>1. UNCHANGED <<at, last, counted>> /\ Types'
    BY <1>1 DEF vars, CountInv, Types
  <2>2. \A e, s : Past(e, s)' = Past(e, s)
    BY <2>1 DEF Past
  <2> QED
    BY <2>1, <2>2 DEF CountInv, LastIsCounted, CountsBounded, QuestionsTogether,
                      AloneCountedOnce, CountedIn
<1>2. ASSUME NEW s \in Sessions, NEW n \in 1..Executions, Execution(s, n)
      PROVE  CountInv'
  <2>1. Types'
    BY <1>2, StepTypes DEF CountInv
  <2>2. CASE UNCHANGED <<last, counted>>
    <3>1. LastIsCounted' /\ QuestionsTogether' /\ AloneCountedOnce'
      BY <2>2 DEF CountInv, LastIsCounted, QuestionsTogether, AloneCountedOnce,
                  CountedIn
    <3>2. ASSUME NEW e \in Engines, NEW t \in Sessions
          PROVE  /\ Cardinality(Past(e, t)) \in Nat
                 /\ Cardinality(Past(e, t)') \in Nat
                 /\ Cardinality(Past(e, t)) <= Cardinality(Past(e, t)')
      <4>1. Past(e, t) \subseteq Past(e, t)' /\ Past(e, t)' \subseteq 1..Executions
        BY <1>2, PastGrows DEF CountInv, Past
      <4>2. IsFiniteSet(1..Executions)
        BY FS_Interval, PostSubmissionAssumption
      <4>3. IsFiniteSet(Past(e, t)')
        BY <4>1, <4>2, FS_Subset
      <4> QED
        BY <4>1, <4>3, PastIsFinite, FS_Subset, FS_CardinalityType
    <3>3. CountsBounded'
      <4>1. \A d \in Docs : \A t \in Sessions : counted[d][t] \in Nat
        BY DEF CountInv, Types
      <4> QED
        BY <2>2, <3>2, <4>1 DEF CountInv, CountsBounded
    <3> QED
      BY <2>1, <3>1, <3>3 DEF CountInv
  <2>3. ASSUME NEW e \in Engines, Count(e, s, n), ~AlreadyProcessed(e, s)
        PROVE  CountInv'
    BY <1>2, <2>1, <2>3, CountStep
  <2> QED
    BY <1>2, <2>2, <2>3, CountsOnlyByEngines
<1> QED
  BY <1>1, <1>2 DEF Next

\* The inductive invariant behind the analytics properties.
THEOREM CountInvariant == Spec => []CountInv
BY InitCount, StepCount, PTL DEF Spec

\* Every variable has its type; in particular no document counts a session
\* more often than the session has executions.
THEOREM TypeCorrect == Spec => []TypeOK
<1>1. CountInv /\ UsageInv => TypeOK
  <2> SUFFICES ASSUME CountInv, UsageInv PROVE TypeOK
    OBVIOUS
  <2>1. \A d \in Docs : counted[d] \in [Sessions -> 0..Executions]
    <3> SUFFICES ASSUME NEW d \in Docs, NEW s \in Sessions
                 PROVE  counted[d][s] \in 0..Executions
      BY DEF CountInv, Types
    <3>1. counted[d][s] \in Nat
      BY DEF CountInv, Types
    <3>2. CASE d \in TargetsOf(s)
      <4>1. PICK e \in Engines : d \in Targets(e, s)
        BY <3>2 DEF TargetsOf
      <4>2. counted[d][s] <= Cardinality(Past(e, s))
        BY <4>1 DEF CountInv, CountsBounded
      <4> QED
        BY <3>1, <4>2, PastIsFinite, PostSubmissionAssumption
    <3>3. CASE d \notin TargetsOf(s)
      BY <3>3, PostSubmissionAssumption DEF CountInv, CountsBounded
    <3> QED
      BY <3>2, <3>3
  <2>2. counted \in [Docs -> [Sessions -> 0..Executions]]
    BY <2>1 DEF CountInv, Types
  <2>3. volume \in Nat
    BY FS_CardinalityType DEF UsageInv, UsageIsExact
  <2>4. {Stages[i] : i \in 1..Len(Stages)} \cup {"new", "failed"} = Places
    <3>1. Len(Stages) = 9 /\ \A x : x \in 1..9 <=> x \in {1, 2, 3, 4, 5, 6, 7, 8, 9}
      BY DEF Stages
    <3> QED
      BY <3>1 DEF Stages, Places
  <2> QED
    BY <2>2, <2>3, <2>4 DEF CountInv, Types, TypeOK
<1> QED
  BY InitCount, StepCount, InitUsage, StepUsage, <1>1, PTL DEF Spec

\* The questions of a session are counted together, whatever other sessions
\* they belong to.
THEOREM QuestionsTogetherAlways == Spec => []QuestionsTogether
<1>1. CountInv => QuestionsTogether
  BY DEF CountInv
<1> QED
  BY CountInvariant, <1>1, PTL

\* Running the pipeline again for a session adds nothing, as long as no other
\* session shares a document with it.
THEOREM AloneCountedOnceAlways == Spec => []AloneCountedOnce
<1>1. CountInv => AloneCountedOnce
  BY DEF CountInv
<1> QED
  BY CountInvariant, <1>1, PTL
-----------------------------------------------------------------------------
(* The order of the effects.                                               *)

\* What must be there when an execution for s is at x.
Reached(s, x) ==
  /\ x \in BehindMeter => s \in metered
  /\ x \in BehindRun => In("run", s)
  /\ x \in BehindStudent => In("student", s)
  /\ x \in BehindQuestion => In("question", s)
  /\ x \in BehindInsight => insight[s] # None

ReachedInOrder == \A s \in Sessions, n \in 1..Executions : Reached(s, at[s][n])

\* An execution about to write an insight has read analytics with the session.
ReadIncludesSession ==
  \A s \in Sessions, n \in 1..Executions :
    at[s][n] = "writeInsight" => s \in seen[s][n]

EffectInv ==
  /\ CountInv
  /\ ReachedInOrder
  /\ EffectsInOrder
  /\ ReadIncludesSession
  /\ InsightIncludesSession

\* No effect is there at first.
LEMMA InitEffect == Init => EffectInv
<1> SUFFICES ASSUME Init PROVE EffectInv
  OBVIOUS
<1>1. \A e \in Engines, s \in Sessions : ~In(e, s)
  <2> SUFFICES ASSUME NEW e \in Engines, NEW s \in Sessions PROVE ~In(e, s)
    OBVIOUS
  <2>1. PICK d \in Targets(e, s) : d \in Docs
    BY TargetFacts
  <2>2. counted[d][s] = 0
    BY <2>1 DEF Init
  <2> QED
    BY <2>1, <2>2 DEF In
<1>2. ReachedInOrder
  BY DEF Init, ReachedInOrder, Reached, BehindMeter, BehindRun, BehindStudent,
         BehindQuestion, BehindInsight
<1>3. EffectsInOrder
  BY <1>1 DEF Init, EffectsInOrder, Engines
<1>4. ReadIncludesSession /\ InsightIncludesSession
  BY DEF Init, ReadIncludesSession, InsightIncludesSession
<1> QED
  BY <1>2, <1>3, <1>4, InitCount DEF EffectInv

\* Sums only grow, and an engine's step puts the session into them, if it is
\* not there.
LEMMA InSteps ==
  ASSUME CountInv, NEW s \in Sessions, NEW n \in 1..Executions, Execution(s, n),
         NEW f \in Engines, NEW t \in Sessions
  PROVE  /\ In(f, t) => In(f, t)'
         /\ Count(f, s, n) => In(f, s)'
         /\ In(f, t)' => In(f, t) \/ (t = s /\ Count(f, s, n))
<1>1. \A d \in Docs : \A u \in Sessions : counted[d][u] \in Nat
  BY DEF CountInv, Types
<1>2. \A u \in Sessions : Targets(f, u) \subseteq Docs
  BY TargetFacts
<1>3. CASE UNCHANGED <<last, counted>>
  <2>1. ASSUME Count(f, s, n) PROVE In(f, s)
    <3>1. CASE AlreadyProcessed(f, s)
      <4>1. \A d \in Targets(f, s) : last[d] = s /\ last[d] # None /\ d \in Docs
        BY <1>2, <3>1, PostSubmissionAssumption DEF AlreadyProcessed
      <4>2. \A d \in Targets(f, s) : counted[d][last[d]] > 0
        BY <4>1 DEF CountInv, LastIsCounted
      <4> QED
        BY <4>1, <4>2 DEF In
    <3>2. CASE ~AlreadyProcessed(f, s)
      <4>1. PICK d \in Targets(f, s) : d \in Docs
        BY TargetFacts
      <4>2. counted'[d][s] = counted[d][s] + 1
        BY <2>1, <3>2, <4>1, CountEffect DEF CountInv
      <4> QED
        BY <1>1, <1>3, <4>1, <4>2
    <3> QED
      BY <3>1, <3>2
  <2> QED
    BY <1>3, <2>1 DEF In
<1>4. ASSUME NEW e \in Engines, Count(e, s, n), ~AlreadyProcessed(e, s)
      PROVE  /\ In(f, t) => In(f, t)'
             /\ Count(f, s, n) => In(f, s)'
             /\ In(f, t)' => In(f, t) \/ (t = s /\ Count(f, s, n))
  <2>1. \A d \in Docs : \A u \in Sessions :
          counted'[d][u] = IF d \in Targets(e, s) /\ u = s
                             THEN counted[d][u] + 1 ELSE counted[d][u]
    BY <1>4, CountEffect DEF CountInv
  <2>2. In(f, t) => In(f, t)'
    BY <1>1, <1>2, <2>1 DEF In
  <2>3. Count(f, s, n) => f = e
    BY <1>4 DEF Count
  <2>4. In(e, s)'
    <3>1. \A d \in Targets(e, s) : d \in Docs
      BY TargetFacts
    <3>2. \A d \in Targets(e, s) : counted'[d][s] = counted[d][s] + 1
      BY <2>1, <3>1
    <3> QED
      BY <1>1, <3>1, <3>2 DEF In
  <2>5. ASSUME ~(t = s /\ f = e) PROVE In(f, t)' => In(f, t)
    <3>1. \A d \in Targets(f, t) : ~(d \in Targets(e, s) /\ t = s)
      BY <2>5, TargetFacts
    <3> QED
      BY <1>2, <2>1, <3>1 DEF In
  <2> QED
    BY <1>4, <2>2, <2>3, <2>4, <2>5
<1> QED
  BY <1>3, <1>4, CountsOnlyByEngines

\* What is metered or written stays.
LEMMA OtherEffects ==
  ASSUME Types, NEW s \in Sessions, NEW n \in 1..Executions, Execution(s, n),
         NEW t \in Sessions
  PROVE  /\ metered \subseteq metered'
         /\ insight[t] # None => insight'[t] = insight[t]
         /\ insight'[t] # insight[t] => (t = s /\ WriteInsight(s, n))
         /\ emails' # emails => Notify(s, n)
<1>1. CASE WriteInsight(s, n)
  BY <1>1 DEF WriteInsight, Types
<1>2. CASE ~WriteInsight(s, n)
  BY <1>2 DEF Execution, Start, Announce, Meter, Count, ReadInsight, Notify,
              StageFails
<1> QED
  BY <1>1, <1>2 DEF Execution, WriteInsight

\* Reached, stage by stage.
ReachedTable(s) ==
  /\ Reached(s, "announce") /\ Reached(s, "meter") /\ Reached(s, "failed")
  /\ Reached(s, "run") <=> s \in metered
  /\ Reached(s, "student") <=> s \in metered /\ In("run", s)
  /\ Reached(s, "question") <=>
       s \in metered /\ In("run", s) /\ In("student", s)
  /\ \A x \in BehindQuestion : Reached(s, x) <=>
       /\ s \in metered /\ In("run", s) /\ In("student", s) /\ In("question", s)
       /\ x \in BehindInsight => insight[s] # None

\* The table says what Reached says, before a step and after it.
LEMMA ReachedIsTable ==
  ASSUME NEW s \in Sessions PROVE ReachedTable(s) /\ ReachedTable(s)'
BY DEF ReachedTable, Reached, BehindMeter, BehindRun, BehindStudent,
       BehindQuestion, BehindInsight, Engines

\* An execution goes where what it has done allows it to be.
LEMMA StepReaches ==
  ASSUME EffectInv, NEW s \in Sessions, NEW n \in 1..Executions, Execution(s, n)
  PROVE  \E x \in Places : Goto(s, n, x) /\ Reached(s, x)'
<1> USE DEF BehindQuestion, BehindInsight, Places
<1>0. ReachedTable(s) /\ ReachedTable(s)'
  BY ReachedIsTable
<1>1. \A x : at[s][n] = x => Reached(s, x)
  BY DEF EffectInv, ReachedInOrder, Reached
<1>2. /\ In("run", s) \/ Count("run", s, n) => In("run", s)'
      /\ In("student", s) \/ Count("student", s, n) => In("student", s)'
      /\ In("question", s) \/ Count("question", s, n) => In("question", s)'
  <2>1. "run" \in Engines /\ "student" \in Engines /\ "question" \in Engines
    BY DEF Engines
  <2> QED
    BY <2>1, InSteps DEF EffectInv
<1>3. metered \subseteq metered' /\ (insight[s] # None => insight'[s] # None)
  BY OtherEffects DEF EffectInv, CountInv
<1>4. CASE Start(s, n)
  <2>1. Goto(s, n, "announce") /\ Reached(s, "announce")'
    BY <1>0, <1>4 DEF Start, ReachedTable
  <2> QED BY <2>1
<1>5. CASE Announce(s, n)
  <2>1. Goto(s, n, "meter") /\ Reached(s, "meter")'
    BY <1>0, <1>5, Passed DEF Announce, ReachedTable
  <2> QED BY <2>1
<1>6. CASE Meter(s, n)
  <2>1. Goto(s, n, "run") /\ Reached(s, "run")'
    BY <1>0, <1>6, Passed DEF Meter, ReachedTable
  <2> QED BY <2>1
<1>7. ASSUME \E e \in Engines : Count(e, s, n)
      PROVE  \E x \in Places : Goto(s, n, x) /\ Reached(s, x)'
  <2>1. CASE Count("run", s, n)
    <3>1. at[s][n] = "run" /\ Pass(s, n)
      BY <2>1 DEF Count
    <3>2. Goto(s, n, "student")
      BY <3>1, Passed
    <3>3. Reached(s, "run")
      BY <1>1, <3>1
    <3>4. In("run", s)'
      BY <1>2, <2>1 DEF Engines
    <3>5. Reached(s, "student")'
      BY <1>0, <1>2, <1>3, <3>3, <3>4 DEF Engines, ReachedTable
    <3> QED BY <3>2, <3>5
  <2>2. CASE Count("student", s, n)
    <3>1. at[s][n] = "student" /\ Pass(s, n)
      BY <2>2 DEF Count
    <3>2. Goto(s, n, "question")
      BY <3>1, Passed
    <3>3. Reached(s, "student")
      BY <1>1, <3>1
    <3>4. In("student", s)'
      BY <1>2, <2>2 DEF Engines
    <3>5. Reached(s, "question")'
      BY <1>0, <1>2, <1>3, <3>3, <3>4 DEF Engines, ReachedTable
    <3> QED BY <3>2, <3>5
  <2>3. CASE Count("question", s, n)
    <3>1. at[s][n] = "question" /\ Pass(s, n)
      BY <2>3 DEF Count
    <3>2. Goto(s, n, "readInsight")
      BY <3>1, Passed
    <3>3. Reached(s, "question")
      BY <1>1, <3>1
    <3>4. In("question", s)'
      BY <1>2, <2>3 DEF Engines
    <3>5. Reached(s, "readInsight")'
      BY <1>0, <1>2, <1>3, <3>3, <3>4 DEF Engines, ReachedTable
    <3> QED BY <3>2, <3>5
  <2>4. Count("run", s, n) \/ Count("student", s, n) \/ Count("question", s, n)
    BY <1>7 DEF Engines, Count, AlreadyProcessed
  <2> QED BY <2>1, <2>2, <2>3, <2>4
<1>8. CASE ReadInsight(s, n)
  <2>1. at[s][n] = "readInsight"
    BY <1>8 DEF ReadInsight
  <2>2. CASE insight[s] # None
    <3>1. Goto(s, n, "notify")
      BY <1>8, <2>2 DEF ReadInsight
    <3>2. Reached(s, "readInsight")
      BY <1>1, <2>1
    <3>3. Reached(s, "notify")'
      BY <1>0, <1>2, <1>3, <2>2, <3>2 DEF ReachedTable
    <3> QED BY <3>1, <3>3
  <2>3. CASE insight[s] = None
    <3>1. Goto(s, n, "writeInsight")
      BY <1>8, <2>3 DEF ReadInsight
    <3>2. Reached(s, "readInsight")
      BY <1>1, <2>1
    <3>3. Reached(s, "writeInsight")'
      BY <1>0, <1>2, <1>3, <3>2 DEF ReachedTable
    <3> QED BY <3>1, <3>3
  <2> QED BY <2>2, <2>3
<1>9. CASE WriteInsight(s, n)
  <2>1. at[s][n] = "writeInsight"
    BY <1>9 DEF WriteInsight
  <2>2. insight'[s] # None
    <3>1. seen[s][n] # None
      BY SeenType, PostSubmissionAssumption DEF EffectInv, CountInv
    <3> QED
      BY <1>9, <3>1 DEF WriteInsight, EffectInv, CountInv, Types
  <2>3. Goto(s, n, "notify")
    BY <1>9, <2>1, Passed DEF WriteInsight
  <2>4. Reached(s, "writeInsight")
    BY <1>1, <2>1
  <2>5. Reached(s, "notify")'
    BY <1>0, <1>2, <1>3, <2>2, <2>4 DEF ReachedTable
  <2> QED BY <2>3, <2>5
<1>10. CASE Notify(s, n)
  <2>1. at[s][n] = "notify"
    BY <1>10 DEF Notify
  <2>2. Goto(s, n, "done")
    BY <1>10, <2>1, Passed DEF Notify
  <2>3. Reached(s, "notify")
    BY <1>1, <2>1
  <2>4. Reached(s, "done")'
    BY <1>0, <1>2, <1>3, <2>3 DEF ReachedTable
  <2> QED BY <2>2, <2>4
<1>11. CASE StageFails(s, n)
  <2>1. Goto(s, n, "failed") /\ Reached(s, "failed")'
    BY <1>0, <1>11 DEF StageFails, ReachedTable
  <2> QED BY <2>1
<1> QED
  BY <1>4, <1>5, <1>6, <1>7, <1>8, <1>9, <1>10, <1>11 DEF Execution

\* A step of an execution keeps the invariant.
LEMMA ExecutionEffect ==
  ASSUME EffectInv, NEW s \in Sessions, NEW n \in 1..Executions, Execution(s, n),
         CountInv'
  PROVE  EffectInv'
<1>1. PICK x \in Places : Goto(s, n, x) /\ Reached(s, x)'
  BY StepReaches
<1>2. \A t \in Sessions : \A m \in 1..Executions :
        at'[t][m] = IF t = s /\ m = n THEN x ELSE at[t][m]
  BY <1>1, Moved DEF EffectInv, CountInv
<1>3. \A f \in Engines, t \in Sessions :
        /\ In(f, t) => In(f, t)'
        /\ In(f, t)' => In(f, t) \/ (t = s /\ Count(f, s, n))
  BY InSteps DEF EffectInv
<1>4. \A t \in Sessions :
        /\ insight[t] # None => insight'[t] = insight[t]
        /\ insight'[t] # insight[t] => (t = s /\ WriteInsight(s, n))
  BY OtherEffects DEF EffectInv, CountInv
<1>5. metered \subseteq metered' /\ (emails' # emails => Notify(s, n))
  BY OtherEffects DEF EffectInv, CountInv
<1>6. Reached(s, at[s][n])
  BY DEF EffectInv, ReachedInOrder
<1>7. ReachedInOrder'
  <2> SUFFICES ASSUME NEW t \in Sessions, NEW m \in 1..Executions
               PROVE  Reached(t, at[t][m])'
    BY DEF ReachedInOrder
  <2>1. CASE t = s /\ m = n
    BY <1>1, <1>2, <2>1 DEF Reached
  <2>2. CASE ~(t = s /\ m = n)
    <3>1. at'[t][m] = at[t][m] /\ Reached(t, at[t][m])
      BY <1>2, <2>2 DEF EffectInv, ReachedInOrder
    <3> QED
      BY <1>3, <1>4, <1>5, <3>1 DEF Reached, Engines
  <2> QED
    BY <2>1, <2>2
<1>8. EffectsInOrder'
  <2> SUFFICES ASSUME NEW t \in Sessions
               PROVE  /\ In("run", t)' => t \in metered'
                      /\ In("student", t)' => In("run", t)'
                      /\ In("question", t)' => In("student", t)'
                      /\ insight'[t] # None => In("question", t)'
                      /\ t \in emails' => insight'[t] # None
    BY DEF EffectsInOrder
  <2>1. /\ In("run", t) => t \in metered
        /\ In("student", t) => In("run", t)
        /\ In("question", t) => In("student", t)
        /\ insight[t] # None => In("question", t)
        /\ t \in emails => insight[t] # None
    BY DEF EffectInv, EffectsInOrder
  <2>2. In("run", t)' => t \in metered'
    <3>1. Count("run", s, n) => s \in metered
      BY <1>6 DEF Count, Reached, BehindMeter
    <3> QED BY <1>3, <1>5, <2>1, <3>1 DEF Engines
  <2>3. In("student", t)' => In("run", t)'
    <3>1. Count("student", s, n) => In("run", s)
      BY <1>6 DEF Count, Reached, BehindRun
    <3> QED BY <1>3, <2>1, <3>1 DEF Engines
  <2>4. In("question", t)' => In("student", t)'
    <3>1. Count("question", s, n) => In("student", s)
      BY <1>6 DEF Count, Reached, BehindStudent
    <3> QED BY <1>3, <2>1, <3>1 DEF Engines
  <2>5. insight'[t] # None => In("question", t)'
    <3>1. WriteInsight(s, n) => In("question", s)
      BY <1>6 DEF WriteInsight, Reached, BehindQuestion
    <3> QED BY <1>3, <1>4, <2>1, <3>1 DEF Engines
  <2>6. t \in emails' => insight'[t] # None
    <3>1. Notify(s, n) => insight[s] # None /\ emails' \subseteq emails \cup {s}
      BY <1>6 DEF Notify, Reached, BehindInsight
    <3> QED BY <1>4, <1>5, <2>1, <3>1
  <2> QED
    BY <2>2, <2>3, <2>4, <2>5, <2>6
<1>9. ReadIncludesSession'
  <2> SUFFICES ASSUME NEW t \in Sessions, NEW m \in 1..Executions,
                      at'[t][m] = "writeInsight"
               PROVE  t \in seen'[t][m]
    BY DEF ReadIncludesSession
  <2>1. CASE ReadInsight(s, n) /\ t = s /\ m = n
    <3>1. insight[s] = None
      <4>1. insight[s] # None => Goto(s, n, "notify")
        BY <2>1 DEF ReadInsight
      <4>2. Goto(s, n, "notify") => at'[s][n] = "notify"
        BY Moved DEF EffectInv, CountInv, Places
      <4> QED BY <2>1, <4>1, <4>2
    <3>2. seen' = [seen EXCEPT ![s][n] = CountedIn(RunDoc[s])]
      BY <2>1, <3>1 DEF ReadInsight
    <3>3. seen'[s][n] = CountedIn(RunDoc[s])
      BY <3>2, SeenType DEF EffectInv, CountInv
    <3>4. In("run", s)
      BY <1>6, <2>1 DEF ReadInsight, Reached, BehindRun, BehindStudent,
                        BehindQuestion
    <3>5. s \in CountedIn(RunDoc[s])
      BY <3>4, TargetFacts DEF In, CountedIn
    <3> QED
      BY <2>1, <3>3, <3>5
  <2>2. CASE ~(ReadInsight(s, n) /\ t = s /\ m = n)
    <3>1. at[t][m] = "writeInsight"
      <4>1. CASE t = s /\ m = n
        <5>1. ~ReadInsight(s, n)
          BY <2>2, <4>1
        <5>2. \A y \in Places : Goto(s, n, y) => at'[s][n] = y
          BY Moved DEF EffectInv, CountInv
        <5>3. Execution(s, n) => \/ ReadInsight(s, n)
                                \/ \E y \in Places \ {"writeInsight"} : Goto(s, n, y)
          BY Passed DEF Execution, Start, Announce, Meter, Count, Engines,
                        WriteInsight, Notify, StageFails, Places
        <5> QED BY <4>1, <5>1, <5>2, <5>3
      <4>2. CASE ~(t = s /\ m = n)
        BY <1>2, <4>2
      <4> QED BY <4>1, <4>2
    <3>2. t \in seen[t][m]
      BY <3>1 DEF EffectInv, ReadIncludesSession
    <3>3. seen'[t][m] = seen[t][m]
      <4>1. CASE ReadInsight(s, n)
        <5>1. \/ seen' = seen
              \/ seen' = [seen EXCEPT ![s][n] = CountedIn(RunDoc[s])]
          BY <4>1 DEF ReadInsight
        <5>2. ~(t = s /\ m = n)
          BY <2>2, <4>1
        <5>3. seen \in [Sessions -> [1..Executions -> SUBSET Sessions]]
          BY SeenType DEF EffectInv, CountInv
        <5>4. seen[s] \in [1..Executions -> SUBSET Sessions]
          BY <5>3
        <5>5. CASE t # s
          BY <5>1, <5>3, <5>5
        <5>6. CASE t = s
          BY <5>1, <5>2, <5>3, <5>4, <5>6
        <5> QED BY <5>5, <5>6
      <4>2. CASE ~ReadInsight(s, n)
        BY <4>2 DEF Execution, Start, Announce, Meter, Count, WriteInsight,
                    Notify, StageFails
      <4> QED BY <4>1, <4>2
    <3> QED
      BY <3>2, <3>3
  <2> QED
    BY <2>1, <2>2
<1>10. InsightIncludesSession'
  <2> SUFFICES ASSUME NEW t \in Sessions, insight'[t] # None
               PROVE  t \in insight'[t]
    BY DEF InsightIncludesSession
  <2>1. CASE insight[t] # None
    BY <1>4, <2>1 DEF EffectInv, InsightIncludesSession
  <2>2. CASE insight[t] = None
    <3>1. t = s /\ WriteInsight(s, n)
      BY <1>4, <2>2
    <3>2. insight'[s] = seen[s][n]
      BY <2>2, <3>1 DEF WriteInsight, EffectInv, CountInv, Types
    <3>3. s \in seen[s][n]
      BY <3>1 DEF WriteInsight, EffectInv, ReadIncludesSession
    <3> QED
      BY <3>1, <3>2, <3>3
  <2> QED
    BY <2>1, <2>2
<1> QED
  BY <1>7, <1>8, <1>9, <1>10 DEF EffectInv

\* So does every step of the system.
LEMMA StepEffect == EffectInv /\ [Next]_vars => EffectInv'
<1> SUFFICES ASSUME EffectInv, [Next]_vars PROVE EffectInv'
  OBVIOUS
<1>1. CountInv'
  BY StepCount DEF EffectInv
<1>2. CASE UNCHANGED vars
  BY <1>1, <1>2 DEF vars, EffectInv, ReachedInOrder, Reached, In, EffectsInOrder,
                    ReadIncludesSession, InsightIncludesSession
<1>3. CASE Next
  BY <1>1, <1>3, ExecutionEffect DEF Next
<1> QED
  BY <1>2, <1>3

\* The inductive invariant behind the order of the effects.
THEOREM EffectInvariant == Spec => []EffectInv
BY InitEffect, StepEffect, PTL DEF Spec

\* What a failed execution has done is a beginning of the pipeline: nothing
\* later is there without everything before it.
THEOREM EffectsInOrderAlways == Spec => []EffectsInOrder
<1>1. EffectInv => EffectsInOrder
  BY DEF EffectInv
<1> QED
  BY EffectInvariant, <1>1, PTL

\* When an execution ends well, nothing of the session is missing.
THEOREM DoneIsCompleteAlways == Spec => []DoneIsComplete
<1>1. EffectInv => DoneIsComplete
  BY DEF EffectInv, ReachedInOrder, Reached, BehindMeter, BehindRun,
         BehindStudent, BehindQuestion, BehindInsight, DoneIsComplete, Engines
<1> QED
  BY EffectInvariant, <1>1, PTL

\* Insights are built from analytics that include their session.
THEOREM InsightIncludesSessionAlways == Spec => []InsightIncludesSession
<1>1. EffectInv => InsightIncludesSession
  BY DEF EffectInv
<1> QED
  BY EffectInvariant, <1>1, PTL

\* Insight snapshots are never replaced, although they are built from reads
\* outside the transaction that writes them.
THEOREM InsightIsFinalAlways == Spec => InsightIsFinal
<1>1. CountInv /\ [Next]_vars =>
        [\A s \in Sessions : insight[s] # None => insight'[s] = insight[s]]_vars
  BY OtherEffects DEF Next, CountInv
<1> QED
  BY CountInvariant, <1>1, PTL DEF Spec, InsightIsFinal
=============================================================================
