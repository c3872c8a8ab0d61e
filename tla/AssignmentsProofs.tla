-------------------------- MODULE AssignmentsProofs --------------------------
(* Theorems about Assignments: type correctness, and that the sessions of a *)
(* run agree on the calibration they work with.                             *)
EXTENDS Assignments, TLAPS

(* A request or event that is being processed has a run, and once it has     *)
(* passed its checks a version and a template.                              *)
Checked ==
    \A c \in Calls :
        /\ pc[c] \in {"read", "commit", "analytics", "meter"} => job[c].run \in Runs
        /\ pc[c] \in {"commit", "analytics", "meter"} =>
            job[c].version \in Versions /\ template \in Template

(* A session is in a run that is there, and whose window has come unless the *)
(* run has been created again since.                                        *)
StartedInOpenRun ==
    \A s \in Sessions : session[s] # None =>
        run[RunOf[s]] # None /\ RunOf[s] \in open \cup moved

(* While a run is open, no event of its creation is about to write it; the  *)
(* history variable names the exceptions.                                   *)
OpenIsSettled ==
    \A r \in open \ moved : \A c \in Calls :
        pc[c] \in {"read", "commit"} /\ job[c].run = r => ~job[c].event

SessionInv ==
    /\ TypeOK
    /\ Checked
    /\ StartedInOpenRun
    /\ OpenIsSettled
    /\ SessionsAgree

(* No run and no session exists at first.                                  *)
LEMMA SessionInit == Init => SessionInv
<1> SUFFICES ASSUME Init PROVE SessionInv
  OBVIOUS
<1>1. TypeOK
  BY AssignmentsAssumption DEF Init, TypeOK, NoJob
<1>2. Checked /\ StartedInOpenRun /\ OpenIsSettled /\ SessionsAgree
  BY DEF Init, Checked, StartedInOpenRun, OpenIsSettled, SessionsAgree
<1> QED
  BY <1>1, <1>2 DEF SessionInv

(* The template and the institute change beside the sessions.               *)
LEMMA SetupKeeps == SessionInv /\ Setup => SessionInv'
<1> SUFFICES ASSUME SessionInv, Setup PROVE SessionInv'
  OBVIOUS
<1> USE AssignmentsAssumption DEF SessionInv
<1>1. /\ run' = run /\ open' = open /\ session' = session /\ moved' = moved
      /\ pc' = pc /\ job' = job /\ initialized' = initialized /\ metered' = metered
  BY DEF Setup, CreateTemplate, TemplateCreated, DeployCalibration, UpdateLicense,
         meterVars, callVars, instituteVars
<1>2. template' \in Template \cup {None} /\ (template \in Template => template' \in Template)
  <2>1. CASE \E status \in {"draft", "ready"} : CreateTemplate(status)
    BY <2>1 DEF CreateTemplate, Template
  <2>2. CASE TemplateCreated
    <3>1. template \in Template
      BY <2>2 DEF TemplateCreated, TypeOK
    <3> QED
      BY <2>2, <3>1 DEF TemplateCreated, Template
  <2> QED
    BY <2>1, <2>2 DEF Setup, DeployCalibration, UpdateLicense, TypeOK
<1>3. calibration' \in Versions /\ licensed' \in BOOLEAN
  BY DEF Setup, CreateTemplate, TemplateCreated, DeployCalibration, UpdateLicense,
         instituteVars, TypeOK
<1>4. TypeOK'
  BY <1>1, <1>2, <1>3 DEF TypeOK
<1>5. Checked'
  BY <1>1, <1>2 DEF Checked
<1> QED
  BY <1>1, <1>4, <1>5 DEF StartedInOpenRun, OpenIsSettled, SessionsAgree

(* A request or event begins with a run, an event before its window opens.  *)
LEMMA BeginKeeps ==
    ASSUME SessionInv, NEW c \in Calls, NEW r \in Runs, NEW event \in BOOLEAN,
           Begin(c, r, event)
    PROVE  SessionInv'
<1> USE AssignmentsAssumption DEF SessionInv
<1> DEFINE work == [run |-> r, version |-> None, event |-> event]
<1>1. /\ pc[c] = "idle" /\ (event /\ r \notin moved => r \notin open)
      /\ pc' = [pc EXCEPT ![c] = "read"] /\ job' = [job EXCEPT ![c] = work]
      /\ run' = run /\ open' = open /\ session' = session /\ moved' = moved
      /\ initialized' = initialized /\ metered' = metered /\ template' = template
      /\ calibration' = calibration /\ licensed' = licensed
  BY DEF Begin, Goto, InFuture, meterVars, instituteVars
<1>2. /\ \A d \in Calls : pc'[d] = IF d = c THEN "read" ELSE pc[d]
      /\ \A d \in Calls : job'[d] = IF d = c THEN work ELSE job[d]
  BY <1>1 DEF TypeOK
<1>3. TypeOK'
  BY <1>1 DEF TypeOK
<1>4. Checked'
  BY <1>1, <1>2 DEF Checked
<1>5. OpenIsSettled'
  BY <1>1, <1>2 DEF OpenIsSettled
<1> QED
  BY <1>1, <1>3, <1>4, <1>5 DEF StartedInOpenRun, SessionsAgree

(* It goes on with the version it reads.                                    *)
LEMMA ReadKeeps ==
    ASSUME SessionInv, NEW c \in Calls, Read(c)
    PROVE  SessionInv'
<1> USE AssignmentsAssumption DEF SessionInv
<1>1. /\ pc[c] = "read" /\ template # None
      /\ pc' = [pc EXCEPT ![c] = "commit"]
      /\ job' = [job EXCEPT ![c].version = calibration]
      /\ run' = run /\ open' = open /\ session' = session /\ moved' = moved
      /\ initialized' = initialized /\ metered' = metered /\ template' = template
      /\ calibration' = calibration /\ licensed' = licensed
  BY DEF Read, Goto, meterVars, instituteVars
<1>2. /\ \A d \in Calls : pc'[d] = IF d = c THEN "commit" ELSE pc[d]
      /\ \A d \in Calls : d # c => job'[d] = job[d]
      /\ job'[c].run = job[c].run /\ job'[c].event = job[c].event
      /\ job'[c].version = calibration
  BY <1>1 DEF TypeOK
<1>3. TypeOK'
  BY <1>1 DEF TypeOK
<1>4. Checked'
  BY <1>1, <1>2 DEF Checked, TypeOK
<1>5. OpenIsSettled'
  BY <1>1, <1>2 DEF OpenIsSettled
<1> QED
  BY <1>1, <1>3, <1>4, <1>5 DEF StartedInOpenRun, SessionsAgree

(* The transaction writes the run. Either no session is in it, or it is one  *)
(* of those the history variable names.                                     *)
LEMMA CommitKeeps ==
    ASSUME SessionInv, NEW c \in Calls, Commit(c)
    PROVE  SessionInv'
<1> USE AssignmentsAssumption DEF SessionInv
<1> DEFINE r == job[c].run
<1>1. /\ pc[c] = "commit"
      /\ run' = [run EXCEPT ![r] = job[c].version]
      /\ template' = [template EXCEPT !.status = "assigned"]
      /\ moved' = IF ~job[c].event /\ run[r] # None THEN moved \cup {r} ELSE moved
      /\ open' \in IF r \in moved' THEN {open, open \ {r}} ELSE {open}
      /\ pc' = [pc EXCEPT ![c] = IF job[c].event THEN "analytics" ELSE "done"]
      /\ calibration' = calibration /\ licensed' = licensed /\ session' = session
      /\ initialized' = initialized /\ metered' = metered /\ job' = job
  BY DEF Commit, Goto, meterVars, instituteVars
<1>2. r \in Runs /\ job[c].version \in Versions /\ template \in Template
  BY <1>1 DEF Checked
<1>3. template' \in Template
  BY <1>1, <1>2 DEF Template
<1>4. /\ \A q \in Runs : run'[q] = IF q = r THEN job[c].version ELSE run[q]
      /\ run'[r] # None
      /\ \A d \in Calls : pc'[d] \in {"read", "commit"} =>
           d # c /\ pc[d] \in {"read", "commit"}
      /\ \A d \in Calls : d # c => pc'[d] = pc[d]
      /\ moved \subseteq moved' /\ moved' \subseteq moved \cup {r}
      /\ open' \subseteq open /\ open \ {r} \subseteq open'
      /\ r \in open \ open' => r \in moved'
  BY <1>1, <1>2 DEF TypeOK
<1>5. TypeOK'
  <2>1. pc' \in [Calls -> {"idle", "read", "commit", "analytics", "meter", "done"}]
    BY <1>1 DEF TypeOK
  <2>2. run' \in [Runs -> Versions \cup {None}]
    BY <1>1, <1>2 DEF TypeOK
  <2>3. open' \in SUBSET Runs /\ moved' \in SUBSET Runs
    BY <1>2, <1>4 DEF TypeOK
  <2> QED
    BY <1>1, <1>3, <2>1, <2>2, <2>3 DEF TypeOK
<1>6. Checked'
  BY <1>1, <1>2, <1>3, <1>4 DEF Checked, TypeOK
<1>7. StartedInOpenRun'
  BY <1>1, <1>4 DEF StartedInOpenRun
<1>8. OpenIsSettled'
  BY <1>1, <1>4 DEF OpenIsSettled
<1>9. SessionsAgree'
  <2> SUFFICES ASSUME NEW s \in Sessions, session[s] # None, RunOf[s] \notin moved'
               PROVE  session[s] = run'[RunOf[s]]
    BY <1>1 DEF SessionsAgree
  <2>1. RunOf[s] \in Runs /\ RunOf[s] \notin moved
    BY <1>4
  <2>2. run[RunOf[s]] # None /\ RunOf[s] \in open
    BY <2>1 DEF StartedInOpenRun
  <2>3. RunOf[s] # r
    BY <1>1, <2>1, <2>2 DEF OpenIsSettled
  <2> QED
    BY <1>4, <2>1, <2>3 DEF SessionsAgree
<1> QED
  BY <1>5, <1>6, <1>7, <1>8, <1>9

(* What an event does after its commit, and calls that fail.                *)
LEMMA CallEnds ==
    ASSUME SessionInv, NEW c \in Calls,
           InitializeRunAnalytics(c) \/ RecordAssignmentUsage(c) \/ CallFails(c)
    PROVE  SessionInv'
<1> USE AssignmentsAssumption DEF SessionInv
<1>1. /\ pc[c] \in {"read", "commit", "analytics", "meter"}
      /\ pc' = [pc EXCEPT ![c] = "meter"] \/ pc' = [pc EXCEPT ![c] = "done"]
      /\ pc[c] \in {"read", "commit"} => pc' = [pc EXCEPT ![c] = "done"]
      /\ template' = template /\ calibration' = calibration /\ licensed' = licensed
      /\ run' = run /\ open' = open /\ session' = session /\ moved' = moved
      /\ job' = job
  BY DEF InitializeRunAnalytics, RecordAssignmentUsage, CallFails, Goto, meterVars,
         instituteVars
<1>2. job[c].run \in Runs
  BY <1>1 DEF Checked
<1>3. initialized' \in SUBSET Runs /\ metered' \in SUBSET Runs
  BY <1>2 DEF InitializeRunAnalytics, RecordAssignmentUsage, CallFails, meterVars, TypeOK
<1>4. TypeOK'
  BY <1>1, <1>3 DEF TypeOK
<1>5. \A d \in Calls : d = c \/ pc'[d] = pc[d]
  BY <1>1 DEF TypeOK
<1>6. pc'[c] \in {"meter", "done"} /\ (pc[c] \in {"read", "commit"} => pc'[c] = "done")
  BY <1>1 DEF TypeOK
<1>7. Checked'
  BY <1>1, <1>5, <1>6 DEF Checked
<1>8. OpenIsSettled'
  BY <1>1, <1>5, <1>6 DEF OpenIsSettled
<1> QED
  BY <1>1, <1>4, <1>7, <1>8 DEF StartedInOpenRun, SessionsAgree

(* The windows open, and sessions start.                                    *)
LEMMA ExamKeeps == SessionInv /\ Exam => SessionInv'
<1> SUFFICES ASSUME SessionInv, Exam PROVE SessionInv'
  OBVIOUS
<1> USE AssignmentsAssumption DEF SessionInv
<1>1. /\ template' = template /\ calibration' = calibration /\ licensed' = licensed
      /\ run' = run /\ pc' = pc /\ job' = job
      /\ initialized' = initialized /\ metered' = metered
  BY DEF Exam, OpenWindow, StartSession, meterVars, callVars,
         instituteVars
<1>2. Checked'
  BY <1>1 DEF Checked
<1>3. ASSUME NEW r \in Runs, OpenWindow(r) PROVE SessionInv'
  <2>1. /\ session' = session /\ open' = open \cup {r} /\ r \notin open
        /\ moved' = IF UnderWay(r) THEN moved \cup {r} ELSE moved
    BY <1>3 DEF OpenWindow
  <2>2. TypeOK'
    BY <1>1, <2>1 DEF TypeOK
  <2>3. OpenIsSettled'
    BY <1>1, <2>1 DEF OpenIsSettled, UnderWay
  <2> QED
    BY <1>1, <1>2, <2>1, <2>2, <2>3 DEF StartedInOpenRun, SessionsAgree
<1>4. ASSUME NEW s \in Sessions, StartSession(s) PROVE SessionInv'
  <2>1. /\ open' = open /\ moved' = moved
        /\ session' = [session EXCEPT ![s] = run[RunOf[s]]]
        /\ RunOf[s] \in open /\ run[RunOf[s]] # None
    BY <1>4 DEF StartSession
  <2>2. run[RunOf[s]] \in Versions
    BY <2>1 DEF TypeOK
  <2>3. \A t \in Sessions : session'[t] = IF t = s THEN run[RunOf[s]] ELSE session[t]
    BY <2>1 DEF TypeOK
  <2>4. TypeOK'
    BY <1>1, <2>1, <2>2 DEF TypeOK
  <2>5. StartedInOpenRun' /\ OpenIsSettled'
    BY <1>1, <2>1, <2>3 DEF StartedInOpenRun, OpenIsSettled
  <2>6. SessionsAgree'
    BY <1>1, <2>1, <2>3 DEF SessionsAgree
  <2> QED
    BY <1>2, <2>4, <2>5, <2>6
<1> QED
  BY <1>3, <1>4 DEF Exam

(* Every step keeps the invariant of the runs and their sessions.          *)
LEMMA SessionStep == SessionInv /\ [Next]_vars => SessionInv'
<1> SUFFICES ASSUME SessionInv, [Next]_vars PROVE SessionInv'
  OBVIOUS
<1>1. CASE Setup
  BY <1>1, SetupKeeps
<1>2. ASSUME NEW c \in Calls, Call(c) PROVE SessionInv'
  <2>1. ASSUME NEW r \in Runs, CreateRun(c, r) \/ RunCreated(c, r) PROVE SessionInv'
    BY <2>1, BeginKeeps DEF CreateRun, RunCreated
  <2> QED
    BY <1>2, <2>1, ReadKeeps, CommitKeeps, CallEnds DEF Call
<1>3. CASE Exam
  BY <1>3, ExamKeeps
<1>4. CASE UNCHANGED vars
  BY <1>4 DEF vars, instituteVars, meterVars, callVars, SessionInv, TypeOK, Checked,
              StartedInOpenRun, OpenIsSettled, SessionsAgree
<1> QED
  BY <1>1, <1>2, <1>3, <1>4 DEF Next

(* The inductive invariant of the calibration properties.                   *)
THEOREM SessionInvariant == Spec => []SessionInv
  BY SessionInit, SessionStep, PTL DEF Spec

(* Assignments is type correct, for any runs, sessions, versions and calls.  *)
THEOREM TypeCorrect == Spec => []TypeOK
<1>1. SessionInv => TypeOK
  BY DEF SessionInv
<1> QED
  BY <1>1, SessionInvariant, PTL

(* All sessions of a run work with its version, unless the run was created   *)
(* again or was being processed when its window opened.                     *)
THEOREM SessionsAgreeAlways == Spec => []SessionsAgree
<1>1. SessionInv => SessionsAgree
  BY DEF SessionInv
<1> QED
  BY <1>1, SessionInvariant, PTL
==============================================================================
