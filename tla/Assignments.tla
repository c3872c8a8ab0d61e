---------------------------- MODULE Assignments ----------------------------
(* A template of one institute, the runs it is assigned in and the sessions *)
(* of these, with the calibration version each of them works with. A run is *)
(* created by an API request; its creation event processes it once more,    *)
(* from what the documents say by then, and then creates the analytics      *)
(* document and meters the run. Vendor deployments change the calibration   *)
(* and license updates the layer at any time.                               *)

CONSTANTS
    Runs, Sessions,
    RunOf,          \* the run of each session
    Versions,       \* versions of the calibration
    Calls,          \* API requests and deliveries of events, each made at most once
    None

ASSUME AssignmentsAssumption ==
    /\ RunOf \in [Sessions -> Runs]
    /\ None \notin Versions \cup Runs

VARIABLES
    template,       \* tests: the status and the one it was created with, or None
    calibration,    \* the calibrationVersion of the institute
    licensed,       \* whether the layer and its features allow the runs' modes
    run,            \* runs: the calibrationVersion of each, or None
    open,           \* runs whose startWindow has come
    initialized,    \* runs with a runAnalytics document
    metered,        \* runs in the usage meter
    session,        \* sessions: the version each has started with, or None
    pc,             \* where each call is
    job,            \* its run, the version it has read and whether an event made it
    moved           \* runs created again, or whose window opened while they were
                    \* being processed (history variable)

meterVars == <<initialized, metered>>
instituteVars == <<calibration, licensed>>
callVars == <<pc, job>>
vars == <<template, instituteVars, run, open, meterVars, session, callVars, moved>>

Template == [status : {"draft", "ready", "assigned"}, initial : {"draft", "ready"}]
NoJob == [run |-> None, version |-> None, event |-> FALSE]

TypeOK ==
    /\ template \in Template \cup {None}
    /\ calibration \in Versions /\ licensed \in BOOLEAN
    /\ run \in [Runs -> Versions \cup {None}]
    /\ open \in SUBSET Runs
    /\ initialized \in SUBSET Runs /\ metered \in SUBSET Runs
    /\ session \in [Sessions -> Versions \cup {None}]
    /\ pc \in [Calls -> {"idle", "read", "commit", "analytics", "meter", "done"}]
    /\ job \in [Calls -> [run : Runs \cup {None}, version : Versions \cup {None},
                          event : BOOLEAN]]
    /\ moved \in SUBSET Runs

Init ==
    /\ template = None
    /\ calibration \in Versions /\ licensed \in BOOLEAN
    /\ run = [r \in Runs |-> None]
    /\ open = {} /\ initialized = {} /\ metered = {} /\ moved = {}
    /\ session = [s \in Sessions |-> None]
    /\ pc = [c \in Calls |-> "idle"]
    /\ job = [c \in Calls |-> NoJob]

----------------------------------------------------------------------------
(* The template and the institute. *)

CreateTemplate(status) ==
    /\ template = None
    /\ template' = [status |-> status, initial |-> status]
    /\ UNCHANGED <<instituteVars, run, open, meterVars, session, callVars, moved>>

(* The creation event of the template, in its own time and perhaps again,    *)
(* writes what the new document said. The snapshots, the fingerprint and    *)
(* the analytics it adds do not change; the run counter is left out.        *)
TemplateCreated ==
    /\ template # None
    /\ template' = [template EXCEPT !.status = template.initial]
    /\ UNCHANGED <<instituteVars, run, open, meterVars, session, callVars, moved>>

DeployCalibration(v) ==
    /\ calibration' = v
    /\ UNCHANGED <<template, licensed, run, open, meterVars, session, callVars, moved>>

UpdateLicense ==
    /\ licensed' = ~licensed
    /\ UNCHANGED <<template, calibration, run, open, meterVars, session, callVars, moved>>

----------------------------------------------------------------------------
(* Processing a run. *)

Goto(c, label) == pc' = [pc EXCEPT ![c] = label]

\* Mutant: a run may be scheduled, and processed, after its window has opened.
InFutureOrPast(r) == TRUE

InFuture(r) == r \notin open

(* processAssignmentCreated checks the window it is given: a request brings  *)
(* its own, an event that of the run as it was first written.               *)
Begin(c, r, event) ==
    /\ pc[c] = "idle"
    /\ event /\ r \notin moved => InFuture(r)
    /\ job' = [job EXCEPT ![c] = [run |-> r, version |-> None, event |-> event]]
    /\ Goto(c, "read")
    /\ UNCHANGED <<template, instituteVars, run, open, meterVars, session, moved>>

(* Then it reads the documents, all at one time.                            *)
Read(c) ==
    /\ pc[c] = "read"
    /\ template # None /\ template.status \in {"ready", "assigned"}
    /\ licensed
    /\ job' = [job EXCEPT ![c].version = calibration]
    /\ Goto(c, "commit")
    /\ UNCHANGED <<template, instituteVars, run, open, meterVars, session, moved>>

(* The API may take the identifier of the run from the request, which may be *)
(* that of a run it has created already: this is then written anew, window  *)
(* and all.                                                                 *)
CreateRun(c, r) == Begin(c, r, FALSE)
RunCreated(c, r) == run[r] # None /\ Begin(c, r, TRUE)

(* The transaction reads nothing: it writes what was read before.           *)
Commit(c) ==
    /\ pc[c] = "commit"
    /\ run' = [run EXCEPT ![job[c].run] = job[c].version]
    /\ template' = [template EXCEPT !.status = "assigned"]
    /\ moved' = IF ~job[c].event /\ run[job[c].run] # None
                THEN moved \cup {job[c].run} ELSE moved
    /\ open' \in IF job[c].run \in moved' THEN {open, open \ {job[c].run}} ELSE {open}
    /\ Goto(c, IF job[c].event THEN "analytics" ELSE "done")
    /\ UNCHANGED <<instituteVars, meterVars, session, job>>

InitializeRunAnalytics(c) ==
    /\ pc[c] = "analytics"
    /\ initialized' = initialized \cup {job[c].run}
    /\ Goto(c, "meter")
    /\ UNCHANGED <<template, instituteVars, run, open, metered, session, job, moved>>

RecordAssignmentUsage(c) ==
    /\ pc[c] = "meter"
    /\ metered' = metered \cup {job[c].run}
    /\ Goto(c, "done")
    /\ UNCHANGED <<template, instituteVars, run, open, initialized, session, job, moved>>

(* A document refuses, an operation fails or the instance dies; the event is *)
(* not retried.                                                             *)
CallFails(c) ==
    /\ pc[c] \in {"read", "commit", "analytics", "meter"}
    /\ Goto(c, "done")
    /\ UNCHANGED <<template, instituteVars, run, open, meterVars, session, job, moved>>

----------------------------------------------------------------------------
(* Running it. *)

UnderWay(r) == \E c \in Calls : pc[c] \in {"read", "commit"} /\ job[c].run = r

OpenWindow(r) ==
    /\ run[r] # None /\ r \notin open
    /\ open' = open \cup {r}
    /\ moved' = IF UnderWay(r) THEN moved \cup {r} ELSE moved
    /\ UNCHANGED <<template, instituteVars, run, meterVars, session, callVars>>

StartSession(s) ==
    /\ session[s] = None
    /\ RunOf[s] \in open /\ run[RunOf[s]] # None
    /\ session' = [session EXCEPT ![s] = run[RunOf[s]]]
    /\ UNCHANGED <<template, instituteVars, run, open, meterVars, callVars, moved>>

Setup == \/ \E status \in {"draft", "ready"} : CreateTemplate(status)
         \/ TemplateCreated \/ UpdateLicense
         \/ \E v \in Versions : DeployCalibration(v)
Call(c) == \/ \E r \in Runs : CreateRun(c, r) \/ RunCreated(c, r)
           \/ Read(c) \/ Commit(c) \/ InitializeRunAnalytics(c) \/ RecordAssignmentUsage(c)
           \/ CallFails(c)
Exam == \/ \E r \in Runs : OpenWindow(r)
        \/ \E s \in Sessions : StartSession(s)

Next == Setup \/ (\E c \in Calls : Call(c)) \/ Exam

Spec == Init /\ [][Next]_vars

----------------------------------------------------------------------------
(* All sessions of a run work with the version of the run: later events of   *)
(* its creation, which would write today's version, are refused once its    *)
(* window has opened. Only one under way at that moment may still replace   *)
(* it, or a request that creates the run anew.                              *)
SessionsAgree ==
    \A s \in Sessions : session[s] # None /\ RunOf[s] \notin moved =>
        session[s] = run[RunOf[s]]
=============================================================================
