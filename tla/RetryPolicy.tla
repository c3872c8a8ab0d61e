----------------------------- MODULE RetryPolicy -----------------------------
(***************************************************************************)
(* What the retry queue promises about the sessions whose event is         *)
(* delivered once, with no documents, tasks, claims or sweeps in sight:    *)
(* the pipeline of a session is run by one execution at a time, again      *)
(* after every failure, until it succeeds or has failed Limit times, and   *)
(* then never again.                                                       *)
(***************************************************************************)
EXTENDS Naturals

CONSTANTS
  Sessions,
  Limit,   \* how often the pipeline of a session may be run
  Crashes  \* whether executions can be lost

VARIABLES
  stage, \* where each session is
  runs   \* how often its pipeline has been started

vars == <<stage, runs>>

Init ==
  /\ stage = [s \in Sessions |-> "submitted"]
  /\ runs = [s \in Sessions |-> 0]

Run(s) ==
  /\ stage[s] \in {"submitted", "queued"}
  /\ runs[s] < Limit
  /\ stage' = [stage EXCEPT ![s] = "running"]
  /\ runs' = [runs EXCEPT ![s] = @ + 1]

Finish(s) ==
  /\ stage[s] = "running"
  /\ stage' = [stage EXCEPT ![s] = "done"]
  /\ UNCHANGED runs

FailRun(s) ==
  /\ stage[s] = "running"
  /\ stage' = [stage EXCEPT ![s] = IF runs[s] < Limit THEN "queued" ELSE "dead"]
  /\ UNCHANGED runs

\* A session whose execution is lost is never taken up again.
Lose(s) ==
  /\ Crashes
  /\ stage[s] = "running"
  /\ stage' = [stage EXCEPT ![s] = "lost"]
  /\ UNCHANGED runs

Next == \E s \in Sessions : Run(s) \/ Finish(s) \/ FailRun(s) \/ Lose(s)

Spec == Init /\ [][Next]_vars
=============================================================================
