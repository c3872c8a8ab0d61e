-------------------------- MODULE SessionLifecycle --------------------------
(***************************************************************************)
(* The lifecycle of one exam session document, as services/session.ts      *)
(* declares it: the statuses, the order its forward-only rule compares,    *)
(* the allowed transitions, and who may request them.  Pure definitions,   *)
(* shared by the modules that hold a session.                              *)
(***************************************************************************)
EXTENDS Naturals

\* The statuses a session document can hold.
Statuses ==
  {"created", "started", "active", "submitted", "expired", "terminated"}

\* The callers transitionSessionState accepts.
Actors == {"student", "backend", "system"}

\* ACTIVE_SESSION_STATUSES: a session in one of these occupies its student,
\* and is open to answer writes.
LiveStatuses == {"created", "started", "active"}

\* SESSION_STATUS_TRANSITION_ORDER.
Order == [created |-> 0, started |-> 1, active |-> 2,
          submitted |-> 3, expired |-> 4, terminated |-> 5]

\* ALLOWED_SESSION_STATUS_TRANSITIONS.
AllowedNext == [created    |-> {"started"},
                started    |-> {"active"},
                active     |-> {"submitted", "expired"},
                expired    |-> {"terminated"},
                submitted  |-> {},
                terminated |-> {}]

\* assertTransitionIsAllowed: the pair is in the table, only a student
\* activates a session and only the backend submits one.
TransitionAllowed(actor, from, to) ==
  /\ to \in AllowedNext[from]
  /\ to = "active" => actor = "student"
  /\ to = "submitted" => actor = "backend"
=============================================================================
