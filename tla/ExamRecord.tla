----------------------------- MODULE ExamRecord -----------------------------
(***************************************************************************)
(* What the exam page and the server promise together about the answers,   *)
(* with no queue, batches, requests or replies in sight: an answer given   *)
(* is held until it is recorded or a later one of its question is held,    *)
(* the record moves only forward and only to answers held, and it is final *)
(* once the exam is closed.                                                *)
(***************************************************************************)
EXTENDS Integers

CONSTANTS
  Questions,
  Answers,   \* what a student can answer: a question, an option, a time, and
             \* the time spent on the question since its last answer
  NoRecord   \* the record of a question that has no answer yet

VARIABLES
  open,  \* whether answers may still be recorded
  held,  \* the answers given that may still be recorded
  sheet  \* the record: per question the answer, its time and the time spent

vars == <<open, held, sheet>>

Init ==
  /\ open = TRUE
  /\ held = {}
  /\ sheet = [q \in Questions |-> NoRecord]

\* A question does not lose all its answers: once one of them is recorded the
\* others may go, and until then only those no newer than one held.
NoneLost ==
  \A w \in held \ held' :
    \/ sheet'[w.question] # NoRecord
    \/ \E v \in held' : v.question = w.question /\ v.at >= w.at

\* A new answer, or the newest one once more, takes the place of older ones.
Give(w) ==
  /\ \A v \in held : v.question = w.question => v.at < w.at \/ v = w
  /\ sheet[w.question].at <= w.at
  /\ w \in held' /\ held' \subseteq held \cup {w}
  /\ NoneLost
  /\ UNCHANGED <<open, sheet>>

\* What the record becomes when w is recorded.
With(w) ==
  [option |-> w.option, at |-> w.at, spent |-> sheet[w.question].spent + w.spent]

Store ==
  /\ open
  /\ sheet' = [q \in Questions |-> sheet'[q]]
  /\ \A q \in Questions :
       \/ sheet'[q] = sheet[q]
       \/ \E w \in held : /\ w.question = q /\ w.at > sheet[q].at
                          /\ sheet'[q] = With(w)
  /\ held' \subseteq held
  /\ NoneLost
  /\ UNCHANGED open

Drop ==
  /\ held' \subseteq held
  /\ NoneLost
  /\ UNCHANGED <<open, sheet>>

Close ==
  /\ open' = FALSE
  /\ UNCHANGED <<held, sheet>>

Next == Store \/ Drop \/ Close \/ \E w \in Answers : Give(w)

Spec == Init /\ [][Next]_vars
=============================================================================
