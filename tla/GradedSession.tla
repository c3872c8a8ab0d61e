---------------------------- MODULE GradedSession ----------------------------
(***************************************************************************)
(* What the submission engine promises about one session, with no locks,   *)
(* requests or failures in sight: answers change while the session is      *)
(* open, it is graded at most once and then never again touched, and a     *)
(* caller who is told a grade is told that grade.                          *)
(***************************************************************************)
CONSTANTS Callers, Sheets, Ungraded

VARIABLES open, sheet, grade, told

vars == <<open, sheet, grade, told>>

Init ==
  /\ open = TRUE
  /\ sheet \in Sheets
  /\ grade = Ungraded
  /\ told = [c \in Callers |-> Ungraded]

\* The student's answers change.
Write == open /\ sheet' \in Sheets /\ UNCHANGED <<open, grade>>

\* The session closes and its answers, as they stand, become the grade.
Grade == open /\ open' = FALSE /\ grade' = sheet /\ UNCHANGED sheet

\* The session closes without a grade.
Close == open /\ open' = FALSE /\ UNCHANGED <<sheet, grade>>

\* Callers learn the grade, or nothing, at any step.
Tell == told' \in [Callers -> {Ungraded, grade'}]

Next == (Write \/ Grade \/ Close \/ UNCHANGED <<open, sheet, grade>>) /\ Tell

Spec == Init /\ [][Next]_vars
=============================================================================
