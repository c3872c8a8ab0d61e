-------------------------- MODULE MCPostSubmission --------------------------
(* Two sessions of one run, by two students, that share a question.        *)
EXTENDS PostSubmission

CONSTANTS s1, s2, run, st1, st2, q1, q2

OneRun == [s \in {s1, s2} |-> run]
TwoStudents == [s \in {s1, s2} |-> IF s = s1 THEN st1 ELSE st2]
SharedQuestion == [s \in {s1, s2} |-> IF s = s1 THEN {q1, q2} ELSE {q1}]
=============================================================================
