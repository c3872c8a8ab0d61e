---------------------------- MODULE MCExamClient ----------------------------
(* Two questions.  A unit of the clock is the interval between two writes. *)
EXTENDS ExamClient

CONSTANTS q1, q2, A
=============================================================================
