----------------------------- MODULE MCExamYear -----------------------------
(* Sessions of one student, in a first run and, s3, in a second.            *)
EXTENDS ExamYear, TLC

CONSTANTS r1, r2, s1, s2, s3, st1

SecondRun == [s \in Sessions |-> IF s = s3 THEN r2 ELSE r1]
OneStudent == [s \in Sessions |-> st1]
Symmetry == Permutations(Attempts) \cup Permutations(Sessions \ {s3})
=============================================================================
