---------------------------- MODULE MCSubmission ----------------------------
(* Submission on small instances: requests are interchangeable, and so are *)
(* the options a student selects.                                          *)
EXTENDS Submission, TLC

Interchangeable == Permutations(Requests) \cup Permutations(Options)
=============================================================================
