-------------------------- MODULE MCFailureRecovery --------------------------
(* Small instances of FailureRecovery.                                     *)
EXTENDS FailureRecovery, TLC

CONSTANTS j1, j2
=============================================================================
