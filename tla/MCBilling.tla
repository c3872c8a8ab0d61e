----------------------------- MODULE MCBilling -----------------------------
EXTENDS Billing, TLC

Symmetry == Permutations(Students) \cup Permutations(Tasks)
=============================================================================
