------------------------------ MODULE MCRoster ------------------------------
EXTENDS Roster, TLC

MCEarlier == {None, [status |-> "active", deleted |-> FALSE]}
Symmetry == Permutations(Students) \cup Permutations(Uploads)
=============================================================================
