--------------------------- MODULE MCAssignments ---------------------------
EXTENDS Assignments, TLC

CONSTANTS r1, r2, x, y, z
MCRunOf == x :> r1 @@ y :> r1 @@ z :> r2
Symmetry == Permutations(Versions) \cup Permutations(Calls) \cup Permutations({x, y})
=============================================================================
