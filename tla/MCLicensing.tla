---------------------------- MODULE MCLicensing ----------------------------
EXTENDS Licensing, TLC

Symmetry == Permutations(Deliveries)
=============================================================================
