----------------------------- MODULE MCMRMaster -----------------------------
EXTENDS MRMaster, TLC

Symmetry == Permutations(Reliable) \cup Permutations(Workers \ Reliable)
=============================================================================
