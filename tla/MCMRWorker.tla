----------------------------- MODULE MCMRWorker -----------------------------
EXTENDS MRWorker, TLC

Symmetry == Permutations(Reliable) \cup Permutations(Workers \ Reliable)
=============================================================================
