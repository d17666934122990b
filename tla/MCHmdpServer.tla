---------------------------- MODULE MCHmdpServer ----------------------------
EXTENDS HmdpServer, TLC

Symmetry == Permutations(Servers) \cup Permutations(Phones)
            \cup Permutations(Codes) \cup Permutations(Tokens)
=============================================================================
