----------------------------- MODULE MCAccounts -----------------------------
EXTENDS Accounts, TLC

Symmetry == Permutations(Servers) \cup Permutations(Clients)
            \cup Permutations(Names) \cup Permutations(Planets)
=============================================================================
