---------------------------- MODULE MCShopCache ----------------------------
EXTENDS ShopCache, TLC

Symmetry == Permutations(Servers)
=============================================================================
