---------------------------- MODULE MCNodeCache ----------------------------
(* Instances of NodeCache for TLC.                                          *)
EXTENDS NodeCache, TLC

Symmetry ==
    Permutations(Threads) \union Permutations(Ids) \union
    Permutations(PNodes) \union Permutations(VNodes)
=============================================================================
