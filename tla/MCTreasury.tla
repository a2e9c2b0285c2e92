----------------------------- MODULE MCTreasury -----------------------------
\* Instances of Treasury for TLC.
EXTENDS Treasury, TLC

CONSTANTS a1, a2, k1, k2, k3, r1, r2

MCRank == (a1 :> 1) @@ (a2 :> 2)
MCOpening == (a1 :> 2) @@ (a2 :> 0)

Interchangeable == Permutations(Key) \union Permutations(Request)

=============================================================================
