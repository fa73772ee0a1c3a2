------------------------- MODULE MCRecentBlockCache -------------------------
(* An instance of RecentBlockCache for TLC.                                *)
EXTENDS RecentBlockCache, TLC

Symmetry == Permutations(Key) \cup Permutations(Client)
============================================================================
