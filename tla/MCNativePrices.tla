--------------------------- MODULE MCNativePrices ---------------------------
(* An instance of NativePrices for TLC.                                    *)
EXTENDS NativePrices, TLC

CONSTANTS s1, s2

MCStages == <<{s1}, {s2}>>
Symmetry == Permutations(Token)
============================================================================
