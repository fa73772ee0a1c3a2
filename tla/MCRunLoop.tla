----------------------------- MODULE MCRunLoop -----------------------------
(* Instances of RunLoop for TLC.                                           *)
EXTENDS RunLoop, TLC

CONSTANTS o1, o2

OrderSymmetry == Permutations({o1, o2})

OneOrder == {o1}
TwoOrders == {o1, o2}
============================================================================
