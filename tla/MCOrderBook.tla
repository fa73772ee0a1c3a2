---------------------------- MODULE MCOrderBook ----------------------------
(* Instances of OrderBook for TLC.                                         *)
EXTENDS OrderBook, TLC

CONSTANTS alice, a, b, d, c1, c2

\* Outside the market price: 2 for 2, where the market gives 2 for 1.
Outside == [owner |-> alice, scheme |-> "Ecdsa", kind |-> "Sell", sell |-> 2, buy |-> 2,
            partially_fillable |-> FALSE, valid_to |-> 1, replaces |-> {},
            quote |-> [sell |-> 4, buy |-> 3, fee |-> 1], additional_cost |-> 0]

\* Valid for too long to be accepted.
TooLong == [Outside EXCEPT !.valid_to = 9]

\* Order b replaces order a.
Replacement == (a :> Outside) @@ (b :> [Outside EXCEPT !.replaces = {a}]) @@ (d :> TooLong)

\* Order a waits for a presignature and can be filled in parts.
Presigned == (a :> [Outside EXCEPT !.scheme = "PreSign", !.kind = "Buy",
                                   !.partially_fillable = TRUE,
                                   !.additional_cost = 1])
             @@ (b :> [Outside EXCEPT !.replaces = {a}]) @@ (d :> TooLong)

\* Three contracts' orders that only the limit of orders keeps apart.
Limited == [u \in {a, b, d} |-> [Outside EXCEPT !.scheme = "Eip1271", !.valid_to = 0]]

MCBooks == {Replacement, Presigned, Limited}

Symmetry == Permutations(Client)
============================================================================
