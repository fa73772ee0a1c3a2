----------------------------- MODULE MCSolving -----------------------------
(* An instance of Solving for TLC.                                         *)
EXTENDS Solving, TLC

CONSTANTS s1, s2, alice, bob, carol, amm, permit

\* "usd" has no native price in the last auction.
Market(usd) == [eth |-> 2, dai |-> 3, usd |-> usd]

Limit(uid, account, side, sell, buy, fees) ==
  [uid |-> uid, account |-> account, pre |-> NoInteraction, kind |-> "Limit", side |-> side,
   sell |-> sell, buy |-> buy, partial |-> FALSE, available |-> 0, protocol_fees |-> fees,
   sell_token |-> "eth", buy_token |-> "dai"]

Partially(o, amount) == [o EXCEPT !.partial = TRUE, !.available = amount]

Quote == [sell |-> 9, buy |-> 5, fee |-> 1]
Surplus(f, m) == [kind |-> "Surplus", factor |-> f, max_volume_factor |-> m, quote |-> Quote]
Improvement(f, m) == [kind |-> "PriceImprovement", factor |-> f, max_volume_factor |-> m, quote |-> Quote]
Volume(f) == [kind |-> "Volume", factor |-> f, max_volume_factor |-> 0, quote |-> Quote]

\* Alice's orders compete for one balance; the second one brings a pre-interaction, and
\* the AMM's order comes between them in the sorted auction.
Rivals ==
  <<Partially(Limit("r1", alice, "Buy", 11, 7, <<Surplus(50, 90), Improvement(75, 50)>>), 5),
    [Partially(Limit("r2", alice, "Sell", 8, 3, <<Improvement(50, 90)>>), 8) EXCEPT !.pre = permit],
    [Limit("r3", bob, "Sell", 4, 2, <<>>) EXCEPT !.kind = "Market"]>>

\* Orders with several policies, and one without native price.
Charged ==
  <<Limit("c1", carol, "Sell", 90, 40, <<Surplus(75, 80), Volume(10)>>),
    Limit("c2", bob, "Buy", 10, 6, <<Volume(15), Surplus(25, 90)>>),
    [Limit("c3", bob, "Sell", 3, 2, <<>>) EXCEPT !.buy_token = "usd", !.kind = "Liquidity"]>>

MCAuction ==
  <<[orders |-> Rivals, owners |-> {amm}, prices |-> Market(1)],
    [orders |-> Charged, owners |-> {}, prices |-> Market(0)]>>

MCAmm == <<Limit("amm", amm, "Sell", 6, 3, <<>>)>>

MCHoldings ==
  {(carol :> [i \in {NoInteraction, permit} |-> 90])
     @@ [x \in {alice, bob, amm} |-> (NoInteraction :> n @@ permit :> n + 3)] : n \in {6, 11}}

Price(s, b) == [sell |-> s, buy |-> b]
MCClearingPrice == {Price(2, 3), Price(3, 1)}

Symmetry == Permutations({s1, s2})
============================================================================
