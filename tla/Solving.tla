------------------------------ MODULE Solving ------------------------------
(* From an auction to a score: the driver preprocesses the auction         *)
(* (AuctionProcessor), the solver proposes a trade, the driver takes the   *)
(* protocol fees out of it (Fulfillment) and scores what will be settled   *)
(* (Scoring). Solution::new and Solution::scoring of driver/src/domain/    *)
(* competition/solution/mod.rs, for solutions of one trade.                *)
EXTENDS AuctionProcessor

CONSTANTS
  ClearingPrice,  \* uniform clearing prices that solvers propose
  ProposedFee     \* fees that solvers propose

ASSUME ProposalAssumption ==
  ClearingPrice \subseteq [sell : Nat, buy : Nat] /\ ProposedFee \subseteq Nat

VARIABLE result   \* what the last handler computed, or NoResult

vars == <<apVars, result>>

NoResult == [order |-> <<>>]

\* The solver's answer is turned into a fulfillment; a limit order has a fee.
Proposals(o) ==
  UNION {Fulfill(o, executed, fee) :
           executed \in 0 .. target(o),
           fee \in IF solver_determines_fee(o) THEN {Dynamic(x) : x \in ProposedFee} ELSE {Static}}

\* FeeHandler::Driver: the driver applies the fees of user orders.
WithFees(f, prices) ==
  IF f.order.kind \in {"Market", "Limit"}
  THEN with_protocol_fees(f, prices) ELSE {f}

\* The trade as it is settled: `executed` includes the fee of a sell order.
SettledTrade(f, prices) ==
  {[sell |-> f.order.sell, buy |-> f.order.buy, side |-> f.order.side,
    executed |-> IF f.order.side = "Sell" THEN f.executed + f.fee.amount ELSE f.executed,
    custom_price |-> p, policies |-> f.order.protocol_fees] : p \in custom_prices(f, prices)}

\* The native price of the token an order's surplus is in, if the auction has one.
SurplusPrice(a, o) ==
  {Auction[a].prices[IF o.side = "Buy" THEN o.sell_token ELSE o.buy_token]} \ {0}

\* Only user orders contribute to the score.
scoring(a, f, prices) ==
  IF f.order.kind = "Liquidity" THEN {0}
  ELSE UNION {score(t, SurplusPrice(a, f.order)) : t \in SettledTrade(f, prices)}

\* The solver executes one of the orders it was given.
Solve(s, a) ==
  /\ Ready(s, a)
  /\ handler' = [handler EXCEPT ![s][a].phase = "ended"]
  /\ \E o \in Range(tasks[handler[s][a].task].orders), prices \in ClearingPrice :
       \E f \in Proposals(o) :
         LET settled == WithFees(f, prices)
         IN  result' = [order |-> o, prices |-> prices, proposed |-> f,
                        settled |-> settled,
                        score |-> UNION {scoring(a, g, prices) : g \in settled}]
  /\ tasks' = Release(tasks, handler', lock)
  /\ UNCHANGED <<published, lock, faults>>

\* The handler answers. From the solver's proposal on it reads nothing that is shared, so
\* nothing else need happen between Solve and Answer.
Answer == result' = NoResult /\ UNCHANGED apVars

Preprocessing ==
  \/ Publish
  \/ \E s \in Solver, a \in Id :
       RefuseAuction(s, a) \/ prioritize_orders(s, a) \/ GiveUp(s, a)
  \/ \E t \in DOMAIN tasks : RunTask(t)

Next ==
  \/ result = NoResult /\ Preprocessing /\ UNCHANGED result
  \/ result = NoResult /\ \E s \in Solver, a \in Id : Solve(s, a)
  \/ result # NoResult /\ Answer

SolveInit == Init /\ result = NoResult

Spec == SolveInit /\ [][Next]_vars

-----------------------------------------------------------------------------
(* Properties.                                                             *)

\* What solvers are offered of an account's balance.
Offered(orders, account) ==
  FoldLeft(LAMBDA sum, o : IF o.account = account THEN sum + available(o).sell ELSE sum, 0, orders)

\* What the driver offers to solvers of one account's orders never adds up to more
\* than the balance that the node reported, however often amounts are scaled and
\* rounded (filter_orders).
WithinBalance ==
  \A t \in DOMAIN tasks : \A account \in DOMAIN tasks[t].balances :
    Offered(tasks[t].orders, account) <= tasks[t].balances[account]

\* A request of an older auction came after a newer one.
OutOfOrder == \E i, j \in DOMAIN tasks : i < j /\ tasks[i].auction > tasks[j].auction

\* Every handler waits for a task of its own auction, and all solvers are given the
\* same orders of an auction unless an outdated request restarted it (prioritize_orders).
SameForAllSolvers ==
  \A a \in Id : \A s, z \in Solver :
    /\ handler[s][a].task # 0 => tasks[handler[s][a].task].auction = a
    /\ handler[s][a].task # 0 /\ handler[z][a].task # 0 /\ ~ OutOfOrder =>
         handler[s][a].task = handler[z][a].task

HasResult == result # NoResult
UserOrder == result.order.kind # "Liquidity"

\* A solution with a score takes no more from a user's wallet, all fees included, than
\* preprocessing set aside for the order.
PaidFromAllocation ==
  HasResult /\ UserOrder /\ result.score # {} =>
    \A f \in result.settled : \A paid \in sell_amount(f, result.prices) :
      paid <= available(result.order).sell

\* The surplus of the solver's own proposal, before protocol fees.
ProposedSurplus ==
  UNION {surplus_over_limit_price(t) : t \in SettledTrade(result.proposed, result.prices)}

\* Fees that are a part of surplus or of price improvement never push a trade that
\* keeps its limit price below it; only volume fees can, and then there is no score.
FeesKeepLimit ==
  HasResult /\ result.order.kind = "Limit"
  /\ ProposedSurplus # {}
  /\ (\A p \in Range(result.order.protocol_fees) : p.kind # "Volume") =>
    \E f \in result.settled : \E t \in SettledTrade(f, result.prices) :
      surplus_over_limit_price(t) # {}

\* Surplus and protocol fees in the surplus token, as the score adds them up.
Scored ==
  UNION {{s + fee : s \in surplus_over_limit_price(t), fee \in protocol_fees(t)} :
         t \in UNION {SettledTrade(f, result.prices) : f \in result.settled}}

\* The error of fees that are computed back when each policy brings `atoms`: undone in
\* reverse order, a policy enlarges what has come together by the share it had left.
Kept(policy) ==
  SCALE - Larger(policy.factor, IF policy.kind = "Volume" THEN 0 ELSE policy.max_volume_factor)
NextTolerance(atoms, policy, tolerance) == mul_ratio_ceil(tolerance + atoms, SCALE, Kept(policy))
Tolerance(atoms, policies) ==
  FoldRight(LAMBDA policy, tolerance : NextTolerance(atoms, policy, tolerance), policies, 0)

\* The most that fees are computed from: what the proposal of a sell order buys, or what
\* a buy order may pay for its execution.
ChargedAmount ==
  IF result.order.side = "Sell" THEN buy_amount(result.proposed, result.prices)
  ELSE CheckedDiv(result.order.sell * result.proposed.executed, result.order.buy)

\* Computing the fees back from the settled amounts gives the surplus that the solver
\* achieved, up to rounding. It is less because the fees are rounded, and the factors to
\* units of 1 / SCALE; it is more because fees were rounded when they were taken, those
\* of a sell order to atoms of the other token.
ScoreIsSurplus ==
  HasResult /\ result.order.kind = "Limit" =>
    LET policies == result.order.protocol_fees
        atom == IF result.order.side = "Sell"
                THEN mul_ratio_ceil(result.prices.sell, 1, result.prices.buy) ELSE 0
    IN  \A s \in Scored, base \in ProposedSurplus, amount \in ChargedAmount :
          /\ base <= s + Tolerance(1 + mul_ratio_ceil(amount, 1, SCALE), policies)
          /\ s <= base + Tolerance(1 + atom, policies)
=============================================================================
