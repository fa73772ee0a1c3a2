------------------------------ MODULE Scoring ------------------------------
(* The score of a solution (driver/src/domain/competition/solution/        *)
(* scoring.rs): the surplus of the trade that is settled plus the protocol *)
(* fees, which are computed back from the amounts that already contain     *)
(* them. Errors are empty sets, as in Fulfillment.                         *)
EXTENDS Fulfillment

CONSTANT BASE    \* 10^18: native prices are per BASE atoms of a token

ASSUME BaseAssumption == BASE \in Nat \ {0}

in_eth(amount, price) == (amount * price) \div BASE

-----------------------------------------------------------------------------
(* Trades as the settlement contract sees them: [sell, buy, side,          *)
(* executed, custom_price, policies]; `executed` includes fees.            *)

\* What the user may pay and pays for a buy order, or gets and has to get for a sell
\* order; limits are scaled to the executed part.
LimitAndTraded(t, limits) ==
  IF t.side = "Buy"
  THEN {<<limit_sell, sold>> :
          limit_sell \in CheckedDiv(limits.sell * t.executed, limits.buy),
          sold \in CheckedDiv(t.executed * t.custom_price.buy, t.custom_price.sell)}
  ELSE {<<bought, limit_buy>> :
          limit_buy \in checked_ceil_div(t.executed * limits.buy, limits.sell),
          bought \in checked_ceil_div(t.executed * t.custom_price.sell, t.custom_price.buy)}

\* A trade that violates the limits is an error.
surplus_over(t, limits) == UNION {checked_sub(x[1], x[2]) : x \in LimitAndTraded(t, limits)}

surplus_over_limit_price(t) == surplus_over(t, [sell |-> t.sell, buy |-> t.buy])

\* No improvement over the quote is not an error.
price_improvement(t, quote) ==
  UNION {{Larger(0, x[1] - x[2]) : x \in LimitAndTraded(t, limits)} :
         limits \in adjust_quote_to_order_limits(t, quote)}

\* factor / (1 - factor): the fee as a part of what is left after it was taken.
OfRemainder(factor) == (SCALE * factor) \div (SCALE - factor)
\* factor / (1 + factor): the fee as a part of what it was added to.
OfTotal(factor) == (SCALE * factor) \div (SCALE + factor)

\* Mutant of surplus_fee: the factor is applied to what is left as if it were the whole surplus.
surplus_feeOfWhole(surplus, factor) == apply_factor(surplus, factor)

surplus_fee(surplus, factor) == apply_factor(surplus, OfRemainder(factor))

volume_fee(t, factor) ==
  IF t.side = "Sell"
  THEN {apply_factor(v, OfRemainder(factor)) :
          v \in CheckedDiv(t.executed * t.custom_price.sell, t.custom_price.buy)}
  ELSE {apply_factor(v, OfTotal(factor)) :
          v \in CheckedDiv(t.executed * t.custom_price.buy, t.custom_price.sell)}

trade_protocol_fee(t, policy) ==
  IF policy.kind = "Volume" THEN volume_fee(t, policy.factor)
  ELSE {Smaller(surplus_fee(s, policy.factor), v) :
          s \in IF policy.kind = "Surplus" THEN surplus_over_limit_price(t)
                                           ELSE price_improvement(t, policy.quote),
          v \in volume_fee(t, policy.max_volume_factor)}

\* The prices of the trade before a fee was taken, over the traded amounts.
calculate_custom_prices(t, fee) ==
  IF t.side = "Sell"
  THEN {[sell |-> bought + fee, buy |-> t.executed] :
          bought \in checked_ceil_div(t.executed * t.custom_price.sell, t.custom_price.buy)}
  ELSE UNION {{[sell |-> t.executed, buy |-> b] : b \in checked_sub(sold, fee)} :
              sold \in CheckedDiv(t.executed * t.custom_price.buy, t.custom_price.sell)}

\* One policy undone: r holds the fees so far, the prices before them, and how many
\* policies are left. The prices before the first policy are not needed.
UndoPolicy(t, r, policy) ==
  UNION {IF r.left = 1
         THEN {[r EXCEPT !.amount = @ + fee, !.left = 0]}
         ELSE {[amount |-> r.amount + fee, left |-> r.left - 1, custom_price |-> p] :
                 p \in calculate_custom_prices(t, r.amount + fee)} :
         fee \in trade_protocol_fee([t EXCEPT !.custom_price = r.custom_price], policy)}

UndoNext(t, policy, results) == UNION {UndoPolicy(t, r, policy) : r \in results}

\* The last policy comes first: each one was applied to what those before it had left.
protocol_fees(t) ==
  LET none == [amount |-> 0, left |-> Len(t.policies), custom_price |-> t.custom_price]
  IN  {r.amount : r \in FoldRight(LAMBDA policy, results : UndoNext(t, policy, results),
                                  t.policies, {none})}

\* In native token; `prices` is the set of the surplus token's native price, if known.
native_surplus(t, prices) ==
  {in_eth(s, price) : s \in surplus_over_limit_price(t), price \in prices}

native_protocol_fee(t, prices) ==
  {in_eth(fee, price) : fee \in protocol_fees(t), price \in prices}

score(t, prices) ==
  {s + fee : s \in native_surplus(t, prices), fee \in native_protocol_fee(t, prices)}
=============================================================================
