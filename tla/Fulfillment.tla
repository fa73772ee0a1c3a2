---------------------------- MODULE Fulfillment ----------------------------
(* The amounts of a trade in the driver: what of an order is available to  *)
(* solvers, the execution a solver proposes and the protocol fees that the *)
(* driver takes out of it (driver/src/domain/competition/order/mod.rs and  *)
(* solution/trade.rs, solution/fee.rs). A computation that can fail        *)
(* returns the set of its results: {} is an error, {x} is Ok(x). Amounts   *)
(* are 256-bit numbers in the code; they stay far below overflow here.     *)
EXTENDS Integers, Sequences, SequencesExt

CONSTANT SCALE   \* 10^18: fee factors are integers in units of 1 / SCALE

ASSUME ScaleAssumption == SCALE \in Nat \ {0}

CheckedDiv(a, b) == IF b = 0 THEN {} ELSE {a \div b}
checked_ceil_div(a, b) == IF b = 0 THEN {} ELSE {(a + b - 1) \div b}
checked_sub(a, b) == IF a < b THEN {} ELSE {a - b}
Smaller(a, b) == IF a <= b THEN a ELSE b
Larger(a, b) == IF a <= b THEN b ELSE a

\* Callers take 0 if the ratio is undefined.
mul_ratio(x, q, d) == IF d = 0 THEN 0 ELSE (x * q) \div d
mul_ratio_ceil(x, q, d) == IF d = 0 THEN 0 ELSE (x * q + d - 1) \div d

apply_factor(amount, factor) == (amount * factor) \div SCALE

-----------------------------------------------------------------------------
(* Orders: [side, kind, sell, buy, partial, available, protocol_fees, ..]. *)
(* `available` counts in the target token and matters if `partial`.        *)

target(o) == IF o.side = "Buy" THEN o.buy ELSE o.sell

\* The amounts that are passed to the solver.
available(o) ==
  IF o.partial THEN [sell |-> mul_ratio(o.sell, o.available, target(o)),
                     buy |-> mul_ratio_ceil(o.buy, o.available, target(o))]
               ELSE [sell |-> o.sell, buy |-> o.buy]

is_zero(amounts) == amounts.sell = 0 \/ amounts.buy = 0

solver_determines_fee(o) == o.kind = "Limit"

-----------------------------------------------------------------------------
(* Fulfillments: [order, executed, fee] with fee.dynamic and fee.amount,   *)
(* where a static fee counts as 0. For sell orders `executed` excludes the *)
(* fee.                                                                    *)

Static == [dynamic |-> FALSE, amount |-> 0]
Dynamic(amount) == [dynamic |-> TRUE, amount |-> amount]

\* Mutant of valid_execution: the fee of a sell order is not counted.
valid_executionNoFee(o, executed, fee) ==
  IF o.partial THEN executed <= o.available ELSE executed = target(o)

valid_execution(o, executed, fee) ==
  LET executed_with_fee == IF o.side = "Sell" THEN executed + fee.amount ELSE executed
  IN  IF o.partial THEN executed_with_fee <= o.available ELSE executed_with_fee = target(o)

Fulfill(o, executed, fee) ==
  IF valid_execution(o, executed, fee) /\ fee.dynamic = solver_determines_fee(o)
  THEN {[order |-> o, executed |-> executed, fee |-> fee]}
  ELSE {}

\* What leaves the user's wallet, and what the user receives. A sell order's proceeds
\* are rounded up, as in the settlement contract.
sell_amount(f, prices) ==
  IF f.order.side = "Sell" THEN {f.executed + f.fee.amount}
  ELSE {sold + f.fee.amount : sold \in CheckedDiv(f.executed * prices.buy, prices.sell)}

buy_amount(f, prices) ==
  IF f.order.side = "Buy" THEN {f.executed}
                          ELSE checked_ceil_div(f.executed * prices.sell, prices.buy)

custom_prices(f, prices) ==
  {[sell |-> b, buy |-> s] : b \in buy_amount(f, prices), s \in sell_amount(f, prices)}

\* A trade below the reference price has no surplus: simulation catches it.
surplus_over_reference_price(f, limits, prices) ==
  IF ~ f.fee.dynamic THEN {}
  ELSE IF f.order.side = "Buy"
  THEN {Larger(0, limit_sell - sold) :
          limit_sell \in CheckedDiv(limits.sell * f.executed, limits.buy),
          sold \in sell_amount(f, prices)}
  ELSE {Larger(0, bought - limit_buy) :
          limit_buy \in checked_ceil_div(limits.buy * (f.executed + f.fee.amount), limits.sell),
          bought \in buy_amount(f, prices)}

-----------------------------------------------------------------------------
(* Protocol fees. A policy is [kind, factor, max_volume_factor, quote].    *)

\* Mutant of adjust_quote_to_order_limits: a quote that is worse than the limits is used.
adjust_quote_to_order_limitsWorse(o, quote) ==
  IF o.side = "Sell"
  THEN UNION {{[sell |-> o.sell, buy |-> scaled] :
                 scaled \in CheckedDiv(quote_buy * o.sell, quote.sell)} :
              quote_buy \in UNION {checked_sub(quote.buy, fee) :
                                     fee \in CheckedDiv(quote.fee * quote.buy, quote.sell)}}
  ELSE {[sell |-> scaled, buy |-> o.buy] :
          scaled \in CheckedDiv((quote.sell + quote.fee) * o.buy, quote.buy)}

\* The better of the order's limits and the quote's rate for the order's amounts.
adjust_quote_to_order_limits(o, quote) ==
  IF o.side = "Sell"
  THEN UNION {{[sell |-> o.sell, buy |-> Larger(o.buy, scaled)] :
                 scaled \in CheckedDiv(quote_buy * o.sell, quote.sell)} :
              quote_buy \in UNION {checked_sub(quote.buy, fee) :
                                     fee \in CheckedDiv(quote.fee * quote.buy, quote.sell)}}
  ELSE {[sell |-> Smaller(o.sell, scaled), buy |-> o.buy] :
          scaled \in CheckedDiv((quote.sell + quote.fee) * o.buy, quote.buy)}

PriceLimits(o, policy) ==
  IF policy.kind = "Surplus" THEN {[sell |-> o.sell, buy |-> o.buy]}
                             ELSE adjust_quote_to_order_limits(o, policy.quote)

fee_from_surplus(f, limits, prices, factor) ==
  {apply_factor(s, factor) : s \in surplus_over_reference_price(f, limits, prices)}

fee_from_volume(f, prices, factor) ==
  {apply_factor(v, factor) : v \in IF f.order.side = "Buy" THEN sell_amount(f, prices)
                                                            ELSE buy_amount(f, prices)}

calculate_fee(f, limits, prices, policy) ==
  {Smaller(s, v) : s \in fee_from_surplus(f, limits, prices, policy.factor),
                   v \in fee_from_volume(f, prices, policy.max_volume_factor)}

\* In the surplus token: the buy token of a sell order, the sell token of a buy order.
protocol_fee(f, prices, policy) ==
  IF policy.kind = "Volume" THEN fee_from_volume(f, prices, policy.factor)
  ELSE UNION {calculate_fee(f, limits, prices, policy) : limits \in PriceLimits(f.order, policy)}

protocol_fee_in_sell_token(f, prices, policy) ==
  LET fee == protocol_fee(f, prices, policy)
  IN  IF f.order.side = "Buy" THEN fee
      ELSE UNION {CheckedDiv(x * prices.buy, prices.sell) : x \in fee}

\* The fee is taken out of a sell order's execution and put on top of a buy order's.
with_protocol_fee(f, prices, policy) ==
  UNION {IF ~ f.fee.dynamic
         THEN IF x = 0 THEN Fulfill(f.order, f.executed, Static) ELSE {}
         ELSE IF f.order.side = "Buy"
         THEN Fulfill(f.order, f.executed, Dynamic(f.fee.amount + x))
         ELSE UNION {Fulfill(f.order, executed, Dynamic(f.fee.amount + x)) :
                       executed \in checked_sub(f.executed, x)} :
         x \in protocol_fee_in_sell_token(f, prices, policy)}

\* One policy applied to what the ones before have left, if anything.
NextPolicy(results, prices, policy) ==
  UNION {with_protocol_fee(f, prices, policy) : f \in results}

with_protocol_fees(f, prices) ==
  FoldLeft(LAMBDA results, policy : NextPolicy(results, prices, policy), {f}, f.order.protocol_fees)
=============================================================================
