-------------------------- MODULE AuctionProcessor --------------------------
(* Preprocessing of auctions in the driver (driver/src/domain/competition/ *)
(* auction.rs). The /solve handlers of all solvers share one processor:    *)
(* the first request of an auction starts a task that adds the orders of   *)
(* CoW AMMs, sorts the orders, asks the node for balances and removes what *)
(* the owners cannot pay for; the others wait for the same task.           *)
EXTENDS Scoring, FiniteSets

CONSTANTS
  Solver,
  Account,        \* trader, sell token and source of the balance, in one
  Token,
  Interaction,    \* pre-interactions of orders
  NoInteraction,  \* no pre-interactions
  Auction,        \* the auctions by id: sequence of [orders, owners, prices]
  Amm,            \* the template orders of the registered CoW AMMs, a sequence
  Holdings,       \* what the chain can hold: functions of account and pre-interactions
  MaxFaults       \* bound on failing requests to the node

\* FeeFactor is in [0, 1).
Policy == [kind : {"Surplus", "PriceImprovement", "Volume"}, factor : 0 .. SCALE - 1,
           max_volume_factor : 0 .. SCALE - 1, quote : [sell : Nat, buy : Nat, fee : Nat]]

Order == [uid : STRING, account : Account, pre : Interaction, sell_token : Token, buy_token : Token,
          kind : {"Market", "Limit", "Liquidity"}, side : {"Buy", "Sell"}, sell : Nat, buy : Nat,
          partial : BOOLEAN, available : Nat, protocol_fees : Seq(Policy)]

\* A token without a price has price 0. The orders of AMMs have no fees.
ASSUME AuctionAssumption ==
  /\ Auction \in Seq([orders : Seq(Order), owners : SUBSET Account, prices : [Token -> Nat]])
  /\ Amm \in Seq(Order) /\ \A o \in Range(Amm) : o.kind = "Limit" /\ o.protocol_fees = <<>>

ASSUME HoldingsAssumption ==
  NoInteraction \in Interaction /\ Holdings \subseteq [Account -> [Interaction -> Nat]]

\* Auction::new refuses orders of amount zero.
ASSUME AmountAssumption ==
  \A a \in DOMAIN Auction : \A o \in Range(Auction[a].orders) : ~ is_zero(available(o))

VARIABLES
  published,      \* number of auctions the autopilot has sent out
  lock,           \* the shared auction id and task (0: the future that never ends)
  tasks,          \* every task started: auction, whether it ended, balances and orders
  handler,        \* the /solve handler of a solver for an auction
  faults

apVars == <<published, lock, tasks, handler, faults>>

Id == DOMAIN Auction

-----------------------------------------------------------------------------
(* Sorting.                                                                *)

Class(o) == CASE o.kind = "Market" -> 2 [] o.kind = "Limit" -> 1 [] o.kind = "Liquidity" -> 0

\* The price of a token, 0 if it has none, as numerator and denominator of the value
\* sold over the value bought.
likelihood(o, prices) ==
  LET sell == in_eth(o.sell, prices[o.sell_token])
      buy == in_eth(o.buy, prices[o.buy_token])
  IN  IF prices[o.sell_token] = 0 \/ prices[o.buy_token] = 0 \/ buy = 0
      THEN <<0, 1>> ELSE <<sell, buy>>

MoreLikely(o, p, prices) ==
  LET l == likelihood(o, prices)
      m == likelihood(p, prices)
  IN  l[1] * m[2] > m[1] * l[2]

Before(o, p, prices) ==
  \/ Class(o) > Class(p)
  \/ Class(o) = Class(p) /\ MoreLikely(o, p, prices)

\* A stable sort: the place of the i-th order is the number of orders that go first.
sort(orders, prices) ==
  LET goesFirst(j, i) == \/ Before(orders[j], orders[i], prices)
                         \/ j < i /\ ~ Before(orders[i], orders[j], prices)
      place == [i \in DOMAIN orders |-> Cardinality({j \in DOMAIN orders \ {i} : goesFirst(j, i)}) + 1]
  IN  [k \in DOMAIN orders |-> orders[CHOOSE i \in DOMAIN orders : place[i] = k]]

-----------------------------------------------------------------------------
(* Balances.                                                               *)

\* `group_by` makes a group of every run of neighbouring orders of one account.
Groups(orders) ==
  {g \in (DOMAIN orders) \X (DOMAIN orders) :
     /\ g[1] <= g[2]
     /\ \A i \in g[1] .. g[2] : orders[i].account = orders[g[1]].account
     /\ g[1] > 1 => orders[g[1] - 1].account # orders[g[1]].account
     /\ g[2] < Len(orders) => orders[g[2] + 1].account # orders[g[1]].account}

\* The pre-interactions of a group, if its orders agree on them.
GroupInteraction(orders, g) ==
  IF \A i \in g[1] .. g[2] : orders[i].pre = orders[g[1]].pre
  THEN orders[g[1]].pre ELSE NoInteraction

\* Requests for the groups in `failed` fail. Of two groups of one account the later
\* one remains in the map.
fetch_balances(orders, holdings, failed) ==
  LET answered(account) == {g \in Groups(orders) \ failed : orders[g[1]].account = account}
      last(account) == CHOOSE g \in answered(account) : \A h \in answered(account) : h[1] <= g[1]
  IN  [account \in {x \in {orders[i].account : i \in DOMAIN orders} : answered(x) # {}} |->
         holdings[account][GroupInteraction(orders, last(account))]]

\* The part of the remaining balance that an order gets: all of it or nothing, unless
\* the order can be filled partially.
Allocated(o, remaining) ==
  LET max_sell == available(o).sell
  IN  IF o.partial THEN Smaller(max_sell, remaining)
      ELSE IF max_sell <= remaining THEN max_sell ELSE 0

\* The order scaled down to what was allocated to it.
ScaleTo(o, allocated) ==
  IF o.partial THEN [o EXCEPT !.available = mul_ratio(@, allocated, available(o).sell)] ELSE o

\* Mutant of filter_order: a partially fillable order is not deducted.
filter_orderKeepBalance(acc, o) ==
  IF o.account \notin DOMAIN acc.balances THEN acc
  ELSE LET allocated == Allocated(o, acc.balances[o.account])
       IN  IF allocated = 0 \/ is_zero(available(ScaleTo(o, allocated))) THEN acc
           ELSE [balances |-> IF o.partial THEN acc.balances
                              ELSE [acc.balances EXCEPT ![o.account] = @ - allocated],
                 orders |-> Append(acc.orders, ScaleTo(o, allocated))]

filter_order(acc, o) ==
  IF o.account \notin DOMAIN acc.balances THEN acc
  ELSE LET allocated == Allocated(o, acc.balances[o.account])
       IN  IF allocated = 0 \/ is_zero(available(ScaleTo(o, allocated))) THEN acc
           ELSE [balances |-> [acc.balances EXCEPT ![o.account] = @ - allocated],
                 orders |-> Append(acc.orders, ScaleTo(o, allocated))]

filter_orders(balances, orders) ==
  FoldLeft(filter_order, [balances |-> balances, orders |-> <<>>], orders).orders

-----------------------------------------------------------------------------
(* CoW AMMs that the auction names and whose tokens have prices.           *)

EligibleAmms(a) ==
  {o \in Range(Amm) : /\ o.account \in a.owners
                      /\ a.prices[o.sell_token] > 0 /\ a.prices[o.buy_token] > 0}

\* Templates in `missing` cannot be had.
cow_amm_orders(a, missing) ==
  FoldLeft(LAMBDA kept, o : IF o \in EligibleAmms(a) \ missing THEN Append(kept, o) ELSE kept,
           <<>>, Amm)

-----------------------------------------------------------------------------
Init ==
  /\ published = 0
  /\ lock = [auction |-> 0, task |-> 0]
  /\ tasks = <<>>
  /\ handler = [s \in Solver |-> [a \in Id |-> [phase |-> "none", task |-> 0]]]
  /\ faults = 0

\* The autopilot sends the next auction to the solvers; requests arrive when they do.
Publish ==
  /\ published < Len(Auction)
  /\ published' = published + 1
  /\ UNCHANGED <<lock, tasks, handler, faults>>

\* The orders of a task are freed once neither the lock nor a handler shares it.
Shared(t, h, l) ==
  l.task = t \/ \E s \in Solver, a \in Id : h[s][a] = [phase |-> "waiting", task |-> t]

Release(ts, h, l) ==
  [t \in DOMAIN ts |-> IF Shared(t, h, l) THEN ts[t]
                                         ELSE [ts[t] EXCEPT !.balances = <<>>, !.orders = <<>>]]

Arrives(s, a) == a <= published /\ handler[s][a].phase = "none"

\* No answer for the gas price: the auction is refused.
RefuseAuction(s, a) ==
  /\ Arrives(s, a)
  /\ faults < MaxFaults
  /\ faults' = faults + 1
  /\ handler' = [handler EXCEPT ![s][a].phase = "ended"]
  /\ UNCHANGED <<published, lock, tasks>>

NewTask(a) == [auction |-> a, ended |-> FALSE, balances |-> <<>>, orders |-> <<>>]

\* Mutant of prioritize_orders: an outdated auction waits for the newer one's task.
prioritize_ordersJoinNewer(s, a) ==
  /\ Arrives(s, a)
  /\ \/ /\ lock.auction >= a
        /\ UNCHANGED <<lock, tasks>>
     \/ /\ lock.auction < a
        /\ lock' = [auction |-> a, task |-> Len(tasks) + 1]
        /\ tasks' = Release(Append(tasks, NewTask(a)), handler, lock')
  /\ handler' = [handler EXCEPT ![s][a] = [phase |-> "waiting", task |-> lock'.task]]
  /\ UNCHANGED <<published, faults>>

\* Under the lock: wait for the task of the same auction or start one. An outdated
\* auction is only reported.
prioritize_orders(s, a) ==
  /\ Arrives(s, a)
  /\ \/ /\ lock.auction = a
        /\ UNCHANGED <<lock, tasks>>
     \/ /\ lock.auction # a
        /\ lock' = [auction |-> a, task |-> Len(tasks) + 1]
        /\ tasks' = Release(Append(tasks, NewTask(a)), handler, lock')
  /\ handler' = [handler EXCEPT ![s][a] = [phase |-> "waiting", task |-> lock'.task]]
  /\ UNCHANGED <<published, faults>>

\* The task. Funds move on chain all the time: it sees what is there when it asks. An AMM
\* whose template cannot be had is left out, as is an account whose balance cannot be had.
RunTask(t) ==
  /\ ~ tasks[t].ended
  /\ \E missing \in SUBSET EligibleAmms(Auction[tasks[t].auction]) :
       LET a == Auction[tasks[t].auction]
           orders == sort(a.orders \o cow_amm_orders(a, missing), a.prices)
       IN \E failed \in SUBSET Groups(orders), holdings \in Holdings :
            LET balances == fetch_balances(orders, holdings, failed)
            IN  /\ faults + Cardinality(missing) + Cardinality(failed) <= MaxFaults
                /\ faults' = faults + Cardinality(missing) + Cardinality(failed)
                /\ tasks' = Release([tasks EXCEPT ![t].ended = TRUE, ![t].balances = balances,
                                                  ![t].orders = filter_orders(balances, orders)],
                                    handler, lock)
  /\ UNCHANGED <<published, lock, handler>>

\* The autopilot no longer waits for the answer; the task goes on.
GiveUp(s, a) ==
  /\ handler[s][a].phase = "waiting"
  /\ handler' = [handler EXCEPT ![s][a].phase = "ended"]
  /\ tasks' = Release(tasks, handler', lock)
  /\ UNCHANGED <<published, lock, faults>>

\* The handler has its prioritised auction.
Ready(s, a) == handler[s][a].phase = "waiting" /\ tasks[handler[s][a].task].ended
=============================================================================
