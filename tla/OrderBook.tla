----------------------------- MODULE OrderBook -----------------------------
(***************************************************************************)
(* Orders in the database and everybody who changes or reads them: the     *)
(* order book API (crates/orderbook/src/orderbook.rs) that validates,      *)
(* stores, replaces and cancels orders, the autopilot that cuts auctions   *)
(* from the open orders and logs what happens to them, and the indexer     *)
(* that mirrors the events of the settlement contract.                     *)
(*                                                                         *)
(* A block holds at most one event.  Indexing a block is one transaction,  *)
(* so the tables of events are seen as the indexed chain.  Of the log of   *)
(* an order only the latest label is kept.                                 *)
(***************************************************************************)
EXTENDS Integers, Sequences, FiniteSets, FiniteSetsExt

CONSTANTS
  Uid, User,
  Client,          \* requests the API serves at a time
  Books,           \* what the owners may sign: functions from uids to orders
  MinPeriod, MaxPeriod,  \* OrderValidPeriodConfiguration: min and max_limit
  MaxLimitOrders,  \* max_limit_orders_per_user
  MinOrderValidity,      \* min_order_validity_period of the autopilot
  MaxTime, MaxBlock, MaxTasks  \* bounds: the last tick, the chain, spawned tasks

Order == [owner : User, scheme : {"Ecdsa", "Eip1271", "PreSign"}, kind : {"Sell", "Buy"},
          sell : Nat \ {0}, buy : Nat \ {0}, partially_fillable : BOOLEAN, valid_to : Nat,
          replaces : SUBSET Uid,
          quote : [sell : Nat, buy : Nat, fee : Nat], additional_cost : Nat]

ASSUME BooksAssumption == Books \subseteq [Uid -> Order]
ASSUME ReplacesAssumption ==
  \A book \in Books, u \in Uid : u \notin book[u].replaces
                                  /\ Cardinality(book[u].replaces) \in {0, 1}
ASSUME PeriodAssumption ==
  {MinPeriod, MaxPeriod, MinOrderValidity, MaxLimitOrders, MaxTime, MaxBlock,
   MaxTasks} \subseteq Nat
ASSUME ClientAssumption == IsFiniteSet(Client) /\ Client # {} /\ IsFiniteSet(Uid)

VARIABLES
  data,          \* what every order says: signed data, app data and quote; never changes
  now,
  orders,        \* table orders
  cancelled,     \* orders with a cancellation_timestamp
  order_quotes,  \* orders with a row in order_quotes
  order_events,  \* the label of the latest order event, or "None"; "Auctioned" stands for
                 \* Ready, Filtered, Invalid, Considered and Executing
  events,        \* trades, invalidations, presignature_events: one per block
  processed,     \* blocks whose settlement got its auction
  request,       \* API: what every client's request does
  auction,       \* SolvableOrdersCache: the current auction
  tasks,         \* spawned tasks that insert order events: the orders of each
  asked,         \* history: orders whose cancellation was answered with success
  overtaken,     \* history: orders in use when cancelled, or traded later
  closed         \* history: orders the chain once filled or invalidated

tables == <<orders, cancelled, order_quotes>>
autopilot == <<auction, tasks>>
history == <<asked, overtaken, closed>>
vars == <<data, now, orders, cancelled, order_quotes, order_events, events, processed, request,
          auction, tasks, asked, overtaken, closed>>

Idle == [step |-> "idle", uids |-> {}, replaced |-> {}, quoted |-> {}]

Init ==
  /\ data \in Books
  /\ now = 0
  /\ orders = {} /\ cancelled = {} /\ order_quotes = {}
  /\ order_events = [u \in Uid |-> "None"]
  /\ events = <<>> /\ processed = {}
  /\ request = [c \in Client |-> Idle]
  /\ auction = {} /\ tasks = {}
  /\ asked = {} /\ overtaken = {} /\ closed = {}

----------------------------------------------------------------------------
(* Queries of crates/database/src/orders.rs and the status the API shows.  *)

BlocksOf(u, kinds) == {b \in DOMAIN events : events[b].uid = u /\ events[b].kind \in kinds}

\* sum_sell of a sell order, sum_buy of a buy order.
Executed(u) == SumFunctionOnSet([b \in DOMAIN events |-> events[b].amount],
                                BlocksOf(u, {"Trade"}))

Target(u) == IF data[u].kind = "Sell" THEN data[u].sell ELSE data[u].buy

InvalidatedOnChain(u) == BlocksOf(u, {"Invalidation"}) # {}

invalidated(u) == u \in cancelled \/ InvalidatedOnChain(u)

\* The latest presignature event decides.
presignature_pending(u) ==
  LET signatures == BlocksOf(u, {"Signed", "Unsigned"})
  IN  /\ data[u].scheme = "PreSign"
      /\ signatures = {} \/ events[Max(signatures)].kind = "Unsigned"

is_filled(u) == Executed(u) # 0 /\ Executed(u) = Target(u)

\* Mutant of calculate_status: a trade of any size fulfils the order.
StatusOnFirstTrade(u) ==
  IF Executed(u) # 0 THEN "Fulfilled"
  ELSE IF invalidated(u) THEN "Cancelled"
  ELSE IF data[u].valid_to < now THEN "Expired"
  ELSE IF presignature_pending(u) THEN "PresignaturePending" ELSE "Open"

\* The first condition that holds gives the status.  Fees are zero: orders with one
\* are rejected.
calculate_status(u) ==
  IF is_filled(u) THEN "Fulfilled"
  ELSE IF invalidated(u) THEN "Cancelled"
  ELSE IF data[u].valid_to < now THEN "Expired"
  ELSE IF presignature_pending(u) THEN "PresignaturePending" ELSE "Open"

\* The orders a query sees as open; presignatures are filtered later.
OPEN_ORDERS(min_valid_to) ==
  {u \in orders : /\ data[u].valid_to >= min_valid_to
                  /\ Executed(u) < Target(u)
                  /\ ~invalidated(u)}

\* Is the limit price of the order outside the market price of its quote?
is_order_outside_market_price(u, fee) ==
  LET o == data[u]
      q == data[u].quote
      cost == (fee * q.buy) \div q.sell
  IN  IF o.kind = "Buy"
      THEN o.sell * q.buy < (q.sell + fee) * o.buy
      ELSE q.sell = 0 \/ cost > q.buy \/ o.sell * (q.buy - cost) < q.sell * o.buy

\* The check at placement charges for hooks and signatures; the count does not.
OutsideWhenPlaced(u) ==
  is_order_outside_market_price(u, data[u].quote.fee + data[u].additional_cost)

OutsideWhenCounted(u) == is_order_outside_market_price(u, data[u].quote.fee)

\* LimitOrderCounting::count: open orders with a quote that they are outside of.
count(owner) ==
  Cardinality({u \in OPEN_ORDERS(now) \cap order_quotes :
                 /\ data[u].owner = owner
                 /\ OutsideWhenCounted(u)})

----------------------------------------------------------------------------
(* The API: a request reads, waits, and writes in one transaction.         *)

\* find_order_for_cancellation.
Cancellable(u) ==
  /\ u \in orders
  /\ calculate_status(u) = "Open"
  /\ data[u].scheme = "Ecdsa"

validate_period(u) ==
  /\ data[u].valid_to >= now + MinPeriod
  /\ data[u].scheme = "PreSign" \/ data[u].valid_to <= now + MaxPeriod

\* Mutant of check_max_limit_orders: one order too many.
CheckOffByOne(owner) == count(owner) <= MaxLimitOrders

check_max_limit_orders(owner) == count(owner) < MaxLimitOrders

\* add_order up to its write: the order to replace is looked up and the new one is
\* validated.  Without a price the order has no quote and is not counted.  Orders
\* are also rejected for errors of the node, bad signatures, tokens or balances.
AddOrder(c, u, quoted) ==
  /\ request[c].step = "idle"
  /\ \A old \in data[u].replaces : Cancellable(old)
  /\ validate_period(u)
  /\ quoted \subseteq {u}
  /\ u \in quoted /\ OutsideWhenPlaced(u) => check_max_limit_orders(data[u].owner)
  /\ request' = [request EXCEPT ![c] = [step |-> "insert", uids |-> {u},
                                        replaced |-> data[u].replaces, quoted |-> quoted]]
  /\ UNCHANGED <<data, now, tables, order_events, events, processed, autopilot, history>>

\* insert_order_event: a label is not repeated.
Log(label, uids) == [u \in Uid |-> IF u \in uids THEN label ELSE order_events[u]]

\* replace_order admits owners that sign themselves, and their own orders only.
ValidReplacement(c) ==
  \A u \in request[c].uids : \A old \in request[c].replaced :
     data[u].scheme = "Ecdsa" /\ data[u].owner = data[old].owner

\* Mutant of StoreOrder: the old order is cancelled although the insertion fails.
StoreNotAtomic(c, ok) ==
  LET stored == IF ok THEN request[c].uids \ orders ELSE {}
      admitted == ValidReplacement(c)
  IN  /\ request[c].step = "insert"
      /\ orders' = IF admitted THEN orders \cup stored ELSE orders
      /\ cancelled' = IF admitted THEN cancelled \cup request[c].replaced ELSE cancelled
      /\ UNCHANGED <<order_quotes, order_events>>
      /\ request' = [request EXCEPT ![c] = Idle]
      /\ UNCHANGED <<data, now, events, processed, autopilot, history>>

\* insert_order or replace_order: one transaction, which a duplicate or an error
\* rolls back.  The replaced order gets no event.
StoreOrder(c, ok) ==
  /\ request[c].step = "insert"
  /\ IF ok /\ ValidReplacement(c) /\ request[c].uids \cap orders = {}
     THEN /\ orders' = orders \cup request[c].uids
          /\ cancelled' = cancelled \cup request[c].replaced
          /\ order_quotes' = order_quotes \cup request[c].quoted
          /\ order_events' = Log("Created", request[c].uids)
     ELSE UNCHANGED <<tables, order_events>>
  /\ request' = [request EXCEPT ![c] = Idle]
  /\ UNCHANGED <<data, now, events, processed, autopilot, history>>

\* cancel_order and cancel_orders: every order is looked up and its owner checked.
FindOrders(c, uids) ==
  /\ request[c].step = "idle"
  /\ \A u \in uids : Cancellable(u)
  /\ \E signer \in User : \A u \in uids : data[u].owner = signer
  /\ request' = [request EXCEPT ![c] = [Idle EXCEPT !.step = "cancel", !.uids = uids]]
  /\ UNCHANGED <<data, now, tables, order_events, events, processed, autopilot, history>>

\* Orders in the auction, about to be logged, or traded.
InUse == auction \cup (UNION tasks) \cup {u \in Uid : BlocksOf(u, {"Trade"}) # {}}

\* The transaction that cancels them all; their status is not checked again.
CancelOrders(c) ==
  /\ request[c].step = "cancel"
  /\ cancelled' = cancelled \cup request[c].uids
  /\ order_events' = Log("Cancelled", request[c].uids)
  /\ asked' = asked \cup request[c].uids
  /\ overtaken' = overtaken \cup (request[c].uids \cap InUse)
  /\ request' = [request EXCEPT ![c] = Idle]
  /\ UNCHANGED <<data, now, orders, order_quotes, events, processed, autopilot, closed>>

----------------------------------------------------------------------------
(* The autopilot.  store_order_events spawns a task and goes on.           *)

\* Mutant of UpdateCache: cancellations through the API are not looked at.
UpdateCacheOnChain(kept) ==
  LET open == {u \in orders : /\ data[u].valid_to >= now + MinOrderValidity
                              /\ Executed(u) < Target(u) /\ ~InvalidatedOnChain(u)}
  IN  /\ kept \subseteq {u \in open : ~presignature_pending(u)}
      /\ kept # open => Cardinality(tasks) < MaxTasks
      /\ auction' = kept
      /\ tasks' = tasks \cup ({open \ kept} \ {{}})
      /\ UNCHANGED <<data, now, tables, order_events, events, processed, request, history>>

\* SolvableOrdersCache::update reads the open orders, filters them by signatures,
\* balances, tokens and prices, publishes the auction and logs the orders it filtered out.
\* What happens between the read and the publication can also happen after it.
UpdateCache(kept) ==
  LET open == OPEN_ORDERS(now + MinOrderValidity)
  IN  /\ kept \subseteq {u \in open : ~presignature_pending(u)}
      /\ kept # open => Cardinality(tasks) < MaxTasks
      /\ auction' = kept
      /\ tasks' = tasks \cup ({open \ kept} \ {{}})
      /\ UNCHANGED <<data, now, tables, order_events, events, processed, request, history>>

\* RunLoop logs the orders it sends out (all of them), those a solution considers
\* and those the winner is asked to execute.
LogAuction(uids) ==
  /\ Cardinality(tasks) < MaxTasks
  /\ uids # {} /\ uids \subseteq auction
  /\ tasks' = tasks \cup {uids}
  /\ UNCHANGED <<data, now, tables, order_events, events, processed, request, auction, history>>

\* A spawned task takes the time and inserts its events, or fails, which is logged.
StoreOrderEvents(uids, stored) ==
  /\ uids \in tasks
  /\ tasks' = tasks \ {uids}
  /\ order_events' = IF stored THEN Log("Auctioned", uids) ELSE order_events
  /\ UNCHANGED <<data, now, tables, events, processed, request, auction, history>>

\* update_settlement_details of the settlement in block b.
ProcessSettlement(b) ==
  /\ b \in DOMAIN events \ processed
  /\ events[b].kind = "Trade"
  /\ processed' = processed \cup {b}
  /\ order_events' = Log("Traded", {events[b].uid})
  /\ UNCHANGED <<data, now, tables, events, request, autopilot, history>>

----------------------------------------------------------------------------
(* The chain, as far as the indexer has seen it, and time.                 *)

\* A solver settles an order the book has shown; the contract checks it.
Trade(u, amount) ==
  /\ Len(events) < MaxBlock
  /\ u \in orders
  /\ ~InvalidatedOnChain(u) /\ ~presignature_pending(u)
  /\ data[u].valid_to >= now
  /\ amount \in 1 .. Target(u) - Executed(u)
  /\ data[u].partially_fillable \/ amount = Target(u)
  /\ events' = Append(events, [kind |-> "Trade", uid |-> u, amount |-> amount])
  /\ closed' = IF Executed(u) + amount = Target(u) THEN closed \cup {u} ELSE closed
  /\ overtaken' = overtaken \cup ({u} \cap asked)
  /\ UNCHANGED <<data, now, tables, order_events, processed, request, autopilot, asked>>

\* The owner of an order of the book invalidates it, gives or takes back a
\* presignature.
OwnerActs(u, kind) ==
  /\ Len(events) < MaxBlock
  /\ u \in orders
  /\ kind = "Invalidation" \/ data[u].scheme = "PreSign"
  /\ events' = Append(events, [kind |-> kind, uid |-> u, amount |-> 0])
  /\ closed' = IF kind = "Invalidation" THEN closed \cup {u} ELSE closed
  /\ UNCHANGED <<data, now, tables, order_events, processed, request, autopilot, asked,
                 overtaken>>

\* replace_events: the last block is reorganised away.
Reorg ==
  /\ events # <<>>
  /\ events' = SubSeq(events, 1, Len(events) - 1)
  /\ processed' = processed \ {Len(events)}
  /\ UNCHANGED <<data, now, tables, order_events, request, autopilot, history>>

Tick ==
  /\ now < MaxTime
  /\ now' = now + 1
  /\ UNCHANGED <<data, tables, order_events, events, processed, request, autopilot, history>>

Api(c) ==
  \/ \E u \in Uid : \E quoted \in SUBSET {u} : AddOrder(c, u, quoted)
  \/ \E ok \in BOOLEAN : StoreOrder(c, ok)
  \/ \E uids \in SUBSET Uid \ {{}} : FindOrders(c, uids)
  \/ CancelOrders(c)

Next ==
  \/ \E c \in Client : Api(c)
  \/ \E kept \in SUBSET Uid : UpdateCache(kept)
  \/ \E uids \in SUBSET Uid : LogAuction(uids)
  \/ \E uids \in tasks, stored \in BOOLEAN : StoreOrderEvents(uids, stored)
  \/ \E b \in 1..MaxBlock : ProcessSettlement(b)
  \/ \E u \in Uid : \E amount \in 1..Target(u) : Trade(u, amount)
  \/ \E u \in Uid, kind \in {"Invalidation", "Signed", "Unsigned"} : OwnerActs(u, kind)
  \/ Reorg
  \/ Tick

Spec == Init /\ [][Next]_vars

----------------------------------------------------------------------------
(* Properties.                                                             *)

\* The status the API computes (calculate_status) and the query the auctions are
\* cut from (OPEN_ORDERS) never disagree on whether an order is still open.
ApiAgreesWithAuctions ==
  \A u \in orders :
     u \in OPEN_ORDERS(now) <=> calculate_status(u) \in {"Open", "PresignaturePending"}

\* replace_order stores the new order if and only if it cancels the old one: with
\* the new order in the book the old one cannot be open, however its trades are
\* reorganised, and no order is cancelled without a request for it or a successor.
ReplacementIsAtomic ==
  /\ \A u \in orders : \A old \in data[u].replaces :
       calculate_status(old) \in {"Cancelled", "Fulfilled"}
  /\ \A old \in cancelled \ asked : \E u \in orders : old \in data[u].replaces

\* The limit of orders outside the market price is checked before the insertion,
\* so requests served at the same time exceed it, but by no more than their number.
LimitOrdersBounded ==
  \A owner \in User :
     Cardinality({u \in (OPEN_ORDERS(now) \cap order_quotes) \ closed :
                    data[u].owner = owner /\ OutsideWhenCounted(u)})
       < MaxLimitOrders + Cardinality(Client)

\* A cancelled order that no auction was using is reported as cancelled from then
\* on: no event of the autopilot follows the cancellation in its log.
CancelledIsReportedUnlessOvertaken ==
  \A u \in asked \ overtaken : order_events[u] = "Cancelled"
============================================================================
