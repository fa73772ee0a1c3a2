------------------------------ MODULE RunLoop ------------------------------
(***************************************************************************)
(* The autopilot's auction loop (crates/autopilot/src/run_loop.rs) beside  *)
(* the tasks it shares the database with: the solvable orders cache, the   *)
(* settlement indexer and the attribution of settlements to auctions.      *)
(* Drivers are seen through their answers; the chain does not reorganise.  *)
(*                                                                         *)
(* An Option<T> is a set of T with at most one member.                     *)
(***************************************************************************)
EXTENDS Integers, FiniteSets

CONSTANTS
  Order,
  Partial,             \* partially fillable orders: open after a settlement
  Others,              \* {Foreign} if other deployments settle too, or {}
  SubmissionDeadline,  \* submission_deadline, in blocks
  MaxBlock,            \* bound: no new block from here on, unless awaited
  MaxAuction           \* bound: the last auction id

ASSUME PartialAssumption == Partial \subseteq Order
ASSUME OthersAssumption == Others \subseteq {0}
ASSUME DeadlineAssumption == SubmissionDeadline \in Nat
ASSUME BoundAssumption == MaxBlock \in Nat /\ MaxAuction \in Nat

VARIABLES
  block,         \* the chain: its current block
  mined,         \* the chain: settlements [auction, orders, block]
  pending,       \* mempools: settlements [auction, orders] not mined yet
  indexed,       \* database: events of blocks up to here are stored
  attributed,    \* database: auction ids of settlements
  competitions,  \* database: auction ids with a saved competition
  jit_owners,    \* database: auction ids with saved JIT order owners
  snapshot,      \* SolvableOrdersCache::update: orders read, not published
  cache,         \* SolvableOrdersCache: the current auction
  pc,            \* the run loop
  id,            \* the last auction id given out
  auction,       \* the auction of this iteration
  last_auction, last_block,
  in_flight,     \* in_flight_orders, with the block of tx_hash
  solution,      \* orders of the winning solution
  deadline,      \* the block until which a settlement is awaited
  answered       \* the driver has reported success

chain == <<block, mined, pending>>
database == <<indexed, attributed, competitions, jit_owners>>
loop == <<pc, id, auction, last_auction, last_block, in_flight, solution, deadline,
          answered>>
vars == <<block, mined, pending, indexed, attributed, competitions, jit_owners, snapshot,
          cache, pc, id, auction, last_auction, last_block, in_flight, solution,
          deadline, answered>>

Foreign == 0   \* not an auction id of this autopilot

Auctions == [orders : SUBSET Order, block : Nat, latest : Nat]
Settlements == [auction : Nat, orders : SUBSET Order, block : Nat]

Init ==
  /\ block = 1 /\ mined = {} /\ pending = {}
  /\ indexed = 0 /\ attributed = {} /\ competitions = {} /\ jit_owners = {}
  /\ snapshot = {} /\ cache = {}
  /\ pc = "idle" /\ id = 0
  /\ auction = {} /\ last_auction = {} /\ last_block = {} /\ in_flight = {}
  /\ solution = {} /\ deadline = 0 /\ answered = FALSE

----------------------------------------------------------------------------
(* The chain and the tasks that follow it.                                 *)

Awaited == pc \in {"wait", "query"} /\ block <= deadline

\* The settlement contract refuses to fill an order beyond its amount.
Fits(S) ==
  \A p \in S : \A o \in p.orders \ Partial :
    /\ \A m \in mined : o \notin m.orders
    /\ \A q \in S : o \in q.orders => q = p

NewBlock(S, foreign) ==
  /\ block < MaxBlock \/ Awaited
  /\ Fits(S)
  /\ block' = block + 1
  /\ mined' = mined
       \cup {[auction |-> p.auction, orders |-> p.orders, block |-> block + 1] : p \in S}
       \cup {[auction |-> Foreign, orders |-> {}, block |-> block + 1] : f \in foreign}
  /\ pending' = pending \ S
  /\ UNCHANGED <<database, snapshot, cache, loop>>

\* A transaction leaves the mempools: cancelled, replaced or reverted.
DropPending(p) ==
  /\ pending' = pending \ {p}
  /\ UNCHANGED <<block, mined, database, snapshot, cache, loop>>

\* Mutant of Index: one block further than the chain.
IndexAhead ==
  /\ indexed < block
  /\ indexed' = block + 1
  /\ UNCHANGED <<chain, attributed, competitions, jit_owners, snapshot, cache, loop>>

\* The indexer catches up with the current block.
Index ==
  /\ indexed < block
  /\ indexed' = block
  /\ UNCHANGED <<chain, attributed, competitions, jit_owners, snapshot, cache, loop>>

Attribute(m) ==
  /\ m.block <= indexed
  /\ m.auction # Foreign
  /\ attributed' = attributed \cup {m.auction}
  /\ UNCHANGED <<chain, indexed, competitions, jit_owners, snapshot, cache, loop>>

----------------------------------------------------------------------------
(* SolvableOrdersCache::update                                             *)

OpenOrders ==
  {o \in Order : o \in Partial \/ \A m \in mined : m.block <= indexed => o \notin m.orders}

\* COALESCE(MAX(block_number), 0) of the settlements.
IsLatestSettlementBlock(b) ==
  /\ \A m \in mined : m.block <= indexed => m.block <= b
  /\ b = 0 \/ \E m \in mined : m.block <= indexed /\ m.block = b

\* Both queries of solvable_orders see one REPEATABLE READ snapshot.
ReadSolvableOrders ==
  /\ snapshot = {}
  /\ \E b \in 0 .. block :
       /\ IsLatestSettlementBlock(b)
       /\ snapshot' = {[orders |-> OpenOrders, block |-> block, latest |-> b]}
  /\ UNCHANGED <<chain, database, cache, loop>>

\* Mutant of PublishAuction: latest_settlement_block is not of the snapshot.
PublishAuctionLateBlock(orders) ==
  /\ \E s \in snapshot : \E b \in 0 .. block :
       /\ orders \subseteq s.orders
       /\ IsLatestSettlementBlock(b)
       /\ cache' = {[orders |-> orders, block |-> s.block, latest |-> b]}
  /\ snapshot' = {}
  /\ UNCHANGED <<chain, database, loop>>

\* The filters of update keep some of the orders.
PublishAuction(orders) ==
  /\ \E s \in snapshot :
       /\ orders \subseteq s.orders
       /\ cache' = {[s EXCEPT !.orders = orders]}
  /\ snapshot' = {}
  /\ UNCHANGED <<chain, database, loop>>

UpdateFails ==
  /\ snapshot # {}
  /\ snapshot' = {}
  /\ UNCHANGED <<chain, database, cache, loop>>

----------------------------------------------------------------------------
(* RunLoop::run_forever and single_run                                     *)

tasks == <<chain, snapshot, cache>>

\* The iteration is over; its locals are gone.
EndIteration ==
  /\ pc' = "idle"
  /\ auction' = {}
  /\ solution' = {}
  /\ deadline' = 0
  /\ answered' = FALSE

\* Mutant of NextAuction: the id of a run that was given up is used again.
NextAuctionSameId ==
  /\ pc = "idle"
  /\ id < MaxAuction
  /\ cache # {}
  /\ id' = IF id \in competitions \/ id = 0 THEN id + 1 ELSE id
  /\ IF \E a \in cache : a.orders = {}
     THEN UNCHANGED <<pc, auction>>
     ELSE pc' = "decide" /\ auction' = cache
  /\ UNCHANGED <<tasks, database, last_auction, last_block, in_flight, solution,
                 deadline, answered>>

\* replace_current_auction gives every iteration a fresh id, but an empty
\* auction is skipped.
NextAuction ==
  /\ pc = "idle"
  /\ id < MaxAuction
  /\ cache # {}
  /\ id' = id + 1
  /\ IF \E a \in cache : a.orders = {}
     THEN UNCHANGED <<pc, auction>>
     ELSE pc' = "decide" /\ auction' = cache
  /\ UNCHANGED <<tasks, database, last_auction, last_block, in_flight, solution,
                 deadline, answered>>

\* found: the node finds the transaction of the previous settlement.
RemoveInFlightOrders(a, found) ==
  IF \E f \in in_flight : ~ found \/ a.latest < f.block
  THEN [a EXCEPT !.orders = {o \in a.orders : \A f \in in_flight : o \notin f.orders}]
  ELSE a

\* The auction differs, and then last_block is not even looked at; or the
\* auction is the last one, and then the block differs.
Decide(found) ==
  /\ pc = "decide"
  /\ last_auction' = auction
  /\ last_block' = IF last_auction # auction THEN last_block ELSE {block}
  /\ IF last_auction # auction \/ last_block # {block}
     THEN /\ pc' = "compete"
          /\ auction' = {RemoveInFlightOrders(a, found) : a \in auction}
          /\ UNCHANGED <<solution, deadline, answered>>
     ELSE EndIteration
  /\ UNCHANGED <<tasks, database, id, in_flight>>

\* competition: some driver solves the auction before the solve deadline and is
\* still an allowed solver; the best solution fills these orders.
Compete(orders) ==
  /\ pc = "compete"
  /\ orders # {}
  /\ \A a \in auction : orders \subseteq a.orders
  /\ pc' = "reveal"
  /\ solution' = orders
  /\ UNCHANGED <<tasks, database, id, auction, last_auction, last_block, in_flight,
                 deadline, answered>>

\* The winner reveals calldata that ends in the auction id.
Reveal ==
  /\ pc = "reveal"
  /\ pc' = "save"
  /\ UNCHANGED <<tasks, database, id, auction, last_auction, last_block, in_flight,
                 solution, deadline, answered>>

SaveCompetition ==
  /\ pc = "save"
  /\ competitions' = competitions \cup {id}
  /\ pc' = "save_jit"
  /\ UNCHANGED <<tasks, indexed, attributed, jit_owners, id, auction, last_auction,
                 last_block, in_flight, solution, deadline, answered>>

\* Storing the fee policies may fail without consequences.
SaveJitOwners ==
  /\ pc = "save_jit"
  /\ jit_owners' = jit_owners \cup {id}
  /\ pc' = "settle"
  /\ UNCHANGED <<tasks, indexed, attributed, competitions, id, auction, last_auction,
                 last_block, in_flight, solution, deadline, answered>>

\* Mutant of RunFails: a failed save is logged and the run goes on.
RunGoesOn ==
  /\ pc \in {"compete", "reveal", "save", "save_jit"}
  /\ IF pc = "save_jit"
     THEN pc' = "settle" /\ UNCHANGED <<auction, solution, deadline, answered>>
     ELSE EndIteration
  /\ UNCHANGED <<tasks, database, id, last_auction, last_block, in_flight>>

\* No solutions, a failed or mismatched reveal, or a failed save.
RunFails ==
  /\ pc \in {"compete", "reveal", "save", "save_jit"}
  /\ EndIteration
  /\ UNCHANGED <<tasks, database, id, last_auction, last_block, in_flight>>

----------------------------------------------------------------------------
(* RunLoop::settle and wait_for_settlement                                 *)

\* The driver, if it gets the request, puts the settlement into the mempools.
Settle(submitted) ==
  /\ pc = "settle"
  /\ pending' = pending \cup {[auction |-> id, orders |-> solution] : s \in submitted}
  /\ deadline' = block + SubmissionDeadline
  /\ pc' = "wait"
  /\ UNCHANGED <<block, mined, snapshot, cache, database, id, auction, last_auction,
                 last_block, in_flight, solution, answered>>

DriverSucceeds ==
  /\ pc \in {"wait", "query"}
  /\ \E m \in mined : m.auction = id
  /\ answered' = TRUE
  /\ UNCHANGED <<tasks, database, pc, id, auction, last_auction, last_block, in_flight,
                 solution, deadline>>

\* An error or a timeout of the request, whatever became of the transaction.
DriverFails ==
  /\ pc \in {"wait", "query"}
  /\ ~ answered
  /\ EndIteration
  /\ UNCHANGED <<tasks, database, id, last_auction, last_block, in_flight>>

\* Mutant of CheckDeadline: the wait has no deadline.
CheckNoDeadline ==
  /\ pc = "wait"
  /\ pc' = "query"
  /\ UNCHANGED <<auction, solution, deadline, answered>>
  /\ UNCHANGED <<tasks, database, id, last_auction, last_block, in_flight>>

CheckDeadline ==
  /\ pc = "wait"
  /\ IF block > deadline
     THEN EndIteration
     ELSE pc' = "query" /\ UNCHANGED <<auction, solution, deadline, answered>>
  /\ UNCHANGED <<tasks, database, id, last_auction, last_block, in_flight>>

\* find_tx_hash_by_auction_id finds the settlement.
FindSettlement(m) ==
  /\ pc = "query"
  /\ m.auction = id
  /\ id \in attributed
  /\ in_flight' = {[orders |-> solution, block |-> m.block]}
  /\ EndIteration
  /\ UNCHANGED <<tasks, database, id, last_auction, last_block>>

\* It does not, or the query fails: sleep and look again.
NotFound ==
  /\ pc = "query"
  /\ pc' = "wait"
  /\ UNCHANGED <<tasks, database, id, auction, last_auction, last_block, in_flight,
                 solution, deadline, answered>>

\* The process restarts; database and mempools stay.
Restart ==
  /\ snapshot' = {} /\ cache' = {}
  /\ last_auction' = {} /\ last_block' = {} /\ in_flight' = {}
  /\ EndIteration
  /\ UNCHANGED <<chain, database, id>>

----------------------------------------------------------------------------
Environment ==
  \/ \E S \in SUBSET pending, foreign \in SUBSET Others : NewBlock(S, foreign)
  \/ \E p \in pending : DropPending(p)
  \/ Index
  \/ \E m \in mined : Attribute(m)

OrdersCache ==
  \/ ReadSolvableOrders
  \/ \E orders \in SUBSET Order : PublishAuction(orders)
  \/ UpdateFails

Run ==
  \/ NextAuction
  \/ \E found \in BOOLEAN : Decide(found)
  \/ \E orders \in SUBSET Order : Compete(orders)
  \/ Reveal \/ SaveCompetition \/ SaveJitOwners \/ RunFails
  \/ \E submitted \in SUBSET {"yes"} : Settle(submitted)
  \/ CheckDeadline
  \/ \E m \in mined : FindSettlement(m)
  \/ NotFound

Next ==
  \/ Environment \/ OrdersCache \/ Run
  \/ DriverSucceeds \/ DriverFails
  \/ Restart

Spec == Init /\ [][Next]_vars

\* The chain goes on while a settlement is awaited.  The loop goes on because
\* every request it awaits has a timeout; drivers may never answer.
FairSpec ==
  /\ Spec
  /\ WF_vars(Awaited /\ NewBlock({}, {}))
  /\ WF_vars(Run)

----------------------------------------------------------------------------
(* Properties.                                                             *)

TypeOK ==
  /\ block \in Nat
  /\ mined \subseteq Settlements
  /\ pending \subseteq [auction : Nat, orders : SUBSET Order]
  /\ indexed \in Nat /\ indexed <= block
  /\ attributed \subseteq Nat /\ competitions \subseteq Nat /\ jit_owners \subseteq Nat
  /\ snapshot \subseteq Auctions /\ cache \subseteq Auctions
  /\ pc \in {"idle", "decide", "compete", "reveal", "save", "save_jit", "settle",
             "wait", "query"}
  /\ id \in Nat
  /\ auction \subseteq Auctions /\ last_auction \subseteq Auctions
  /\ last_block \subseteq Nat
  /\ in_flight \subseteq [orders : SUBSET Order, block : Nat]
  /\ solution \subseteq Order
  /\ deadline \in Nat
  /\ answered \in BOOLEAN

\* The loop is past remove_in_flight_orders.
Offering == pc \notin {"idle", "decide"}

\* "Removes orders that are currently being settled to avoid solvers trying to
\* fill an order a second time": the orders of the last settlement are not
\* offered again, unless partially fillable and with the amounts after it.  The
\* cache, the indexer and the loop run at their own pace.
LastSettledNotOffered ==
  Offering =>
    \A a \in auction, f \in in_flight : \A o \in a.orders \cap f.orders :
      o \in Partial /\ f.block <= a.latest

\* What the rewards of a settlement are computed from is in the database before
\* its transaction can be seen anywhere, whatever failed on the way.
SavedBeforeSettled ==
  \A s \in pending \cup {m \in mined : m.auction # Foreign} :
    s.auction \in competitions \cap jit_owners

\* The life of auction i, as its drivers, the chain and the database show it.
PhaseOf(i) ==
  IF \E m \in mined : m.auction = i THEN "executed"
  ELSE IF \E p \in pending : p.auction = i THEN "requested"
  ELSE IF i > id THEN "unused"
  ELSE IF i = id /\ pc \in {"decide", "compete", "reveal", "save", "save_jit"} THEN "open"
  ELSE IF i = id /\ pc = "settle" /\ id \in competitions \cap jit_owners THEN "recorded"
  ELSE "closed"

Phases == [i \in 1 .. MaxAuction |-> PhaseOf(i)]

Life == INSTANCE AuctionLife WITH phase <- Phases

\* The loop with its failures, restarts and late transactions keeps the promise of
\* AuctionLife: an auction is settled once, after it was recorded, or never.
ImplementsLife == Life!Spec

\* No driver can hold the loop up: every iteration ends, also when the winner
\* never answers the settle request and its transaction is never mined.
IterationEnds == pc # "idle" ~> pc = "idle"
============================================================================
