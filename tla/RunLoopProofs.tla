--------------------------- MODULE RunLoopProofs ---------------------------
(* Proofs about RunLoop, for any orders, deadline and bounds.              *)
EXTENDS RunLoop, TLAPS

\* Settlements are mined in the past.
MinedBefore == \A m \in mined : m.block <= block

\* An auction holds no order that a settlement up to its latest_settlement_block
\* has filled: orders and block were read in one snapshot.
FreshAuction(a) ==
  /\ a.latest <= block
  /\ \A m \in mined : \A o \in a.orders \ Partial : o \in m.orders => a.latest < m.block
Fresh == \A a \in snapshot \cup cache \cup auction : FreshAuction(a)

\* in_flight_orders describes a mined settlement.
InFlightMined ==
  \A f \in in_flight : \E m \in mined : m.orders = f.orders /\ m.block = f.block

\* An auction id is used by one settlement: the one the loop has asked for.
Ids ==
  /\ pc # "idle" => id > 0
  /\ \A s \in pending \cup mined :
       /\ s.auction <= id
       /\ pc \notin {"idle", "wait", "query"} => s.auction < id
       /\ pc \in {"wait", "query"} /\ s.auction = id => s.orders = solution

\* What has been saved when the loop reaches the settle request.
Saved ==
  /\ pc = "save_jit" => id \in competitions
  /\ pc = "settle" => id \in competitions \cap jit_owners

\* The inductive invariant.
IInv ==
  /\ TypeOK
  /\ MinedBefore
  /\ Fresh
  /\ InFlightMined
  /\ Ids
  /\ Saved
  /\ LastSettledNotOffered
  /\ SavedBeforeSettled

LEMMA InitIInv == Init => IInv
<1> SUFFICES ASSUME Init PROVE IInv
  OBVIOUS
<1> USE DEF Init
<1>1. TypeOK
  <2>1. /\ mined \subseteq Settlements
        /\ pending \subseteq [auction : Nat, orders : SUBSET Order]
        /\ in_flight \subseteq [orders : SUBSET Order, block : Nat]
        /\ snapshot \subseteq Auctions /\ cache \subseteq Auctions
        /\ auction \subseteq Auctions /\ last_auction \subseteq Auctions
    BY Zenon
  <2>2. answered \in BOOLEAN
    BY Zenon
  <2>3. /\ attributed \subseteq Nat /\ competitions \subseteq Nat /\ jit_owners \subseteq Nat
        /\ last_block \subseteq Nat /\ solution \subseteq Order
    BY Zenon
  <2>4. /\ block \in Nat /\ indexed \in Nat /\ indexed <= block /\ id \in Nat
        /\ deadline \in Nat
    OBVIOUS
  <2>5. pc \in {"idle", "decide", "compete", "reveal", "save", "save_jit", "settle",
               "wait", "query"}
    OBVIOUS
  <2> HIDE DEF Init
  <2> QED
    BY <2>1, <2>2, <2>3, <2>4, <2>5 DEF TypeOK
<1>2. MinedBefore /\ Fresh /\ InFlightMined /\ Ids /\ Saved
  BY DEF MinedBefore, Fresh, InFlightMined, Ids, Saved
<1>3. LastSettledNotOffered /\ SavedBeforeSettled
  BY DEF LastSettledNotOffered, Offering, SavedBeforeSettled
<1> QED
  BY <1>1, <1>2, <1>3 DEF IInv

\* A new block: its settlements come after every snapshot and keep their ids.
LEMMA NewBlockIInv ==
  ASSUME IInv, NEW S \in SUBSET pending, NEW foreign \in SUBSET Others,
         NewBlock(S, foreign)
  PROVE  IInv'
<1> USE DEF NewBlock, database, loop
<1>1. block \in Nat /\ block' = block + 1
  BY DEF IInv, TypeOK
<1>2. \A m \in mined' : m \in mined \/
        /\ m.block = block + 1
        /\ m \in Settlements
        /\ (\E p \in S : m.auction = p.auction /\ m.orders = p.orders)
             \/ (m.auction = Foreign /\ m.orders = {})
  BY <1>1 DEF IInv, TypeOK, Settlements, Foreign
<1>3. TypeOK'
  <2>1. mined' \subseteq Settlements
    BY <1>2 DEF IInv, TypeOK
  <2> QED
    BY <1>1, <2>1 DEF IInv, TypeOK
<1>4. MinedBefore'
  BY <1>1, <1>2 DEF IInv, TypeOK, MinedBefore, Settlements
<1>5. Fresh'
  BY <1>1, <1>2 DEF IInv, TypeOK, Fresh, FreshAuction, Auctions
<1>6. InFlightMined'
  BY DEF IInv, InFlightMined
<1>7. Ids'
  <2>1. pc' # "idle" => id' > 0
    BY DEF IInv, Ids
  <2>2. ASSUME NEW s \in (pending \cup mined)'
        PROVE  /\ s.auction <= id'
               /\ pc' \notin {"idle", "wait", "query"} => s.auction < id'
               /\ pc' \in {"wait", "query"} /\ s.auction = id' => s.orders = solution'
    <3>1. CASE s \in pending \cup mined
      BY <3>1 DEF IInv, Ids
    <3>2. CASE \E p \in S : s.auction = p.auction /\ s.orders = p.orders
      BY <3>2 DEF IInv, Ids
    <3>3. CASE s.auction = Foreign
      BY <2>1, <3>3 DEF IInv, TypeOK, Foreign
    <3> QED
      BY <1>2, <2>2, <3>1, <3>2, <3>3
  <2> QED
    BY <2>1, <2>2 DEF Ids
<1>8. Saved'
  BY DEF IInv, Saved
<1>9. LastSettledNotOffered'
  BY DEF IInv, LastSettledNotOffered, Offering
<1>10. SavedBeforeSettled'
  BY <1>2 DEF IInv, SavedBeforeSettled, Foreign
<1> QED
  BY <1>3, <1>4, <1>5, <1>6, <1>7, <1>8, <1>9, <1>10 DEF IInv

\* The environment's other steps do not touch what the invariant relates.
LEMMA EnvironmentIInv ==
  ASSUME IInv,
         \/ \E p \in pending : DropPending(p)
         \/ Index
         \/ \E m \in mined : Attribute(m)
  PROVE  IInv'
<1> USE DEF loop
<1>1. /\ block' = block /\ mined' = mined /\ pending' \subseteq pending
      /\ indexed' \in Nat /\ indexed' <= block /\ attributed' \subseteq Nat
      /\ UNCHANGED <<competitions, jit_owners, snapshot, cache, loop>>
  <2> USE DEF chain, database, IInv, TypeOK
  <2>1. CASE \E p \in pending : DropPending(p)
    BY <2>1 DEF DropPending
  <2>2. CASE Index
    BY <2>2 DEF Index
  <2>3. ASSUME NEW m \in mined, Attribute(m)
        PROVE  attributed' \subseteq Nat /\ UNCHANGED <<chain, indexed, competitions,
                 jit_owners, snapshot, cache, loop>>
    BY <2>3 DEF Attribute, Settlements
  <2> QED
    BY <2>1, <2>2, <2>3
<1> USE <1>1
<1>2. TypeOK'
  BY DEF IInv, TypeOK
<1>3. MinedBefore' /\ InFlightMined' /\ Saved'
  BY DEF IInv, MinedBefore, InFlightMined, Saved
<1>4. Fresh'
  BY DEF IInv, Fresh, FreshAuction
<1>5. Ids'
  BY DEF IInv, Ids
<1>6. LastSettledNotOffered' /\ SavedBeforeSettled'
  BY DEF IInv, LastSettledNotOffered, Offering, SavedBeforeSettled
<1> QED
  BY <1>2, <1>3, <1>4, <1>5, <1>6 DEF IInv

\* The snapshot of solvable_orders: no order that a settlement up to the latest
\* indexed one has filled.
LEMMA ReadIInv ==
  ASSUME IInv, ReadSolvableOrders
  PROVE  IInv'
<1> USE DEF chain, database, loop
<1>1. PICK b \in 0 .. block :
        /\ IsLatestSettlementBlock(b)
        /\ snapshot' = {[orders |-> OpenOrders, block |-> block, latest |-> b]}
  BY DEF ReadSolvableOrders
<1>2. UNCHANGED <<chain, database, cache, loop>>
  BY DEF ReadSolvableOrders
<1>3. OpenOrders \subseteq Order
  BY DEF OpenOrders
<1>4. TypeOK'
  <2>1. snapshot' \subseteq Auctions
    BY <1>1, <1>3 DEF IInv, TypeOK, Auctions
  <2> QED
    BY <1>2, <2>1 DEF IInv, TypeOK
<1>5. Fresh'
  <2>1. ASSUME NEW m \in mined, NEW o \in OpenOrders \ Partial, o \in m.orders
        PROVE  b < m.block
    BY <1>1, <2>1 DEF OpenOrders, IsLatestSettlementBlock, IInv, TypeOK, Settlements
  <2>2. ASSUME NEW a \in snapshot' PROVE FreshAuction(a)'
    BY <1>1, <1>2, <2>1 DEF FreshAuction, IInv, TypeOK
  <2>3. ASSUME NEW a \in cache \cup auction PROVE FreshAuction(a)'
    BY <1>2 DEF FreshAuction, IInv, Fresh
  <2> QED
    BY <1>2, <2>2, <2>3 DEF Fresh
<1>6. MinedBefore' /\ InFlightMined' /\ Ids' /\ Saved'
  BY <1>2 DEF IInv, MinedBefore, InFlightMined, Ids, Saved
<1>7. LastSettledNotOffered' /\ SavedBeforeSettled'
  BY <1>2 DEF IInv, LastSettledNotOffered, Offering, SavedBeforeSettled
<1> QED
  BY <1>4, <1>5, <1>6, <1>7 DEF IInv

LEMMA PublishIInv ==
  ASSUME IInv, NEW orders \in SUBSET Order, PublishAuction(orders)
  PROVE  IInv'
<1> USE DEF chain, database, loop
<1>1. PICK s \in snapshot :
        /\ orders \subseteq s.orders
        /\ cache' = {[s EXCEPT !.orders = orders]}
  BY DEF PublishAuction
<1>2. snapshot' = {} /\ UNCHANGED <<chain, database, loop>>
  BY DEF PublishAuction
<1>3. TypeOK'
  BY <1>1, <1>2 DEF IInv, TypeOK, Auctions
<1>4. Fresh'
  <2>1. ASSUME NEW a \in cache' PROVE FreshAuction(a)'
    BY <1>1, <1>2 DEF FreshAuction, Fresh, IInv, TypeOK, Auctions
  <2>2. ASSUME NEW a \in auction PROVE FreshAuction(a)'
    BY <1>2 DEF FreshAuction, IInv, Fresh
  <2> QED
    BY <1>2, <2>1, <2>2 DEF Fresh
<1>5. MinedBefore' /\ InFlightMined' /\ Ids' /\ Saved'
  BY <1>2 DEF IInv, MinedBefore, InFlightMined, Ids, Saved
<1>6. LastSettledNotOffered' /\ SavedBeforeSettled'
  BY <1>2 DEF IInv, LastSettledNotOffered, Offering, SavedBeforeSettled
<1> QED
  BY <1>3, <1>4, <1>5, <1>6 DEF IInv

\* Steps that end an iteration, or the process, forget and never invent.
LEMMA EndIInv ==
  ASSUME IInv, EndIteration, UNCHANGED <<chain, competitions, jit_owners, indexed,
           attributed, id>>,
         snapshot' \subseteq snapshot, cache' \subseteq cache,
         last_auction' \subseteq Auctions, last_block' \subseteq Nat,
         in_flight' \subseteq [orders : SUBSET Order, block : Nat],
         InFlightMined'
  PROVE  IInv'
<1> USE DEF EndIteration, chain
<1>1. TypeOK'
  <2>1. solution' \subseteq Order /\ auction' \subseteq Auctions /\ answered' \in BOOLEAN
    BY Zenon
  <2> QED
    BY <2>1 DEF IInv, TypeOK
<1>2. MinedBefore' /\ Ids' /\ Saved'
  BY DEF IInv, MinedBefore, Ids, Saved
<1>3. Fresh'
  BY DEF IInv, Fresh, FreshAuction
<1>4. LastSettledNotOffered' /\ SavedBeforeSettled'
  BY DEF IInv, LastSettledNotOffered, Offering, SavedBeforeSettled
<1> QED
  BY <1>1, <1>2, <1>3, <1>4 DEF IInv

LEMMA NextAuctionIInv ==
  ASSUME IInv, NextAuction
  PROVE  IInv'
<1> USE DEF NextAuction, tasks, chain, database
<1>1. id \in Nat /\ id' = id + 1 /\ pc' \in {"idle", "decide"}
      /\ auction' \subseteq cache \cup auction
  BY DEF IInv, TypeOK
<1>2. TypeOK'
  BY <1>1 DEF IInv, TypeOK
<1>3. MinedBefore' /\ InFlightMined' /\ Saved'
  BY <1>1 DEF IInv, MinedBefore, InFlightMined, Saved
<1>4. Fresh'
  BY <1>1 DEF IInv, Fresh, FreshAuction
<1>5. Ids'
  <2>1. \A s \in pending \cup mined : s.auction \in Nat
    BY DEF IInv, TypeOK, Settlements
  <2> QED
    BY <1>1, <2>1 DEF IInv, Ids
<1>6. LastSettledNotOffered' /\ SavedBeforeSettled'
  BY <1>1 DEF IInv, LastSettledNotOffered, Offering, SavedBeforeSettled
<1> QED
  BY <1>2, <1>3, <1>4, <1>5, <1>6 DEF IInv

\* The heart of the argument: an auction that was built before the last
\* settlement was indexed loses its orders, and one that was built after it has
\* them only if they can be filled again.
LEMMA RemoveInFlight ==
  ASSUME IInv, NEW a \in auction, NEW found \in BOOLEAN,
         NEW f \in in_flight, NEW o \in RemoveInFlightOrders(a, found).orders \cap f.orders
  PROVE  o \in Partial /\ f.block <= a.latest /\ RemoveInFlightOrders(a, found).latest = a.latest
<1>1. a \in Auctions /\ f \in [orders : SUBSET Order, block : Nat]
  BY DEF IInv, TypeOK
<1>2. CASE \E g \in in_flight : ~ found \/ a.latest < g.block
  BY <1>1, <1>2 DEF RemoveInFlightOrders, Auctions
<1>3. CASE ~ \E g \in in_flight : ~ found \/ a.latest < g.block
  <2>1. RemoveInFlightOrders(a, found) = a /\ f.block <= a.latest
    BY <1>1, <1>3 DEF RemoveInFlightOrders, Auctions
  <2>2. PICK m \in mined : m.orders = f.orders /\ m.block = f.block
    BY DEF IInv, InFlightMined
  <2>3. FreshAuction(a)
    BY DEF IInv, Fresh
  <2>4. o \in a.orders /\ o \in m.orders /\ ~ (a.latest < m.block)
    BY <1>1, <2>1, <2>2 DEF Auctions
  <2> QED
    BY <2>1, <2>3, <2>4 DEF FreshAuction
<1> QED
  BY <1>2, <1>3

LEMMA DecideIInv ==
  ASSUME IInv, NEW found \in BOOLEAN, Decide(found)
  PROVE  IInv'
<1> USE DEF tasks, chain, database
<1>1. /\ pc = "decide" /\ last_auction' = auction
      /\ last_block' \subseteq Nat
      /\ UNCHANGED <<tasks, database, id, in_flight>>
  BY DEF Decide, IInv, TypeOK
<1>2. CASE EndIteration
  <2>1. /\ last_auction' \subseteq Auctions /\ InFlightMined'
        /\ in_flight' \subseteq [orders : SUBSET Order, block : Nat]
    BY <1>1, <1>2 DEF IInv, TypeOK, InFlightMined
  <2> QED
    BY <1>1, <1>2, <2>1, EndIInv
<1>3. CASE /\ pc' = "compete"
           /\ auction' = {RemoveInFlightOrders(a, found) : a \in auction}
           /\ UNCHANGED <<solution, deadline, answered>>
  <2>1. ASSUME NEW a \in auction
        PROVE  LET r == RemoveInFlightOrders(a, found)
               IN  r \in Auctions /\ r.orders \subseteq a.orders /\ r.latest = a.latest
    BY DEF RemoveInFlightOrders, IInv, TypeOK, Auctions
  <2>2. TypeOK'
    BY <1>1, <1>3, <2>1 DEF IInv, TypeOK
  <2>3. Fresh'
    <3>1. ASSUME NEW r \in auction' PROVE FreshAuction(r)'
      <4>1. PICK a \in auction : r.orders \subseteq a.orders /\ r.latest = a.latest
        BY <1>3, <2>1
      <4>2. FreshAuction(a)
        BY DEF IInv, Fresh
      <4> QED
        BY <1>1, <4>1, <4>2 DEF FreshAuction
    <3>2. ASSUME NEW a \in snapshot \cup cache PROVE FreshAuction(a)'
      BY <1>1 DEF IInv, Fresh, FreshAuction
    <3> QED
      BY <1>1, <3>1, <3>2 DEF Fresh
  <2>4. MinedBefore' /\ InFlightMined' /\ Ids' /\ Saved'
    BY <1>1, <1>3 DEF IInv, MinedBefore, InFlightMined, Ids, Saved
  <2>5. LastSettledNotOffered'
    BY <1>1, <1>3, RemoveInFlight DEF LastSettledNotOffered
  <2>6. SavedBeforeSettled'
    BY <1>1 DEF IInv, SavedBeforeSettled
  <2> QED
    BY <2>2, <2>3, <2>4, <2>5, <2>6 DEF IInv
<1> QED
  BY <1>2, <1>3 DEF Decide

\* From the competition to the settle request.
LEMMA SingleRunIInv ==
  ASSUME IInv,
         \/ \E orders \in SUBSET Order : Compete(orders)
         \/ Reveal \/ SaveCompetition \/ SaveJitOwners
  PROVE  IInv'
<1> USE DEF tasks, chain, database
<1>1. /\ pc \in {"compete", "reveal", "save", "save_jit"}
      /\ pc' \in {"reveal", "save", "save_jit", "settle"}
      /\ competitions \subseteq competitions' /\ competitions' \subseteq Nat
      /\ jit_owners \subseteq jit_owners' /\ jit_owners' \subseteq Nat
      /\ solution' \subseteq Order
      /\ UNCHANGED <<tasks, indexed, attributed, id, auction, last_auction, last_block,
                     in_flight, deadline, answered>>
  BY DEF Compete, Reveal, SaveCompetition, SaveJitOwners, IInv, TypeOK
<1>2. TypeOK'
  BY <1>1 DEF IInv, TypeOK
<1>3. Saved'
  BY DEF Compete, Reveal, SaveCompetition, SaveJitOwners, IInv, Saved
<1>4. MinedBefore' /\ InFlightMined' /\ Ids'
  BY <1>1 DEF IInv, MinedBefore, InFlightMined, Ids
<1>5. Fresh'
  BY <1>1 DEF IInv, Fresh, FreshAuction
<1>6. LastSettledNotOffered' /\ SavedBeforeSettled'
  BY <1>1 DEF IInv, LastSettledNotOffered, Offering, SavedBeforeSettled
<1> QED
  BY <1>2, <1>3, <1>4, <1>5, <1>6 DEF IInv

LEMMA SettleIInv ==
  ASSUME IInv, NEW submitted \in SUBSET {"yes"}, Settle(submitted)
  PROVE  IInv'
<1> USE DEF Settle, database
<1>1. \A p \in pending' : p \in pending \/ p = [auction |-> id, orders |-> solution]
  OBVIOUS
<1>2. TypeOK'
  <2>1. [auction |-> id, orders |-> solution] \in [auction : Nat, orders : SUBSET Order]
    BY DEF IInv, TypeOK
  <2>2. pending' \subseteq [auction : Nat, orders : SUBSET Order]
    BY <1>1, <2>1 DEF IInv, TypeOK
  <2>3. deadline' \in Nat
    BY DeadlineAssumption DEF IInv, TypeOK
  <2> QED
    BY <2>2, <2>3 DEF IInv, TypeOK
<1>3. MinedBefore' /\ InFlightMined' /\ Saved'
  BY DEF IInv, MinedBefore, InFlightMined, Saved
<1>4. Fresh'
  BY DEF IInv, Fresh, FreshAuction
<1>5. Ids'
  <2>1. \A s \in pending \cup mined : s.auction \in Nat /\ s.auction < id
    BY DEF IInv, TypeOK, Settlements, Ids
  <2> QED
    BY <1>1, <2>1 DEF IInv, TypeOK, Ids
<1>6. LastSettledNotOffered' /\ SavedBeforeSettled'
  BY <1>1 DEF IInv, LastSettledNotOffered, Offering, Saved, SavedBeforeSettled
<1> QED
  BY <1>2, <1>3, <1>4, <1>5, <1>6 DEF IInv

\* The settlement found for the current id fills the orders of the solution.
LEMMA FindIInv ==
  ASSUME IInv, NEW m \in mined, FindSettlement(m)
  PROVE  IInv'
<1> USE DEF FindSettlement, tasks, chain, database
<1>1. m.orders = solution /\ m \in Settlements
  BY DEF IInv, TypeOK, Ids
<1>2. in_flight' \subseteq [orders : SUBSET Order, block : Nat] /\ InFlightMined'
  BY <1>1 DEF IInv, TypeOK, Settlements, InFlightMined
<1>3. EndIteration
  OBVIOUS
<1>4. TypeOK'
  <2>1. solution' \subseteq Order /\ auction' \subseteq Auctions /\ answered' \in BOOLEAN
    BY Zenon DEF EndIteration
  <2> QED
    BY <1>1, <1>2, <2>1 DEF IInv, TypeOK, EndIteration
<1>5. MinedBefore' /\ Ids' /\ Saved'
  BY DEF IInv, MinedBefore, Ids, Saved, EndIteration
<1>6. Fresh'
  BY DEF IInv, Fresh, FreshAuction, EndIteration
<1>7. LastSettledNotOffered' /\ SavedBeforeSettled'
  BY DEF IInv, LastSettledNotOffered, Offering, SavedBeforeSettled, EndIteration
<1> QED
  BY <1>2, <1>4, <1>5, <1>6, <1>7 DEF IInv

LEMMA NextIInv ==
  ASSUME IInv, [Next]_vars
  PROVE  IInv'
<1> USE DEF tasks, chain, database
<1>1. ASSUME NEW S \in SUBSET pending, NEW foreign \in SUBSET Others, NewBlock(S, foreign)
      PROVE  IInv'
  BY <1>1, NewBlockIInv
<1>2. CASE \/ \E p \in pending : DropPending(p)
           \/ Index
           \/ \E m \in mined : Attribute(m)
  BY <1>2, EnvironmentIInv
<1>3. CASE ReadSolvableOrders
  BY <1>3, ReadIInv
<1>4. ASSUME NEW orders \in SUBSET Order, PublishAuction(orders) PROVE IInv'
  BY <1>4, PublishIInv
<1>5. CASE UpdateFails
  <2>1. TypeOK' /\ MinedBefore' /\ InFlightMined' /\ Ids' /\ Saved'
    BY <1>5 DEF UpdateFails, loop, IInv, TypeOK, MinedBefore, InFlightMined, Ids, Saved
  <2>2. Fresh'
    BY <1>5 DEF UpdateFails, loop, IInv, Fresh, FreshAuction
  <2>3. LastSettledNotOffered' /\ SavedBeforeSettled'
    BY <1>5 DEF UpdateFails, loop, IInv, LastSettledNotOffered, Offering, SavedBeforeSettled
  <2> QED
    BY <2>1, <2>2, <2>3 DEF IInv
<1>6. CASE NextAuction
  BY <1>6, NextAuctionIInv
<1>7. ASSUME NEW found \in BOOLEAN, Decide(found) PROVE IInv'
  BY <1>7, DecideIInv
<1>8. CASE \/ \E orders \in SUBSET Order : Compete(orders)
           \/ Reveal \/ SaveCompetition \/ SaveJitOwners
  BY <1>8, SingleRunIInv
<1>9. CASE /\ EndIteration
           /\ UNCHANGED <<tasks, database, id, last_auction, last_block, in_flight>>
  <2>1. /\ InFlightMined' /\ last_auction' \subseteq Auctions /\ last_block' \subseteq Nat
        /\ in_flight' \subseteq [orders : SUBSET Order, block : Nat]
    BY <1>9 DEF IInv, TypeOK, InFlightMined
  <2> QED
    BY <1>9, <2>1, EndIInv
<1>10. ASSUME NEW submitted \in SUBSET {"yes"}, Settle(submitted) PROVE IInv'
  BY <1>10, SettleIInv
<1>11. CASE \/ DriverSucceeds \/ NotFound
            \/ CheckDeadline /\ ~ EndIteration
  <2>1. /\ pc \in {"wait", "query"} /\ pc' \in {"wait", "query"} /\ answered' \in BOOLEAN
        /\ UNCHANGED <<tasks, database, id, auction, last_auction, last_block, in_flight,
                       solution, deadline>>
    BY <1>11 DEF DriverSucceeds, NotFound, CheckDeadline, IInv, TypeOK
  <2>2. TypeOK' /\ MinedBefore' /\ InFlightMined' /\ Ids' /\ Saved'
    BY <2>1 DEF IInv, TypeOK, MinedBefore, InFlightMined, Ids, Saved
  <2>3. Fresh'
    BY <2>1 DEF IInv, Fresh, FreshAuction
  <2>4. LastSettledNotOffered' /\ SavedBeforeSettled'
    BY <2>1 DEF IInv, LastSettledNotOffered, Offering, SavedBeforeSettled
  <2> QED
    BY <2>2, <2>3, <2>4 DEF IInv
<1>12. ASSUME NEW m \in mined, FindSettlement(m) PROVE IInv'
  BY <1>12, FindIInv
<1>13. CASE Restart
  <2>1. /\ EndIteration
        /\ UNCHANGED <<chain, competitions, jit_owners, indexed, attributed, id>>
    BY <1>13 DEF Restart
  <2>2. /\ snapshot' \subseteq snapshot /\ cache' \subseteq cache
        /\ last_auction' \subseteq Auctions /\ last_block' \subseteq Nat
        /\ in_flight' \subseteq [orders : SUBSET Order, block : Nat] /\ InFlightMined'
    BY <1>13, Zenon DEF Restart, InFlightMined
  <2> QED
    BY <2>1, <2>2, EndIInv
<1>14. CASE UNCHANGED vars
  <2>1. TypeOK' /\ MinedBefore' /\ InFlightMined' /\ Ids' /\ Saved'
    BY <1>14 DEF vars, IInv, TypeOK, MinedBefore, InFlightMined, Ids, Saved
  <2>2. Fresh'
    BY <1>14 DEF vars, IInv, Fresh, FreshAuction
  <2>3. LastSettledNotOffered' /\ SavedBeforeSettled'
    BY <1>14 DEF vars, IInv, LastSettledNotOffered, Offering, SavedBeforeSettled
  <2> QED
    BY <2>1, <2>2, <2>3 DEF IInv
<1>15. RunFails \/ DriverFails =>
         /\ EndIteration
         /\ UNCHANGED <<tasks, database, id, last_auction, last_block, in_flight>>
  BY DEF RunFails, DriverFails
<1>16. CheckDeadline =>
         \/ /\ EndIteration
            /\ UNCHANGED <<tasks, database, id, last_auction, last_block, in_flight>>
         \/ CheckDeadline /\ ~ EndIteration
  BY DEF CheckDeadline
<1>17. CASE Environment
  BY <1>1, <1>2, <1>17 DEF Environment
<1>18. CASE OrdersCache
  BY <1>3, <1>4, <1>5, <1>18 DEF OrdersCache
<1>19. CASE Run
  BY <1>6, <1>7, <1>8, <1>9, <1>10, <1>11, <1>12, <1>15, <1>16, <1>19 DEF Run
<1> QED
  BY <1>9, <1>11, <1>13, <1>14, <1>15, <1>17, <1>18, <1>19 DEF Next

\* For any orders, partially fillable or not, and any pace of cache, indexer and
\* drivers: the orders of the last settlement are not offered again before the
\* database shows what is left of them.
THEOREM NoSecondOffer == Spec => []LastSettledNotOffered
<1>1. Init => IInv
  BY InitIInv
<1>2. IInv /\ [Next]_vars => IInv'
  BY NextIInv
<1>3. IInv => LastSettledNotOffered
  BY DEF IInv
<1> QED
  BY <1>1, <1>2, <1>3, PTL DEF Spec

\* No settlement of this autopilot, pending or mined, is without its competition
\* and its JIT order owners in the database.
THEOREM RecordsFirst == Spec => []SavedBeforeSettled
<1>1. Init => IInv
  BY InitIInv
<1>2. IInv /\ [Next]_vars => IInv'
  BY NextIInv
<1>3. IInv => SavedBeforeSettled
  BY DEF IInv
<1> QED
  BY <1>1, <1>2, <1>3, PTL DEF Spec

\* Whatever fails, restarts or comes late, the loop's state keeps its types; in
\* particular the indexer is never ahead of the chain.
THEOREM RunLoopTypeCorrect == Spec => []TypeOK
<1>1. Init => IInv
  BY InitIInv
<1>2. IInv /\ [Next]_vars => IInv'
  BY NextIInv
<1>3. IInv => TypeOK
  BY DEF IInv
<1> QED
  BY <1>1, <1>2, <1>3, PTL DEF Spec

----------------------------------------------------------------------------
(* The loop implements AuctionLife: every step of Next is one move in the  *)
(* life of an auction, or none.                                            *)

\* The abstract variable changes where PhaseOf does.
LEMMA MovesLife ==
  ASSUME NEW k \in 1 .. MaxAuction, NEW to,
         \A i \in 1 .. MaxAuction : PhaseOf(i)' = IF i = k THEN to ELSE PhaseOf(i)
  PROVE  Life!Moves(k, PhaseOf(k), to)
BY DEF Life!Moves, Phases

\* The auction has an id and is not recorded yet.
Opening == {"decide", "compete", "reveal", "save", "save_jit"}

\* A step between two moves of the life of auctions.
LifeStutters == UNCHANGED Phases

LEMMA SamePhases ==
  ASSUME \A i \in 1 .. MaxAuction : PhaseOf(i)' = PhaseOf(i)
  PROVE  LifeStutters
BY DEF LifeStutters, Phases

\* Steps of the run that no other component sees.
LEMMA InnerLife ==
  ASSUME UNCHANGED <<mined, pending, id>>,
         \/ pc \in Opening /\ pc' \in Opening
         \/ pc \in {"idle", "wait", "query"} /\ pc' \in {"idle", "wait", "query"}
         \/ UNCHANGED <<pc, competitions, jit_owners>>
  PROVE  LifeStutters
<1>1. ASSUME NEW i \in 1 .. MaxAuction PROVE PhaseOf(i)' = PhaseOf(i)
  BY DEF PhaseOf, Opening
<1> QED
  BY <1>1, SamePhases

\* The current auction id is one that AuctionLife knows.
LEMMA CurrentId ==
  ASSUME IInv, id <= MaxAuction, pc # "idle"
  PROVE  id \in 1 .. MaxAuction
BY BoundAssumption DEF IInv, TypeOK, Ids

\* The end of an iteration closes the auction unless it was settled.
LEMMA EndLife ==
  ASSUME IInv, id <= MaxAuction, EndIteration, UNCHANGED <<mined, pending, id>>
  PROVE  Life!Next \/ LifeStutters
<1>1. \A i \in 1 .. MaxAuction : i # id => PhaseOf(i)' = PhaseOf(i)
  BY DEF PhaseOf, EndIteration
<1>2. CASE PhaseOf(id) \in {"open", "recorded"}
  <2>1. pc # "idle" /\ id \in 1 .. MaxAuction /\ PhaseOf(id)' = "closed"
    BY <1>2, CurrentId DEF PhaseOf, EndIteration
  <2>2. Life!Moves(id, PhaseOf(id), "closed")
    BY <1>1, <2>1, MovesLife
  <2>3. Life!Close(id)
    BY <1>2, <2>2 DEF Life!Close
  <2> QED
    BY <2>1, <2>3 DEF Life!Next, Life!Auction
<1>3. CASE PhaseOf(id) \notin {"open", "recorded"}
  <2>1. PhaseOf(id)' = PhaseOf(id)
    BY <1>3 DEF PhaseOf, EndIteration
  <2> QED
    BY <1>1, <2>1, SamePhases
<1> QED
  BY <1>2, <1>3

\* A fresh id: no settlement carries it, and no other auction is open.
LEMMA NextAuctionLife ==
  ASSUME IInv, NextAuction
  PROVE  Life!Next
<1>1. PICK n \in 1 .. MaxAuction : n = id + 1
  BY BoundAssumption DEF IInv, TypeOK, NextAuction
<1>2. /\ id \in Nat /\ id' = n /\ pc = "idle" /\ pc' \in {"idle", "decide"}
      /\ UNCHANGED <<mined, pending>>
  BY <1>1 DEF IInv, TypeOK, NextAuction, tasks, chain
<1>3. \A s \in pending \cup mined : s.auction \in Nat /\ s.auction <= id
  BY DEF IInv, TypeOK, Settlements, Ids
<1>4. PhaseOf(n) = "unused"
  BY <1>1, <1>2, <1>3 DEF PhaseOf
<1>5. \A k \in 1 .. MaxAuction : PhaseOf(k) \notin {"open", "recorded"}
  BY <1>2 DEF PhaseOf
<1>6. \A k \in 1 .. n - 1 : k \in 1 .. MaxAuction /\ PhaseOf(k) # "unused"
  BY <1>1, <1>2, BoundAssumption DEF PhaseOf
<1>7. ASSUME NEW i \in 1 .. MaxAuction, i # n PROVE PhaseOf(i)' = PhaseOf(i)
  BY <1>1, <1>2, <1>7 DEF PhaseOf
<1>8. PhaseOf(n)' \in {"open", "closed"}
  BY <1>1, <1>2, <1>3 DEF PhaseOf
<1>9. \E to \in {"open", "closed"} : Life!Moves(n, "unused", to)
  BY <1>4, <1>7, <1>8, MovesLife
<1> HIDE DEF PhaseOf
<1>10. \E to \in {"open", "closed"} : Life!Begin(n, to)
  BY <1>5, <1>6, <1>9 DEF Life!Begin, Life!Auction, Phases
<1> QED
  BY <1>10 DEF Life!Next, Life!Auction, Life!Phase

\* The last write before the settle request records the auction.
LEMMA SaveJitOwnersLife ==
  ASSUME IInv, id <= MaxAuction, SaveJitOwners
  PROVE  Life!Next
<1>1. /\ pc = "save_jit" /\ pc' = "settle" /\ id \in 1 .. MaxAuction
      /\ UNCHANGED <<mined, pending, id, competitions>> /\ id \in jit_owners'
      /\ id \in competitions
  BY CurrentId DEF SaveJitOwners, tasks, chain, IInv, Saved
<1>2. \A s \in pending \cup mined : s.auction # id
  BY <1>1 DEF IInv, TypeOK, Settlements, Ids
<1>3. PhaseOf(id) = "open" /\ PhaseOf(id)' = "recorded"
  BY <1>1, <1>2 DEF PhaseOf
<1>4. \A i \in 1 .. MaxAuction : i # id => PhaseOf(i)' = PhaseOf(i)
  BY <1>1 DEF PhaseOf
<1>5. Life!Record(id)
  BY <1>1, <1>3, <1>4, MovesLife DEF Life!Record
<1> QED
  BY <1>1, <1>5 DEF Life!Next, Life!Auction

\* The request goes out once for a recorded auction, or is lost.
LEMMA SettleLife ==
  ASSUME IInv, id <= MaxAuction, NEW submitted \in SUBSET {"yes"}, Settle(submitted)
  PROVE  Life!Next
<1>1. /\ pc = "settle" /\ pc' = "wait" /\ id \in 1 .. MaxAuction
      /\ UNCHANGED <<mined, id, competitions, jit_owners>>
      /\ id \in competitions \cap jit_owners
  BY CurrentId DEF Settle, database, IInv, Saved
<1>2. \A s \in pending \cup mined : s.auction # id
  BY <1>1 DEF IInv, TypeOK, Settlements, Ids
<1>3. PhaseOf(id) = "recorded"
  BY <1>1, <1>2 DEF PhaseOf
<1>4. PhaseOf(id)' \in {"requested", "closed"}
  BY <1>1, <1>2 DEF PhaseOf
<1>5. ASSUME NEW i \in 1 .. MaxAuction, i # id PROVE PhaseOf(i)' = PhaseOf(i)
  <2>1. (\E p \in pending' : p.auction = i) <=> (\E p \in pending : p.auction = i)
    BY <1>5 DEF Settle
  <2> QED
    BY <1>1, <1>5, <2>1 DEF PhaseOf
<1>6. Life!Moves(id, "recorded", "requested") \/ Life!Moves(id, "recorded", "closed")
  BY <1>1, <1>3, <1>4, <1>5, MovesLife
<1> QED
  BY <1>1, <1>6 DEF Life!Next, Life!Auction, Life!Request, Life!Close

\* A block executes what was requested; other deployments' settlements have no id.
LEMMA NewBlockLife ==
  ASSUME IInv, NEW S \in SUBSET pending, NEW foreign \in SUBSET Others, NewBlock(S, foreign)
  PROVE  Life!Next
<1> DEFINE E == {i \in 1 .. MaxAuction : PhaseOf(i) = "requested" /\ \E p \in S : p.auction = i}
<1>1. UNCHANGED <<id, pc, competitions, jit_owners>> /\ pending' = pending \ S
  BY DEF NewBlock, database, loop
<1>2. ASSUME NEW i \in 1 .. MaxAuction
      PROVE  (\E m \in mined' : m.auction = i) <=>
               (\E m \in mined : m.auction = i) \/ (\E p \in S : p.auction = i)
  <2>1. ASSUME NEW m \in mined', m.auction = i
        PROVE  m \in mined \/ \E p \in S : p.auction = i
    BY <2>1 DEF NewBlock, Foreign
  <2>2. mined \subseteq mined'
    BY DEF NewBlock
  <2>3. ASSUME NEW p \in S, p.auction = i
        PROVE  \E m \in mined' : m.auction = i
    <3>1. [auction |-> p.auction, orders |-> p.orders, block |-> block + 1] \in mined'
      BY DEF NewBlock
    <3> QED
      BY <2>3, <3>1
  <2> QED
    BY <2>1, <2>2, <2>3
<1>3. ASSUME NEW i \in 1 .. MaxAuction
      PROVE  PhaseOf(i)' = IF i \in E THEN "executed" ELSE PhaseOf(i)
  BY <1>1, <1>2 DEF PhaseOf
<1>4. Life!Execute(E)
  <2>1. \A i \in E : i \in 1 .. MaxAuction /\ PhaseOf(i) = "requested"
    OBVIOUS
  <2> HIDE DEF E
  <2> QED
    BY <1>3, <2>1 DEF Life!Execute, Life!Auction, Phases
<1> QED
  BY <1>4 DEF Life!Next, Life!Auction

\* A dropped transaction closes its auction: only the loop's own request could
\* bring it back, and its id is not used again.
LEMMA DropPendingLife ==
  ASSUME IInv, NEW p \in pending, DropPending(p)
  PROVE  Life!Next \/ LifeStutters
<1>1. /\ UNCHANGED <<mined, id, pc, competitions, jit_owners>> /\ pending' = pending \ {p}
      /\ p.auction \in Nat /\ p.auction <= id
      /\ pc \notin {"idle", "wait", "query"} => p.auction < id
  BY DEF DropPending, database, loop, IInv, TypeOK, Ids
<1>2. \A i \in 1 .. MaxAuction : i # p.auction => PhaseOf(i)' = PhaseOf(i)
  BY <1>1 DEF PhaseOf
<1>3. CASE PhaseOf(p.auction)' = PhaseOf(p.auction) \/ p.auction \notin 1 .. MaxAuction
  BY <1>2, <1>3, SamePhases
<1>4. CASE PhaseOf(p.auction)' # PhaseOf(p.auction) /\ p.auction \in 1 .. MaxAuction
  <2>1. PhaseOf(p.auction) = "requested" /\ PhaseOf(p.auction)' = "closed"
    BY <1>1, <1>4 DEF PhaseOf, IInv, TypeOK
  <2>2. Life!Close(p.auction)
    BY <1>2, <1>4, <2>1, MovesLife DEF Life!Close
  <2> QED
    BY <1>4, <2>2 DEF Life!Next, Life!Auction
<1> QED
  BY <1>3, <1>4

\* Every step of the loop is a step in the life of an auction, or none.
LEMMA NextLife ==
  ASSUME IInv, id <= MaxAuction, [Next]_vars
  PROVE  (Life!Next \/ LifeStutters) /\ id' <= MaxAuction
<1> USE DEF tasks, chain, database
<1>1. id' <= MaxAuction
  BY BoundAssumption DEF Next, Environment, OrdersCache, Run, NewBlock, DropPending, Index, Attribute,
     ReadSolvableOrders, PublishAuction, UpdateFails, NextAuction, Decide, Compete, Reveal,
     SaveCompetition, SaveJitOwners, RunFails, Settle, CheckDeadline, FindSettlement, NotFound,
     DriverSucceeds, DriverFails, Restart, vars, loop, IInv, TypeOK
<1> SUFFICES Life!Next \/ LifeStutters
  BY <1>1
<1>2. CASE Environment
  <2>1. CASE Index \/ \E m \in mined : Attribute(m)
    <3>1. UNCHANGED <<mined, pending, id, pc, competitions, jit_owners>>
      BY <2>1 DEF Index, Attribute, loop
    <3> QED
      BY <3>1, InnerLife
  <2> QED
    BY <1>2, <2>1, NewBlockLife, DropPendingLife DEF Environment
<1>3. CASE OrdersCache
  <2>1. UNCHANGED <<mined, pending, id, pc, competitions, jit_owners>>
    BY <1>3 DEF OrdersCache, ReadSolvableOrders, PublishAuction, UpdateFails, loop
  <2> QED
    BY <2>1, InnerLife
<1>4. CASE \/ \E orders \in SUBSET Order : Compete(orders)
           \/ Reveal \/ SaveCompetition
  <2>1. UNCHANGED <<mined, pending, id>> /\ pc \in Opening /\ pc' \in Opening
    BY <1>4 DEF Compete, Reveal, SaveCompetition, Opening
  <2> QED
    BY <2>1, InnerLife
<1>5. CASE NotFound \/ DriverSucceeds
  BY <1>5, InnerLife DEF NotFound, DriverSucceeds
<1>6. CASE RunFails \/ DriverFails \/ Restart \/ \E m \in mined : FindSettlement(m)
  BY <1>6, EndLife DEF RunFails, DriverFails, Restart, FindSettlement
<1>7. CASE \E found \in BOOLEAN : Decide(found)
  <2>1. /\ UNCHANGED <<mined, pending, id>>
        /\ EndIteration \/ (pc = "decide" /\ pc' = "compete")
    BY <1>7 DEF Decide
  <2>2. CASE EndIteration
    BY <2>1, <2>2, EndLife
  <2>3. CASE pc = "decide" /\ pc' = "compete"
    BY <2>1, <2>3, InnerLife DEF Opening
  <2> QED
    BY <2>1, <2>2, <2>3
<1>8. CASE CheckDeadline
  <2>1. CASE EndIteration
    BY <1>8, <2>1, EndLife DEF CheckDeadline
  <2>2. CASE pc = "wait" /\ pc' = "query"
    BY <1>8, <2>2, InnerLife DEF CheckDeadline
  <2> QED
    BY <1>8, <2>1, <2>2 DEF CheckDeadline
<1>9. CASE UNCHANGED vars
  BY <1>9, InnerLife DEF vars
<1>10. CASE Run
  BY <1>1, <1>4, <1>5, <1>6, <1>7, <1>8, <1>10, NextAuctionLife, SaveJitOwnersLife, SettleLife,
     Zenon DEF Run
<1> QED
  BY <1>1, <1>2, <1>3, <1>5, <1>6, <1>9, <1>10 DEF Next

\* For any orders, deadline and bounds: ids are used in turn and never again, and
\* an auction is settled once, after it was recorded, or never, whatever fails,
\* restarts or is mined late.
THEOREM LifeImplemented == Spec => ImplementsLife
<1> DEFINE LInv == IInv /\ id <= MaxAuction
<1>1. Init => LInv /\ Life!Init
  <2> SUFFICES ASSUME Init PROVE LInv /\ Life!Init
    OBVIOUS
  <2>1. \A i \in 1 .. MaxAuction : PhaseOf(i) = "unused"
    BY DEF Init, PhaseOf
  <2> QED
    BY <2>1, InitIInv, BoundAssumption DEF Init, Life!Init, Life!Auction, Phases
<1>2. LInv /\ [Next]_vars => LInv'
  BY NextIInv, NextLife
<1>3. LInv /\ [Next]_vars => [Life!Next]_Phases
  BY NextLife DEF LifeStutters
<1> HIDE DEF LInv
<1> QED
  BY <1>1, <1>2, <1>3, PTL DEF Spec, ImplementsLife, Life!Spec
============================================================================
