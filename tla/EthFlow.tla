------------------------------ MODULE EthFlow ------------------------------
(***************************************************************************)
(* Orders that users place in the ethflow contract: the contract's events  *)
(* on a chain that reorganises, the indexer of the autopilot               *)
(* (crates/autopilot/src/database/onchain_order_events.rs) that checks the *)
(* quote of every placement and mirrors the events in the database, and    *)
(* the refunder (crates/refunder/src/refund_service.rs) that gives the     *)
(* funds of expired orders back.                                           *)
(*                                                                         *)
(* A block holds one transaction.  One update brings the tables of trades, *)
(* placements, invalidations and refunds to the head of the chain.         *)
(***************************************************************************)
EXTENDS RefundSubmitter, Sequences, FiniteSets

CONSTANTS
  ValidTo,         \* valid_to the user chose
  QuoteExpiry,     \* expiration of the quote the order names
  MAX_NUMBER_OF_UIDS_PER_REFUND_TX,
  MaxTime, MaxEvents, MaxFaults   \* bounds: ticks, blocks of users, restarts and reorganisations

ASSUME UidAssumption == IsFiniteSet(Uid)
ASSUME TimeAssumption == ValidTo \in [Uid -> Nat] /\ QuoteExpiry \in [Uid -> Nat]
ASSUME BatchAssumption == MAX_NUMBER_OF_UIDS_PER_REFUND_TX \in Nat \ {0}
ASSUME BoundAssumption == {MaxTime, MaxEvents, MaxFaults} \subseteq Nat

VARIABLES
  now,
  chain,             \* the blocks of the node, oldest first: [kind, uids, tx]
  view,              \* the blocks the tables of events mirror
  reindex,           \* autopilot: "yes" until the first update after a start
  placed_at,         \* onchain_placed_orders.block_number, 0 without a row
  placement_errors,  \* orders with a placement_error
  is_reorged,        \* orders marked as reorged
  order_quotes,      \* orders with a row in order_quotes
  to_refund,         \* refunder: the batch of this round, {} between rounds
  nonce,             \* refunder: the nonce read in this round, or -1
  faults             \* restarts and reorganisations so far

database == <<view, reindex, placed_at, placement_errors, is_reorged, order_quotes>>
vars == <<now, chain, view, reindex, placed_at, placement_errors, is_reorged, order_quotes,
          to_refund, nonce, faults, last, pending, lost>>

NoTx == [nonce |-> 0, fee |-> 0, tip |-> 0, uids |-> {}]

Init ==
  /\ now = 0 /\ chain = <<>> /\ view = <<>> /\ reindex = "no"
  /\ placed_at = [u \in Uid |-> 0]
  /\ placement_errors = {} /\ is_reorged = {} /\ order_quotes = {}
  /\ to_refund = {} /\ nonce = -1 /\ faults = 0
  /\ SubmitterInit

----------------------------------------------------------------------------
(* The contract: what follows from a sequence of blocks.                   *)

Has(blocks, u, kind) ==
  \E n \in DOMAIN blocks : blocks[n].kind = kind /\ u \in blocks[n].uids

\* Its owner, neither NO_OWNER nor INVALIDATED_OWNER, has funds in the contract.
Owned(u) == /\ Has(chain, u, "Placement")
            /\ ~Has(chain, u, "Invalidation") /\ ~Has(chain, u, "Refund")

Expired(u) == ValidTo[u] < now

\* transaction_count: the refunder's transactions that were mined.
MinedCount(blocks) == Cardinality({n \in DOMAIN blocks : blocks[n].kind = "Refund"})

Grow(kind, uids, tx) == chain' = Append(chain, [kind |-> kind, uids |-> uids, tx |-> tx])

\* A user places an order or takes it back, or a solver settles it.
UserEvent(u, kind) ==
  /\ Len(chain) - MinedCount(chain) < MaxEvents
  /\ ~Expired(u)
  /\ IF kind = "Placement" THEN ~Has(chain, u, "Placement")
                           ELSE Owned(u) /\ ~Has(chain, u, "Trade")
  /\ Grow(kind, {u}, NoTx)
  /\ UNCHANGED <<now, database, to_refund, nonce, faults, submitter>>

\* invalidateOrdersIgnoringNotAllowed: anyone may refund what has expired.
MineRefund(tx) ==
  /\ tx \in pending
  /\ tx.nonce = MinedCount(chain)
  /\ Grow("Refund", {u \in tx.uids : Owned(u) /\ Expired(u)}, tx)
  /\ Mined(tx)
  /\ UNCHANGED <<now, database, to_refund, nonce, faults>>

\* The last block is reorganised away; a refund goes back to the pool.
Reorg ==
  /\ chain # <<>> /\ faults < MaxFaults
  /\ faults' = faults + 1
  /\ chain' = SubSeq(chain, 1, Len(chain) - 1)
  /\ LET top == chain[Len(chain)]
     IN  IF top.kind = "Refund" THEN Unmined(top.tx) ELSE UNCHANGED submitter
  /\ UNCHANGED <<now, database, to_refund, nonce>>

Tick ==
  /\ now < MaxTime
  /\ now' = now + 1
  /\ UNCHANGED <<chain, database, to_refund, nonce, faults, submitter>>

----------------------------------------------------------------------------
(* The indexer.                                                            *)

Agree(k) == \A n \in 1..k : n \in DOMAIN view /\ n \in DOMAIN chain /\ view[n] = chain[n]

\* Blocks from k on are read again: the first that differ or, when the last event
\* is old at a start, all recent ones.
FirstBlock(k) ==
  /\ Agree(k - 1)
  /\ ~Agree(k) \/ (reindex = "yes" /\ k = 1)

Places(n, u) == chain[n].kind = "Placement" /\ u \in chain[n].uids

PlacedIn(k) == {u \in Uid : \E n \in k..Len(chain) : Places(n, u)}

BlockOf(u, k) == CHOOSE n \in k..Len(chain) : Places(n, u)

\* get_quote: an expired quote, deleted or not, is an error of the placement, and
\* so is a lookup that fails.
QuoteError(u, failing) == QuoteExpiry[u] < now \/ u \in failing

\* Mutant of UpdateEvents: the quotes of a reorganised range are deleted.
UpdateDeletingQuotes(k, failing) ==
  LET placed == PlacedIn(k)
      bad == {u \in placed : QuoteError(u, failing)}
      old == {u \in Uid : placed_at[u] >= k}
  IN  /\ k \in 1 .. Len(chain) + 1
      /\ FirstBlock(k)
      /\ view' = chain /\ reindex' = "no"
      /\ placed_at' = [u \in Uid |-> IF u \in placed THEN BlockOf(u, k) ELSE placed_at[u]]
      /\ placement_errors' = (placement_errors \ placed) \cup bad
      /\ is_reorged' = (is_reorged \cup old) \ placed
      /\ order_quotes' = (order_quotes \ old) \cup (placed \ bad)
      /\ UNCHANGED <<now, chain, to_refund, nonce, faults, submitter>>

\* Mutant of UpdateEvents: mark_as_reorged starts one block too late.
UpdateMarkingLate(k, failing) ==
  LET placed == PlacedIn(k)
      bad == {u \in placed : QuoteError(u, failing)}
  IN  /\ k \in 1 .. Len(chain) + 1
      /\ FirstBlock(k)
      /\ view' = chain /\ reindex' = "no"
      /\ placed_at' = [u \in Uid |-> IF u \in placed THEN BlockOf(u, k) ELSE placed_at[u]]
      /\ placement_errors' = (placement_errors \ placed) \cup bad
      /\ is_reorged' = (is_reorged \cup {u \in Uid : placed_at[u] > k}) \ placed
      /\ order_quotes' = order_quotes \cup (placed \ bad)
      /\ UNCHANGED <<now, chain, to_refund, nonce, faults, submitter>>

\* replace_events: placements are marked from block k on, other events deleted;
\* then insert_events upserts placements with the outcome of their quotes.  The
\* rows of orders and order_quotes stay.
UpdateEvents(k, failing) ==
  LET placed == PlacedIn(k)
      bad == {u \in placed : QuoteError(u, failing)}
  IN  /\ k \in 1 .. Len(chain) + 1
      /\ FirstBlock(k)
      /\ view' = chain /\ reindex' = "no"
      /\ placed_at' = [u \in Uid |-> IF u \in placed THEN BlockOf(u, k) ELSE placed_at[u]]
      /\ placement_errors' = (placement_errors \ placed) \cup bad
      /\ is_reorged' = (is_reorged \cup {u \in Uid : placed_at[u] >= k}) \ placed
      /\ order_quotes' = order_quotes \cup (placed \ bad)
      /\ UNCHANGED <<now, chain, to_refund, nonce, faults, submitter>>

RestartAutopilot ==
  /\ faults < MaxFaults
  /\ faults' = faults + 1
  /\ reindex' = "yes"
  /\ UNCHANGED <<now, chain, view, placed_at, placement_errors, is_reorged, order_quotes,
                 to_refund, nonce, submitter>>

----------------------------------------------------------------------------
(* The refunder.                                                           *)

\* Mutant of Refundable: orders whose placement turned into an error are left out.
RefundableWithoutErrors ==
  {u \in order_quotes \ placement_errors :
     /\ Expired(u)
     /\ ~Has(view, u, "Trade") /\ ~Has(view, u, "Invalidation") /\ ~Has(view, u, "Refund")}

\* refundable_orders: expired orders with a quote that were neither traded,
\* invalidated nor refunded.
Refundable ==
  {u \in order_quotes : /\ Expired(u)
                        /\ ~Has(view, u, "Trade") /\ ~Has(view, u, "Invalidation")
                        /\ ~Has(view, u, "Refund")}

\* Some of the first of uids, MAX_NUMBER_OF_UIDS_PER_REFUND_TX at most.
Batch(uids) == {s \in SUBSET uids :
                  Cardinality(s) = MinOf(Cardinality(uids), MAX_NUMBER_OF_UIDS_PER_REFUND_TX)}

\* get_refundable_ethflow_orders_from_db, then the owners in the contract in
\* identify_uids_refunding_status_via_web3_calls; a round without any ends here.
IdentifyRefundable(batch) ==
  /\ to_refund = {}
  /\ batch \in Batch({u \in Refundable : Owned(u)}) /\ batch # {}
  /\ to_refund' = batch
  /\ UNCHANGED <<now, chain, database, nonce, faults, submitter>>

\* get_submission_nonce: the transactions of the account in the last block.
GetSubmissionNonce ==
  /\ to_refund # {} /\ nonce = -1
  /\ nonce' = MinedCount(chain)
  /\ UNCHANGED <<now, chain, database, to_refund, faults, submitter>>

\* The rest of send_out_refunding_tx.  The nonce may be used up by now.
Refund(estimate) ==
  /\ nonce # -1
  /\ Submit(to_refund, estimate, nonce, MinedCount(chain))
  /\ to_refund' = {} /\ nonce' = -1
  /\ UNCHANGED <<now, chain, database, faults>>

RestartRefunder ==
  /\ faults < MaxFaults
  /\ faults' = faults + 1
  /\ to_refund' = {} /\ nonce' = -1
  /\ RestartSubmitter
  /\ UNCHANGED <<now, chain, database>>

----------------------------------------------------------------------------

Index == \E k \in 1 .. Len(chain) + 1, failing \in SUBSET Uid : UpdateEvents(k, failing)
Identify == \E batch \in SUBSET Uid : IdentifyRefundable(batch)
SomeRefund == \E estimate \in Estimate : Refund(estimate)
Mine == \E tx \in pending : MineRefund(tx)

Next ==
  \/ \E u \in Uid, kind \in {"Placement", "Trade", "Invalidation"} : UserEvent(u, kind)
  \/ Mine
  \/ Reorg
  \/ Tick
  \/ Index
  \/ RestartAutopilot
  \/ Identify
  \/ GetSubmissionNonce
  \/ SomeRefund
  \/ RestartRefunder

\* Maintenance runs for every block, the refunder every 30 seconds, and time goes on.
\* The node can be reached now and then, and what waits in the pool is mined.
Accepted == SomeRefund /\ pending' # pending
Fairness ==
  /\ WF_vars(Tick) /\ WF_vars(Index) /\ WF_vars(Identify) /\ WF_vars(GetSubmissionNonce)
  /\ WF_vars(SomeRefund) /\ SF_vars(Accepted) /\ SF_vars(Mine)

Spec == Init /\ [][Next]_vars /\ Fairness

----------------------------------------------------------------------------
(* Properties.                                                             *)

\* An order that auctions may hold (no placement_error) has a row in order_quotes,
\* without which refundable_orders would never return it.
OfferedCanBeRefunded ==
  \A u \in Uid : placed_at[u] # 0 /\ u \notin placement_errors => u \in order_quotes

\* After an update is_reorged, which no query reads, tells exactly the placements
\* that are no longer on the chain, and the others name their block.
MarkedIfReorganised ==
  view = chain =>
    \A u \in Uid : placed_at[u] # 0 =>
      IF u \in is_reorged
      THEN ~Has(chain, u, "Placement")
      ELSE placed_at[u] <= Len(chain) /\ Places(placed_at[u], u)

\* A submission is never underpriced: while the memory of the gas price is not lost
\* and its bump stays below the cap, it outbids what waits with its nonce.
NeverUnderpriced ==
  [][last' # last /\ last' # NoSubmission /\ lost = {} /\ GAS_PRICE_BUMP(last.fee) <= MAX_GAS_PRICE
       => \A tx \in SameNonce(last'.nonce) : Replaces(last', tx)]_vars

\* Whatever restarts, reorganisations and rejected submissions came before, an order
\* that was offered, expires unfilled and stays on the chain gets its funds back.
EventuallyRefunded ==
  \A u \in Uid :
    (u \in order_quotes /\ Expired(u) /\ Owned(u) /\ ~Has(chain, u, "Trade"))
      ~> ~Owned(u)
============================================================================
