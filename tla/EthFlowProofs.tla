--------------------------- MODULE EthFlowProofs ---------------------------
(***************************************************************************)
(* Proofs for EthFlow: the rows of the indexer follow the chain through    *)
(* every reorganisation, offered orders can be refunded, and the refunder  *)
(* outbids itself, for any orders, gas prices and bounds.                  *)
(***************************************************************************)
EXTENDS EthFlow, FiniteSetTheorems, TLAPS

Tx == [nonce : Int, fee : Nat, tip : Nat, uids : SUBSET Uid]
Block == [kind : {"Placement", "Trade", "Invalidation", "Refund"}, uids : SUBSET Uid, tx : Tx]

TypeInv ==
  /\ now \in Nat /\ faults \in Nat
  /\ chain \in Seq(Block) /\ view \in Seq(Block)
  /\ placed_at \in [Uid -> Nat]
  /\ order_quotes \subseteq Uid
  /\ to_refund \in SUBSET Uid /\ nonce \in Int
  /\ last \in [nonce : Int, fee : Nat, tip : Nat]
  /\ pending \in SUBSET Tx

\* The contract takes an order once.
PlacedOnce(blocks) ==
  \A u \in Uid : \A m, n \in DOMAIN blocks :
    (/\ blocks[m].kind = "Placement" /\ u \in blocks[m].uids
     /\ blocks[n].kind = "Placement" /\ u \in blocks[n].uids) => m = n

\* A row of the indexer tells what the indexed blocks hold of its order.
RowInv ==
  \A u \in Uid :
    IF placed_at[u] = 0 \/ u \in is_reorged
    THEN ~Has(view, u, "Placement")
    ELSE /\ placed_at[u] \in DOMAIN view
         /\ view[placed_at[u]].kind = "Placement" /\ u \in view[placed_at[u]].uids

\* Fees keep to their cap.
LastInv == last.tip <= last.fee /\ last.fee <= MAX_GAS_PRICE

\* While nothing was lost, what waits in the pool can still be mined, has the nonce of
\* the submission that is remembered, and costs no more.
PoolInv ==
  (lost = {} /\ pending # {}) =>
    /\ nonce \in {-1, MinedCount(chain)}
    /\ \A tx \in pending :
         /\ tx.nonce = MinedCount(chain) /\ tx.nonce = last.nonce
         /\ tx.fee >= 40 /\ tx.tip >= 40
         /\ tx.fee <= last.fee /\ tx.tip <= last.tip

IInv ==
  /\ TypeInv /\ PlacedOnce(chain) /\ PlacedOnce(view) /\ RowInv
  /\ LastInv /\ PoolInv /\ OfferedCanBeRefunded

----------------------------------------------------------------------------
(* The chain.                                                              *)

\* transaction_count is a number.
LEMMA MinedCountNat ==
  ASSUME NEW blocks \in Seq(Block)
  PROVE  MinedCount(blocks) \in Nat
<1> DEFINE Refunds == {n \in DOMAIN blocks : blocks[n].kind = "Refund"}
<1>1. IsFiniteSet(1 .. Len(blocks))
  BY FS_Interval
<1>2. Refunds \subseteq 1 .. Len(blocks)
  OBVIOUS
<1>3. IsFiniteSet(Refunds)
  BY <1>1, <1>2, FS_Subset
<1> QED
  BY <1>3, FS_CardinalityType DEF MinedCount

\* A block without a refund uses no nonce.
LEMMA MinedCountAppend ==
  ASSUME NEW blocks \in Seq(Block), NEW b \in Block, b.kind # "Refund"
  PROVE  MinedCount(Append(blocks, b)) = MinedCount(blocks)
<1>1. {n \in DOMAIN Append(blocks, b) : Append(blocks, b)[n].kind = "Refund"}
        = {n \in DOMAIN blocks : blocks[n].kind = "Refund"}
  OBVIOUS
<1> QED
  BY <1>1 DEF MinedCount

\* A block without a refund that is reorganised away gives no nonce back.
LEMMA MinedCountDrop ==
  ASSUME NEW blocks \in Seq(Block), blocks # <<>>, blocks[Len(blocks)].kind # "Refund"
  PROVE  MinedCount(SubSeq(blocks, 1, Len(blocks) - 1)) = MinedCount(blocks)
<1> DEFINE short == SubSeq(blocks, 1, Len(blocks) - 1)
<1>1. /\ DOMAIN short = 1 .. Len(blocks) - 1 /\ DOMAIN blocks = 1 .. Len(blocks)
      /\ Len(blocks) \in Nat /\ Len(blocks) > 0
      /\ \A n \in 1 .. Len(blocks) - 1 : short[n] = blocks[n]
  OBVIOUS
<1> HIDE DEF short
<1>2. {n \in DOMAIN short : short[n].kind = "Refund"}
        = {n \in DOMAIN blocks : blocks[n].kind = "Refund"}
  BY <1>1
<1> QED
  BY <1>2 DEF MinedCount, short

\* What the chain gains at its end was not placed before.
LEMMA PlacedOnceAppend ==
  ASSUME NEW blocks \in Seq(Block), NEW b \in Block, PlacedOnce(blocks),
         b.kind = "Placement" => \A u \in b.uids : ~Has(blocks, u, "Placement")
  PROVE  PlacedOnce(Append(blocks, b))
<1> DEFINE new == Append(blocks, b)
<1>1. /\ DOMAIN blocks = 1 .. Len(blocks) /\ Len(blocks) \in Nat
      /\ DOMAIN new = 1 .. Len(blocks) + 1
      /\ \A n \in 1 .. Len(blocks) : new[n] = blocks[n]
      /\ new[Len(blocks) + 1] = b
  OBVIOUS
<1> HIDE DEF new
<1>2. PlacedOnce(new)
  BY <1>1 DEF PlacedOnce, Has
<1> QED
  BY <1>2 DEF new

\* A shorter chain places nothing twice.
LEMMA PlacedOnceDrop ==
  ASSUME NEW blocks \in Seq(Block), PlacedOnce(blocks), blocks # <<>>
  PROVE  /\ PlacedOnce(SubSeq(blocks, 1, Len(blocks) - 1))
         /\ SubSeq(blocks, 1, Len(blocks) - 1) \in Seq(Block)
<1> DEFINE short == SubSeq(blocks, 1, Len(blocks) - 1)
<1>1. /\ DOMAIN short = 1 .. Len(blocks) - 1 /\ DOMAIN blocks = 1 .. Len(blocks)
      /\ Len(blocks) \in Nat /\ Len(blocks) > 0
      /\ \A n \in 1 .. Len(blocks) - 1 : short[n] = blocks[n]
      /\ short \in Seq(Block)
  OBVIOUS
<1> HIDE DEF short
<1>2. PlacedOnce(short)
  BY <1>1 DEF PlacedOnce
<1> QED
  BY <1>1, <1>2 DEF short

----------------------------------------------------------------------------
(* Gas prices.                                                             *)

\* A bump is more than nodes ask for, whatever is lost to rounding.
LEMMA BumpReplaces ==
  ASSUME NEW f \in Nat, f >= 40
  PROVE  GAS_PRICE_BUMP(f) \in Nat /\ 10 * GAS_PRICE_BUMP(f) >= 11 * f
BY DEF GAS_PRICE_BUMP

\* It never lowers a price.
LEMMA BumpRaises ==
  ASSUME NEW f \in Nat
  PROVE  GAS_PRICE_BUMP(f) \in Nat /\ GAS_PRICE_BUMP(f) >= f
BY DEF GAS_PRICE_BUMP

\* A higher price is bumped to a higher one.
LEMMA BumpMonotonic ==
  ASSUME NEW f \in Nat, NEW g \in Nat, f <= g
  PROVE  GAS_PRICE_BUMP(f) <= GAS_PRICE_BUMP(g)
BY DEF GAS_PRICE_BUMP

\* What calculate_submission_gas_price promises: prices keep to their bounds and, for
\* the nonce of the last submission, do not go down; below the cap they are bumped.
LEMMA SubmissionGasPrice ==
  ASSUME last \in [nonce : Int, fee : Nat, tip : Nat], LastInv,
         NEW estimate \in Estimate, NEW n \in Int
  PROVE  LET gas == calculate_submission_gas_price(estimate, n)
         IN  /\ gas \in [nonce : Int, fee : Nat, tip : Nat] /\ gas.nonce = n
             /\ gas.fee >= 40 /\ gas.tip >= 40
             /\ gas.tip <= gas.fee /\ gas.fee <= MAX_GAS_PRICE
             /\ n = last.nonce =>
                  /\ gas.fee >= last.fee /\ gas.tip >= last.tip
                  /\ GAS_PRICE_BUMP(last.fee) <= MAX_GAS_PRICE =>
                       gas.fee >= GAS_PRICE_BUMP(last.fee) /\ gas.tip >= GAS_PRICE_BUMP(last.tip)
<1> DEFINE gas == calculate_submission_gas_price(estimate, n)
           fee == GAS_PRICE_BUFFER(estimate)
           tip == MinOf(START_PRIORITY_FEE_TIP, fee)
           raised == IF n = last.nonce THEN MaxOf(fee, GAS_PRICE_BUMP(last.fee)) ELSE fee
           capped == MinOf(raised, MAX_GAS_PRICE)
           raised_tip == IF n = last.nonce THEN MaxOf(tip, GAS_PRICE_BUMP(last.tip)) ELSE tip
<1>1. gas = [nonce |-> n, fee |-> capped, tip |-> MinOf(raised_tip, capped)]
  BY DEF calculate_submission_gas_price
<1>2. fee \in Nat /\ fee >= 40
  BY FeeAssumption DEF GAS_PRICE_BUFFER
<1> HIDE DEF fee
<1>3. tip \in Nat /\ tip >= 40
  BY <1>2, FeeAssumption DEF MinOf
<1> HIDE DEF tip
<1> DEFINE bump == GAS_PRICE_BUMP(last.fee)
           bump_tip == GAS_PRICE_BUMP(last.tip)
<1>4. /\ bump \in Nat /\ bump_tip \in Nat /\ bump >= last.fee /\ bump_tip >= last.tip
      /\ bump_tip <= bump
  BY BumpRaises, BumpMonotonic DEF LastInv
<1>5. /\ raised = (IF n = last.nonce THEN MaxOf(fee, bump) ELSE fee)
      /\ raised_tip = (IF n = last.nonce THEN MaxOf(tip, bump_tip) ELSE tip)
  OBVIOUS
<1> HIDE DEF bump, bump_tip, raised, raised_tip
<1>6. /\ raised \in Nat /\ raised >= 40 /\ raised_tip \in Nat /\ raised_tip >= 40
      /\ n = last.nonce => raised >= bump /\ raised_tip >= bump_tip
  BY <1>2, <1>3, <1>4, <1>5 DEF MaxOf
<1>7. /\ capped \in Nat /\ capped >= 40 /\ capped <= MAX_GAS_PRICE
      /\ n = last.nonce => capped >= last.fee
      /\ (n = last.nonce /\ bump <= MAX_GAS_PRICE) => capped >= bump
  BY <1>4, <1>6, FeeAssumption DEF MinOf, LastInv
<1> HIDE DEF capped
<1> DEFINE new_tip == MinOf(raised_tip, capped)
<1>8. /\ new_tip \in Nat /\ new_tip >= 40 /\ new_tip <= capped
      /\ n = last.nonce => new_tip >= last.tip
      /\ (n = last.nonce /\ bump <= MAX_GAS_PRICE) => new_tip >= bump_tip
  BY <1>4, <1>6, <1>7 DEF MinOf, LastInv
<1>9. gas = [nonce |-> n, fee |-> capped, tip |-> new_tip]
  BY <1>1
<1> HIDE DEF gas, new_tip
<1>10. /\ gas \in [nonce : Int, fee : Nat, tip : Nat]
       /\ gas.nonce = n /\ gas.fee = capped /\ gas.tip = new_tip
  BY <1>7, <1>8, <1>9
<1> QED
  BY <1>7, <1>8, <1>10 DEF gas, bump, bump_tip

----------------------------------------------------------------------------
(* The steps.                                                              *)

\* Nothing is placed and nothing was submitted.
LEMMA InitIInv == Init => IInv
<1> SUFFICES ASSUME Init PROVE IInv
  OBVIOUS
<1>1. TypeInv
  BY DEF Init, TypeInv, SubmitterInit, NoSubmission
<1>2. PlacedOnce(chain) /\ PlacedOnce(view) /\ RowInv
  BY DEF Init, PlacedOnce, RowInv, Has
<1>3. LastInv /\ PoolInv /\ OfferedCanBeRefunded
  BY FeeAssumption DEF Init, SubmitterInit, NoSubmission, LastInv, PoolInv, OfferedCanBeRefunded
<1> QED
  BY <1>1, <1>2, <1>3 DEF IInv

\* A user's block uses no nonce of the refunder.
LEMMA UserEventIInv ==
  ASSUME IInv, NEW u \in Uid, NEW kind \in {"Placement", "Trade", "Invalidation"},
         UserEvent(u, kind)
  PROVE  IInv'
<1> DEFINE b == [kind |-> kind, uids |-> {u}, tx |-> NoTx]
<1>1. /\ b \in Block /\ b.kind = kind /\ b.uids = {u} /\ chain' = Append(chain, b)
      /\ UNCHANGED <<now, database, to_refund, nonce, faults, submitter>>
      /\ kind = "Placement" => ~Has(chain, u, "Placement")
  BY DEF UserEvent, Grow, Block, Tx, NoTx
<1>2. /\ UNCHANGED <<view, placed_at, placement_errors, is_reorged, order_quotes>>
      /\ UNCHANGED <<last, pending, lost>>
  BY <1>1 DEF database, submitter
<1> HIDE DEF b
<1>3. chain \in Seq(Block) /\ PlacedOnce(chain)
  BY DEF IInv, TypeInv
<1>4. PlacedOnce(Append(chain, b)) /\ MinedCount(Append(chain, b)) = MinedCount(chain)
  BY <1>1, <1>3, PlacedOnceAppend, MinedCountAppend
<1>5. TypeInv'
  BY <1>1, <1>2 DEF IInv, TypeInv
<1>6. PlacedOnce(chain)' /\ PlacedOnce(view)' /\ RowInv'
  BY <1>1, <1>2, <1>4 DEF IInv, PlacedOnce, RowInv, Has
<1>7. PoolInv'
  BY <1>1, <1>2, <1>4 DEF IInv, PoolInv, MinedCount
<1>8. LastInv' /\ OfferedCanBeRefunded'
  BY <1>1, <1>2 DEF IInv, LastInv, OfferedCanBeRefunded
<1> QED
  BY <1>5, <1>6, <1>7, <1>8 DEF IInv

\* A mined refund takes all that wait with its nonce out of the pool; when nothing
\* was lost, that is the whole pool.
LEMMA MineRefundIInv ==
  ASSUME IInv, NEW tx \in pending, MineRefund(tx)
  PROVE  IInv'
<1> DEFINE uids == {u \in tx.uids : Owned(u) /\ Expired(u)}
           b == [kind |-> "Refund", uids |-> uids, tx |-> tx]
<1>1. /\ chain' = Append(chain, b) /\ UNCHANGED <<now, database, to_refund, nonce, faults>>
      /\ tx.nonce = MinedCount(chain)
      /\ pending' = pending \ SameNonce(tx.nonce) /\ last' = last
      /\ lost' = IF pending' = {} THEN {} ELSE lost
  BY DEF MineRefund, Grow, Mined
<1>2. tx \in Tx /\ uids \in SUBSET Uid
  BY DEF IInv, TypeInv, Tx
<1> HIDE DEF uids
<1>3. b \in Block /\ b.kind = "Refund"
  BY <1>2 DEF Block
<1> HIDE DEF b
<1>4. UNCHANGED <<view, placed_at, placement_errors, is_reorged, order_quotes>>
  BY <1>1 DEF database
<1>5. PlacedOnce(Append(chain, b)) /\ Append(chain, b) \in Seq(Block)
  BY <1>3, PlacedOnceAppend DEF IInv, TypeInv
<1>6. TypeInv'
  BY <1>1, <1>4, <1>5 DEF IInv, TypeInv
<1>7. PlacedOnce(chain)' /\ PlacedOnce(view)' /\ RowInv'
  BY <1>1, <1>4, <1>5 DEF IInv, PlacedOnce, RowInv, Has
<1>8. PoolInv'
  <2> SUFFICES ASSUME lost' = {}, pending' # {} PROVE FALSE
    BY DEF PoolInv
  <2>1. lost = {} /\ pending # {}
    BY <1>1
  <2>2. \A x \in pending : x.nonce = tx.nonce
    BY <1>1, <2>1 DEF IInv, PoolInv
  <2> QED
    BY <1>1, <2>2 DEF SameNonce
<1>9. LastInv' /\ OfferedCanBeRefunded'
  BY <1>1, <1>4 DEF IInv, LastInv, OfferedCanBeRefunded
<1> QED
  BY <1>6, <1>7, <1>8, <1>9 DEF IInv

\* A refund that is reorganised away goes back to the pool, which the memory of the
\* last submission no longer describes.
LEMMA ReorgIInv ==
  ASSUME IInv, Reorg
  PROVE  IInv'
<1> DEFINE short == SubSeq(chain, 1, Len(chain) - 1)
           top == chain[Len(chain)]
<1>1. /\ chain' = short /\ faults' = faults + 1 /\ chain # <<>>
      /\ UNCHANGED <<now, database, to_refund, nonce>>
      /\ IF top.kind = "Refund" THEN Unmined(top.tx) ELSE UNCHANGED submitter
  BY DEF Reorg
<1>2. UNCHANGED <<view, placed_at, placement_errors, is_reorged, order_quotes>>
  BY <1>1 DEF database
<1>3. PlacedOnce(short) /\ short \in Seq(Block)
  BY <1>1, PlacedOnceDrop DEF IInv, TypeInv
<1>4. top \in Block
  BY <1>1 DEF IInv, TypeInv
<1>5. top.kind # "Refund" => MinedCount(short) = MinedCount(chain)
  BY <1>1, MinedCountDrop DEF IInv, TypeInv
<1> HIDE DEF short, top
<1>6. /\ last' = last /\ pending' \in SUBSET Tx
      /\ \/ /\ top.kind # "Refund" /\ UNCHANGED <<pending, lost>>
         \/ lost' # {}
  BY <1>1, <1>4 DEF Unmined, submitter, Block, IInv, TypeInv
<1>7. TypeInv'
  BY <1>1, <1>2, <1>3, <1>6 DEF IInv, TypeInv
<1>8. PlacedOnce(chain)' /\ PlacedOnce(view)' /\ RowInv'
  BY <1>1, <1>2, <1>3 DEF IInv, PlacedOnce, RowInv, Has
<1>9. PoolInv'
  BY <1>1, <1>5, <1>6 DEF IInv, PoolInv, MinedCount
<1>10. LastInv' /\ OfferedCanBeRefunded'
  BY <1>1, <1>2, <1>6 DEF IInv, LastInv, OfferedCanBeRefunded
<1> QED
  BY <1>7, <1>8, <1>9, <1>10 DEF IInv

\* An update: below k the indexed blocks are those of the chain, and every row at or
\* above k is either marked or placed anew.
LEMMA UpdateEventsIInv ==
  ASSUME IInv, NEW k \in 1 .. Len(chain) + 1, NEW failing \in SUBSET Uid,
         UpdateEvents(k, failing)
  PROVE  IInv'
<1> DEFINE placed == PlacedIn(k)
           bad == {u \in placed : QuoteError(u, failing)}
<1>1. /\ FirstBlock(k) /\ view' = chain
      /\ placed_at' = [u \in Uid |-> IF u \in placed THEN BlockOf(u, k) ELSE placed_at[u]]
      /\ placement_errors' = (placement_errors \ placed) \cup bad
      /\ is_reorged' = (is_reorged \cup {u \in Uid : placed_at[u] >= k}) \ placed
      /\ order_quotes' = order_quotes \cup (placed \ bad)
      /\ UNCHANGED <<now, chain, to_refund, nonce, faults, submitter>>
  BY DEF UpdateEvents
<1>2. last' = last /\ pending' = pending /\ lost' = lost
  BY <1>1 DEF submitter
<1>3. placed \subseteq Uid /\ bad \subseteq placed
  BY DEF PlacedIn
<1>4. /\ chain \in Seq(Block) /\ view \in Seq(Block) /\ Len(chain) \in Nat /\ Len(view) \in Nat
      /\ DOMAIN chain = 1 .. Len(chain) /\ DOMAIN view = 1 .. Len(view)
      /\ placed_at \in [Uid -> Nat] /\ k \in Nat /\ k >= 1 /\ order_quotes \subseteq Uid
  BY DEF IInv, TypeInv
<1>5. \A u \in placed : BlockOf(u, k) \in k .. Len(chain) /\ Places(BlockOf(u, k), u)
  BY DEF PlacedIn, BlockOf
<1>6. \A u \in Uid \ placed : \A n \in k .. Len(chain) : ~Places(n, u)
  BY DEF PlacedIn
<1>7. \A n \in 1 .. k - 1 : n \in DOMAIN view /\ n \in DOMAIN chain /\ view[n] = chain[n]
  BY <1>1 DEF FirstBlock, Agree
<1> HIDE DEF placed, bad
<1>8. TypeInv'
  <2>1. placed_at' \in [Uid -> Nat]
    BY <1>1, <1>3, <1>4, <1>5
  <2> QED
    BY <1>1, <1>2, <1>3, <1>4, <2>1 DEF IInv, TypeInv
<1>9. OfferedCanBeRefunded'
  BY <1>1, <1>3, <1>4 DEF IInv, OfferedCanBeRefunded
<1>10. PlacedOnce(chain)' /\ PlacedOnce(view)'
  BY <1>1 DEF IInv, PlacedOnce
<1>11. RowInv'
  <2> SUFFICES ASSUME NEW u \in Uid
               PROVE  IF placed_at'[u] = 0 \/ u \in is_reorged'
                      THEN \A n \in DOMAIN chain : ~Places(n, u)
                      ELSE placed_at'[u] \in DOMAIN chain /\ Places(placed_at'[u], u)
    BY <1>1 DEF RowInv, Has, Places
  <2>1. CASE u \in placed
    BY <1>1, <1>4, <1>5, <2>1
  <2>2. CASE u \notin placed
    <3>1. /\ placed_at'[u] = placed_at[u]
          /\ u \in is_reorged' <=> u \in is_reorged \/ placed_at[u] >= k
      BY <1>1, <2>2
    <3>2. CASE placed_at[u] = 0 \/ u \in is_reorged
      <4>1. \A n \in DOMAIN view : ~(view[n].kind = "Placement" /\ u \in view[n].uids)
        BY <3>2 DEF IInv, RowInv, Has
      <4>2. \A n \in DOMAIN chain : ~Places(n, u)
        BY <1>4, <1>6, <1>7, <2>2, <4>1 DEF Places
      <4> QED
        BY <1>4, <3>1, <3>2, <4>2
    <3>3. CASE placed_at[u] # 0 /\ u \notin is_reorged
      <4>1. /\ placed_at[u] \in DOMAIN view
            /\ view[placed_at[u]].kind = "Placement" /\ u \in view[placed_at[u]].uids
        BY <3>3 DEF IInv, RowInv
      <4>2. CASE placed_at[u] >= k
        <5>1. ASSUME NEW n \in DOMAIN chain, Places(n, u) PROVE FALSE
          <6>1. n < k
            BY <1>4, <1>6, <2>2, <5>1
          <6>2. n \in DOMAIN view /\ view[n].kind = "Placement" /\ u \in view[n].uids
            BY <1>4, <1>7, <5>1, <6>1 DEF Places
          <6> QED
            BY <4>1, <4>2, <6>1, <6>2, <1>4 DEF IInv, PlacedOnce
        <5> QED
          BY <3>1, <4>2, <5>1
      <4>3. CASE placed_at[u] < k
        <5>1. placed_at[u] \in 1 .. k - 1
          BY <1>4, <4>1, <4>3
        <5>2. placed_at[u] \in DOMAIN chain /\ Places(placed_at[u], u)
          BY <1>7, <4>1, <5>1 DEF Places
        <5> QED
          BY <1>4, <3>1, <3>3, <4>3, <5>2
      <4> QED
        BY <1>4, <4>2, <4>3
    <3> QED
      BY <3>2, <3>3
  <2> QED
    BY <2>1, <2>2
<1>12. PoolInv' /\ LastInv'
  BY <1>1, <1>2 DEF IInv, PoolInv, LastInv, MinedCount
<1> QED
  BY <1>8, <1>9, <1>10, <1>11, <1>12 DEF IInv

\* A submission is remembered whether or not the node takes it.
LEMMA RefundIInv ==
  ASSUME IInv, NEW estimate \in Estimate, Refund(estimate)
  PROVE  /\ IInv'
         /\ (lost = {} /\ GAS_PRICE_BUMP(last.fee) <= MAX_GAS_PRICE) =>
              \A tx \in SameNonce(last'.nonce) : Replaces(last', tx)
<1> DEFINE gas == calculate_submission_gas_price(estimate, nonce)
           new == [nonce |-> gas.nonce, fee |-> gas.fee, tip |-> gas.tip, uids |-> to_refund]
           taken == nonce = MinedCount(chain) /\ \A old \in SameNonce(nonce) : Replaces(gas, old)
<1>1. /\ last' = gas /\ lost' = lost /\ to_refund' = {} /\ nonce' = -1 /\ nonce # -1
      /\ \/ pending' = pending
         \/ taken /\ pending' = (pending \ SameNonce(nonce)) \cup {new}
      /\ UNCHANGED <<now, chain, database, faults>>
  BY DEF Refund, Submit
<1>2. UNCHANGED <<view, placed_at, placement_errors, is_reorged, order_quotes>>
  BY <1>1 DEF database
<1>3. /\ gas \in [nonce : Int, fee : Nat, tip : Nat] /\ gas.nonce = nonce
      /\ gas.fee >= 40 /\ gas.tip >= 40
      /\ gas.tip <= gas.fee /\ gas.fee <= MAX_GAS_PRICE
      /\ nonce = last.nonce =>
           /\ gas.fee >= last.fee /\ gas.tip >= last.tip
           /\ GAS_PRICE_BUMP(last.fee) <= MAX_GAS_PRICE =>
                gas.fee >= GAS_PRICE_BUMP(last.fee) /\ gas.tip >= GAS_PRICE_BUMP(last.tip)
  BY SubmissionGasPrice DEF IInv, TypeInv
<1> HIDE DEF gas
<1>4. /\ new \in Tx /\ new.nonce = nonce /\ new.fee = gas.fee /\ new.tip = gas.tip
  BY <1>3 DEF IInv, TypeInv, Tx
<1> HIDE DEF new
<1>5. last \in [nonce : Int, fee : Nat, tip : Nat] /\ pending \in SUBSET Tx
  BY DEF IInv, TypeInv
<1>6. ASSUME lost = {}, NEW tx \in pending
      PROVE  /\ tx.nonce = MinedCount(chain) /\ tx.nonce = nonce /\ nonce = last.nonce
             /\ tx.fee \in Nat /\ tx.tip \in Nat /\ tx.fee >= 40 /\ tx.tip >= 40
             /\ tx.fee <= last.fee /\ tx.tip <= last.tip
  BY <1>1, <1>5, <1>6 DEF IInv, PoolInv, Tx
<1>7. TypeInv'
  BY <1>1, <1>2, <1>3, <1>4 DEF IInv, TypeInv
<1>8. PlacedOnce(chain)' /\ PlacedOnce(view)' /\ RowInv'
  BY <1>1, <1>2 DEF IInv, PlacedOnce, RowInv, Has
<1>9. LastInv' /\ OfferedCanBeRefunded'
  BY <1>1, <1>2, <1>3 DEF IInv, LastInv, OfferedCanBeRefunded
<1>10. PoolInv'
  <2> SUFFICES ASSUME lost = {}, NEW tx \in pending'
               PROVE  /\ tx.nonce = MinedCount(chain) /\ tx.nonce = gas.nonce
                      /\ tx.fee >= 40 /\ tx.tip >= 40
                      /\ tx.fee <= gas.fee /\ tx.tip <= gas.tip
    BY <1>1 DEF PoolInv, MinedCount
  <2>1. CASE tx \in pending
    BY <1>3, <1>5, <1>6, <2>1
  <2>2. CASE tx \notin pending
    <3>1. taken /\ tx = new
      BY <1>1, <2>2
    <3> QED
      BY <1>3, <1>4, <3>1
  <2> QED
    BY <2>1, <2>2
<1>11. ASSUME lost = {}, GAS_PRICE_BUMP(last.fee) <= MAX_GAS_PRICE,
              NEW tx \in SameNonce(last'.nonce)
       PROVE  Replaces(last', tx)
  <2>1. tx \in pending
    BY DEF SameNonce
  <2>2. gas.fee >= GAS_PRICE_BUMP(last.fee) /\ gas.tip >= GAS_PRICE_BUMP(last.tip)
    BY <1>3, <1>6, <1>11, <2>1
  <2>3. /\ tx.fee \in Nat /\ tx.tip \in Nat /\ last.fee \in Nat /\ last.tip \in Nat
        /\ tx.fee <= last.fee /\ tx.tip <= last.tip /\ last.fee >= 40 /\ last.tip >= 40
    BY <1>5, <1>6, <1>11, <2>1
  <2>4. /\ GAS_PRICE_BUMP(last.fee) \in Nat /\ 10 * GAS_PRICE_BUMP(last.fee) >= 11 * last.fee
        /\ GAS_PRICE_BUMP(last.tip) \in Nat /\ 10 * GAS_PRICE_BUMP(last.tip) >= 11 * last.tip
    BY <2>3, BumpReplaces
  <2>5. gas.fee \in Nat /\ gas.tip \in Nat
    BY <1>3
  <2>6. 10 * gas.fee >= 11 * tx.fee /\ 10 * gas.tip >= 11 * tx.tip
    BY <2>2, <2>3, <2>4, <2>5
  <2> QED
    BY <1>1, <2>6 DEF Replaces
<1> QED
  BY <1>7, <1>8, <1>9, <1>10, <1>11 DEF IInv

\* The other steps of the refunder, restarts and time.
LEMMA QuietIInv ==
  ASSUME IInv,
         \/ Tick
         \/ RestartAutopilot
         \/ \E batch \in SUBSET Uid : IdentifyRefundable(batch)
         \/ GetSubmissionNonce
         \/ RestartRefunder
         \/ UNCHANGED vars
  PROVE  IInv' /\ (last' = last \/ last' = NoSubmission)
<1>1. /\ UNCHANGED <<chain, view, placed_at, placement_errors, is_reorged, order_quotes, pending>>
      /\ now' \in Nat /\ faults' \in Nat /\ to_refund' \in SUBSET Uid
  <2>1. now \in Nat /\ faults \in Nat /\ to_refund \in SUBSET Uid
    BY DEF IInv, TypeInv
  <2>2. ASSUME NEW batch \in SUBSET Uid, IdentifyRefundable(batch) PROVE <1>1!:
    BY <2>1, <2>2 DEF IdentifyRefundable, database, submitter
  <2>3. CASE Tick \/ RestartAutopilot \/ GetSubmissionNonce
    BY <2>1, <2>3 DEF Tick, RestartAutopilot, GetSubmissionNonce, database, submitter
  <2>4. CASE RestartRefunder
    BY <2>1, <2>4 DEF RestartRefunder, RestartSubmitter, database
  <2>5. CASE UNCHANGED vars
    BY <2>1, <2>5 DEF vars
  <2> QED
    BY <2>2, <2>3, <2>4, <2>5
<1>2. MinedCount(chain) \in Nat /\ nonce \in Int
  BY MinedCountNat DEF IInv, TypeInv
<1>3. \/ last' = last /\ lost' = lost /\ nonce' \in {nonce, MinedCount(chain)}
      \/ last' = NoSubmission /\ nonce' = -1 /\ (pending = {} \/ lost' # {})
  BY <1>2 DEF Tick, RestartAutopilot, IdentifyRefundable, GetSubmissionNonce,
         RestartRefunder, RestartSubmitter, vars, database, submitter
<1>4. TypeInv'
  BY <1>1, <1>2, <1>3 DEF IInv, TypeInv, NoSubmission
<1>5. PlacedOnce(chain)' /\ PlacedOnce(view)' /\ RowInv' /\ OfferedCanBeRefunded'
  BY <1>1 DEF IInv, PlacedOnce, RowInv, Has, OfferedCanBeRefunded
<1>6. LastInv'
  BY <1>3, FeeAssumption DEF IInv, LastInv, NoSubmission
<1>7. PoolInv'
  BY <1>1, <1>3 DEF IInv, PoolInv, MinedCount
<1> QED
  BY <1>3, <1>4, <1>5, <1>6, <1>7 DEF IInv

----------------------------------------------------------------------------

\* Every step keeps the invariant, and what is submitted outbids the pool.
LEMMA NextIInv ==
  ASSUME IInv, [Next]_vars
  PROVE  /\ IInv'
         /\ (/\ last' # last /\ last' # NoSubmission /\ lost = {}
             /\ GAS_PRICE_BUMP(last.fee) <= MAX_GAS_PRICE)
              => \A tx \in SameNonce(last'.nonce) : Replaces(last', tx)
<1>1. CASE \E u \in Uid, kind \in {"Placement", "Trade", "Invalidation"} : UserEvent(u, kind)
  <2>1. last' = last
    BY <1>1 DEF UserEvent, submitter
  <2> QED
    BY <1>1, <2>1, UserEventIInv
<1>2. CASE Mine
  <2>1. last' = last
    BY <1>2 DEF Mine, MineRefund, Mined
  <2> QED
    BY <1>2, <2>1, MineRefundIInv DEF Mine
<1>3. CASE Reorg
  <2>1. last' = last
    BY <1>3 DEF Reorg, Unmined, submitter
  <2> QED
    BY <1>3, <2>1, ReorgIInv
<1>4. CASE Index
  <2>1. last' = last
    BY <1>4 DEF Index, UpdateEvents, submitter
  <2> QED
    BY <1>4, <2>1, UpdateEventsIInv DEF Index
<1>5. CASE SomeRefund
  BY <1>5, RefundIInv DEF SomeRefund
<1>6. CASE Tick \/ RestartAutopilot \/ Identify \/ GetSubmissionNonce \/ RestartRefunder
           \/ UNCHANGED vars
  BY <1>6, QuietIInv DEF Identify
<1> QED
  BY <1>1, <1>2, <1>3, <1>4, <1>5, <1>6 DEF Next

\* Every order that may be in an auction has the row the refunder looks for.
THEOREM OfferedOrdersCanBeRefunded == Spec => []OfferedCanBeRefunded
<1>1. IInv => OfferedCanBeRefunded
  BY DEF IInv
<1>2. IInv /\ [Next]_vars => IInv'
  BY NextIInv
<1> QED
  BY <1>1, <1>2, InitIInv, PTL DEF Spec

\* However the chain was reorganised and the autopilot restarted, after an update the
\* rows mark exactly the placements that are gone.
THEOREM ReorganisedAreMarked == Spec => []MarkedIfReorganised
<1>1. IInv => MarkedIfReorganised
  <2> SUFFICES ASSUME IInv, view = chain, NEW u \in Uid, placed_at[u] # 0
               PROVE  IF u \in is_reorged
                      THEN ~Has(chain, u, "Placement")
                      ELSE placed_at[u] <= Len(chain) /\ Places(placed_at[u], u)
    BY DEF MarkedIfReorganised
  <2>1. DOMAIN chain = 1 .. Len(chain) /\ Len(chain) \in Nat
    BY DEF IInv, TypeInv
  <2> QED
    BY <2>1 DEF IInv, RowInv, Places
<1>2. IInv /\ [Next]_vars => IInv'
  BY NextIInv
<1> QED
  BY <1>1, <1>2, InitIInv, PTL DEF Spec

\* For all estimates, tips and caps: below the cap, and as long as the memory of the
\* last submission is good, a submission is never rejected as underpriced.
THEOREM SubmissionsReplace == Spec => NeverUnderpriced
<1> DEFINE A == last' # last /\ last' # NoSubmission /\ lost = {}
                /\ GAS_PRICE_BUMP(last.fee) <= MAX_GAS_PRICE
                => \A tx \in SameNonce(last'.nonce) : Replaces(last', tx)
<1>1. IInv /\ [Next]_vars => IInv' /\ [A]_vars
  BY NextIInv
<1>2. NeverUnderpriced <=> [][A]_vars
  BY DEF NeverUnderpriced
<1> HIDE DEF A
<1> QED
  BY <1>1, <1>2, InitIInv, PTL DEF Spec
============================================================================
