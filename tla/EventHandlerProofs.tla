------------------------- MODULE EventHandlerProofs -------------------------
(* Proofs about EventHandler, for every block tree and every value of the  *)
(* constants.                                                              *)
EXTENDS EventHandler, SequenceTheorems, FiniteSetTheorems, TLAPS

\* The node's answer to a range request is a list of blocks.
LEMMA BlocksType ==
  ASSUME head \in Block, NEW lo \in Nat, NEW hi \in Nat, hi <= Number[head]
  PROVE  Blocks(lo, hi) \in Seq(Block)
<1>1. Number[head] \in Nat /\ Chain[head] \in [0 .. Number[head] -> Block]
  BY NumberAssumption, ChainAssumption
<1>2. CASE hi - lo + 1 \in Nat
  <2>1. \A i \in 1 .. (hi - lo + 1) : lo + i - 1 \in 0 .. Number[head]
    BY <1>1, <1>2
  <2>2. \A i \in 1 .. (hi - lo + 1) : Chain[head][lo + i - 1] \in Block
    BY <1>1, <2>1
  <2> QED
    BY <1>2, <2>2, IsASeq DEF Blocks
<1>3. CASE hi - lo + 1 < 0
  <2>1. 1 .. (hi - lo + 1) = 1 .. 0
    BY <1>3
  <2> QED
    BY <2>1, IsASeq DEF Blocks
<1> QED
  BY <1>2, <1>3

\* A saturating difference is a natural number.
LEMMA SaturatingSubType ==
  ASSUME NEW a \in Nat, NEW b \in Nat
  PROVE  SaturatingSub(a, b) \in Nat
BY DEF SaturatingSub

\* The last element is an element.
LEMMA LastOfType ==
  ASSUME NEW S, NEW s \in Seq(S), s # <<>>
  PROVE  LastOf(s) \in S
BY DEF LastOf

\* Appending and replacing keep the store a set of events.
LEMMA StoreType ==
  ASSUME NEW rows \in SUBSET Event, NEW events \in SUBSET Event, NEW n
  PROVE  /\ AppendEvents(rows, events) \in SUBSET Event
         /\ ReplaceEvents(rows, events, n) \in SUBSET Event
BY DEF AppendEvents, ReplaceEvents, DeleteFrom

\* The events of a block are events.
LEMMA EventsType ==
  ASSUME NEW b \in Block
  PROVE  Events(b) \in SUBSET Event
BY DEF Event

\* BlocksFiltered picks list elements, also past the first chunk of queries.
LEMMA FilteredType ==
  ASSUME NEW blocks \in Seq(Block), NEW k \in 1 .. Len(blocks)
  PROVE  BlocksFiltered(blocks, k) \in Seq(Block)
<1>1. ASSUME NEW i \in 1 .. k
      PROVE  ((i - 1) % MAX_PARALLEL_RPC_CALLS) + 1 \in 1 .. Len(blocks)
  <2>1. i - 1 \in Nat /\ MAX_PARALLEL_RPC_CALLS \in Nat \ {0}
    BY ParallelAssumption
  <2>2. (i - 1) % MAX_PARALLEL_RPC_CALLS \in 0 .. (i - 1)
    BY <2>1, Z3
  <2> QED
    BY <2>2
<1>2. \A i \in 1 .. k : blocks[((i - 1) % MAX_PARALLEL_RPC_CALLS) + 1] \in Block
  BY <1>1
<1> QED
  BY <1>2, IsASeq DEF BlocksFiltered

\* The handler's memory stays a list of blocks.
LEMMA UpdateLastHandledBlocksType ==
  ASSUME last_handled_blocks \in Seq(Block),
         NEW blocks \in Seq(Block), UpdateLastHandledBlocks(blocks)
  PROVE  last_handled_blocks' \in Seq(Block)
<1>1. PICK ix \in IndexLists(last_handled_blocks) :
         last_handled_blocks' =
           Capped([k \in DOMAIN ix |-> last_handled_blocks[ix[k]]] \o blocks)
  BY DEF UpdateLastHandledBlocks
<1>2. PICK m \in 0 .. Len(last_handled_blocks) : ix \in [1 .. m -> DOMAIN last_handled_blocks]
  BY DEF IndexLists
<1> DEFINE kept == [k \in DOMAIN ix |-> last_handled_blocks[ix[k]]]
<1>3. kept \in Seq(Block)
  <2>1. \A k \in 1 .. m : last_handled_blocks[ix[k]] \in Block
    BY <1>2
  <2> QED
    BY <1>2, <2>1, IsASeq
<1> HIDE DEF kept
<1>4. kept \o blocks \in Seq(Block)
  BY <1>3
<1> QED
  <2> DEFINE all == kept \o blocks
  <2>1. all \in Seq(Block) /\ last_handled_blocks' = Capped(all)
    BY <1>1, <1>4 DEF kept
  <2> HIDE DEF all
  <2>2. SaturatingSub(Len(all), MAX_REORG_BLOCK_COUNT) \in Nat
    BY <2>1, ReorgAssumption DEF SaturatingSub
  <2> QED
    BY <2>1, <2>2, SubSeqProperties DEF Capped

----------------------------------------------------------------------------
\* Leaving update_events resets its locals.
LEMMA ReturnType ==
  ASSUME Return, head' \in Block, top' \in Nat, quiet' \in BOOLEAN,
         last_handled_blocks' \in Seq(Block), store' \in SUBSET Event
  PROVE  TypeOK'
<1>1. <<>> \in Seq(Block) /\ NoRange \in Nat \X Nat /\ {} \in SUBSET Event
  BY DEF NoRange
<1> QED
  BY <1>1 DEF TypeOK, Return

\* The blocks left after the common part are a list of blocks.
LEMMA DetectType ==
  ASSUME NEW old \in Seq(Block), NEW new \in Seq(Block),
         NEW path \in DetectReorgPath(old, new)
  PROVE  path.blocks \in Seq(Block) /\ path.reorg \in BOOLEAN
<1>1. CASE Common(old, new) = {}
  <2>1. path = [blocks |-> new, reorg |-> old # <<>>]
    BY <1>1 DEF DetectReorgPath
  <2> QED
    BY <2>1, Zenon
<1>2. CASE Common(old, new) # {}
  <2>1. PICK p \in Common(old, new) :
          path = [blocks |-> SubSeq(new, p[2] + 1, Len(new)), reorg |-> old[p[1]] # LastOf(old)]
    BY <1>2 DEF DetectReorgPath
  <2>2. p[2] \in 1 .. Len(new)
    BY <2>1 DEF Common
  <2>3. SubSeq(new, p[2] + 1, Len(new)) \in Seq(Block)
    BY <2>2, SubSeqProperties
  <2> QED
    BY <2>1, <2>3
<1> QED
  BY <1>1, <1>2

----------------------------------------------------------------------------
\* The first theorem: every variable of the indexer keeps its type, whatever the
\* chain, the node, the database and restarts do.
THEOREM TypeCorrect == Spec => []TypeOK
<1>1. Init => TypeOK
  <2> SUFFICES ASSUME Init PROVE TypeOK
    OBVIOUS
  <2>1. Number[head] \in Nat
    BY NumberAssumption DEF Init
  <2>2. FreshHandled({}) \in Seq(Block)
    BY SkipAssumption DEF FreshHandled
  <2>3. <<>> \in Seq(Block) /\ NoRange \in Nat \X Nat /\ {} \in SUBSET Event
    BY DEF NoRange
  <2> QED
    BY <2>1, <2>2, <2>3 DEF Init, TypeOK
<1>2. TypeOK /\ [Next]_vars => TypeOK'
  <2> SUFFICES ASSUME TypeOK, [Next]_vars PROVE TypeOK'
    OBVIOUS
  <2> USE DEF chainVars, rangeVars, streamVars
  <2>1. CASE ReadHandledBlocks
    <3>1. handled' \in Seq(Block) /\ handled' # <<>>
      <4>1. CASE last_handled_blocks # <<>> /\ handled' = last_handled_blocks
        BY <4>1 DEF TypeOK
      <4>2. ASSUME NEW n \in 0 .. Number[head], handled' = <<Chain[head][n]>>
            PROVE  handled' \in Seq(Block) /\ handled' # <<>>
        <5>1. Chain[head][n] \in Block
          BY <4>2, ChainAssumption DEF TypeOK
        <5> QED
          BY <4>2, <5>1
      <4> QED
        BY <2>1, <4>1, <4>2 DEF ReadHandledBlocks
    <3> QED
      BY <2>1, <3>1 DEF ReadHandledBlocks, TypeOK
  <2>2. CASE CurrentIsNext
    <3>1. <<head>> \in Seq(Block)
      BY DEF TypeOK
    <3> QED
      BY <2>2, <3>1 DEF CurrentIsNext, TypeOK
  <2>3. CASE CurrentIsLast
    BY <2>3, ReturnType DEF CurrentIsLast, TypeOK
  <2>4. CASE CurrentNeedsRange
    <3> DEFINE start == SaturatingSub(Number[LastOf(handled)], MAX_REORG_BLOCK_COUNT)
    <3>1. LastOf(handled) \in Block
      BY <2>4, LastOfType DEF CurrentNeedsRange, TypeOK
    <3>2. start \in Nat /\ Number[head] \in Nat
      BY <3>1, NumberAssumption, ReorgAssumption, SaturatingSubType DEF TypeOK
    <3> HIDE DEF start
    <3>3. /\ SplitRange(start, Number[head]).history \in Nat \X Nat
          /\ SplitRange(start, Number[head]).latest \in Nat \X Nat
      BY <3>2, ReorgAssumption DEF SplitRange, MAX_BLOCKS_QUERIED, SaturatingSub, NoRange
    <3>4. history' \in Nat \X Nat /\ latest' \in Nat \X Nat
      BY <2>4, <3>3 DEF CurrentNeedsRange, start
    <3> QED
      BY <2>4, <3>4 DEF CurrentNeedsRange, TypeOK
  <2>5. CASE FetchLatestWithHistory
    <3>1. Blocks(latest[1], latest[2]) \in Seq(Block)
      BY <2>5, BlocksType DEF FetchLatestWithHistory, TypeOK
    <3> QED
      BY <2>5, <3>1 DEF FetchLatestWithHistory, TypeOK
  <2>6. CASE FetchLatestOnly
    <3>1. Blocks(latest[1], latest[2]) \in Seq(Block)
      BY <2>6, BlocksType DEF FetchLatestOnly, TypeOK
    <3>2. PICK path \in DetectReorgPath(handled, Blocks(latest[1], latest[2])) :
            \/ Return
            \/ /\ latest_blocks' = path.blocks
               /\ is_reorg' = path.reorg
               /\ pc' = "update"
               /\ UNCHANGED <<handled, history, latest, streamVars>>
      BY <2>6 DEF FetchLatestOnly
    <3>3. path.blocks \in Seq(Block) /\ path.reorg \in BOOLEAN
      BY <3>1, DetectType DEF TypeOK
    <3>4. CASE Return
      BY <2>6, <3>4, ReturnType DEF FetchLatestOnly, TypeOK
    <3> QED
      BY <2>6, <3>2, <3>3, <3>4 DEF FetchLatestOnly, TypeOK
  <2>7. CASE LatestUnavailable
    BY <2>7, ReturnType DEF LatestUnavailable, TypeOK
  <2>8. CASE FetchTail
    <3>1. SaturatingSub(history[2], MAX_REORG_BLOCK_COUNT) \in Nat
      BY ReorgAssumption, SaturatingSubType DEF TypeOK
    <3>2. tail' \in Seq(Block)
      BY <2>8, <3>1, BlocksType DEF FetchTail, TypeOK
    <3> QED
      BY <2>8, <3>2 DEF FetchTail, TypeOK
  <2>9. CASE StreamPage
    <3>1. Chain[head][cursor] \in Block
      BY <2>9, ChainAssumption, NumberAssumption DEF StreamPage, TypeOK
    <3>2. buffer' \in SUBSET Event
      BY <2>9, <3>1, EventsType DEF StreamPage, TypeOK
    <3> QED
      BY <2>9, <3>2 DEF StreamPage, TypeOK
  <2>10. CASE StreamChunk
    <3>1. PICK chunk \in SUBSET buffer : WriteChunk(chunk) /\ buffer' = buffer \ chunk
      BY <2>10 DEF StreamChunk
    <3>2. store' \in SUBSET Event /\ buffer' \in SUBSET Event
      BY <3>1, StoreType DEF WriteChunk, TypeOK
    <3> QED
      BY <2>10, <3>2 DEF StreamChunk, TypeOK
  <2>11. CASE StreamEnd
    <3>1. store' \in SUBSET Event
      BY <2>11, StoreType DEF StreamEnd, WriteChunk, TypeOK
    <3>2. last_handled_blocks' \in Seq(Block)
      BY <2>11, UpdateLastHandledBlocksType DEF StreamEnd, TypeOK
    <3>3. <<>> \in Seq(Block) /\ 0 \in Nat
      OBVIOUS
    <3> QED
      BY <2>11, <3>1, <3>2, <3>3, Zenon DEF StreamEnd, TypeOK
  <2>12. ASSUME NEW k, UpdateLatest(k) PROVE TypeOK'
    <3> DEFINE blocks == BlocksFiltered(latest_blocks, k)
    <3> DEFINE events == UNION {Events(latest_blocks[i]) : i \in 1 .. k}
    <3>1. k \in 1 .. Len(latest_blocks)
      BY <2>12 DEF UpdateLatest
    <3>2. blocks \in Seq(Block)
      BY <3>1, FilteredType DEF TypeOK
    <3>3. events \in SUBSET Event
      <4>1. \A i \in 1 .. k : latest_blocks[i] \in Block
        BY <3>1 DEF TypeOK
      <4> QED
        BY <4>1, EventsType
    <3>4. /\ UpdateLastHandledBlocks(blocks)
          /\ store' = IF is_reorg
                      THEN ReplaceEvents(store, events, Number[blocks[1]])
                      ELSE AppendEvents(store, events)
      BY <2>12 DEF UpdateLatest
    <3> HIDE DEF blocks, events
    <3>5. store' \in SUBSET Event
      BY <3>3, <3>4, StoreType DEF TypeOK
    <3>6. last_handled_blocks' \in Seq(Block)
      BY <3>2, <3>4, UpdateLastHandledBlocksType DEF TypeOK
    <3> QED
      BY <2>12, <3>5, <3>6, ReturnType DEF UpdateLatest, TypeOK
  <2>13. CASE RequestFails
    BY <2>13, ReturnType DEF RequestFails, TypeOK
  <2>14. CASE Restart
    <3>1. FreshHandled(store) \in Seq(Block)
      BY SkipAssumption DEF FreshHandled
    <3> QED
      BY <2>14, <3>1, ReturnType DEF Restart, TypeOK
  <2>15. ASSUME NEW b \in Block, NewHead(b) PROVE TypeOK'
    BY <2>15, NumberAssumption DEF NewHead, TypeOK
  <2>16. CASE BecomeQuiet
    BY <2>16 DEF BecomeQuiet, TypeOK
  <2>17. CASE UNCHANGED vars
    BY <2>17 DEF vars, TypeOK
  <2> QED
    BY <2>1, <2>2, <2>3, <2>4, <2>5, <2>6, <2>7, <2>8, <2>9, <2>10, <2>11, <2>12,
       <2>13, <2>14, <2>15, <2>16, <2>17
    DEF Next, UpdateEvents, Fault, ChainMoves, UpdateLatestFully, UpdateLatestPartially
<1> QED
  BY <1>1, <1>2, PTL DEF Spec

----------------------------------------------------------------------------
(* The inductive invariant for OneFork, NoGaps and HandledIsStored.        *)

R == MAX_REORG_BLOCK_COUNT
Skip == Number[SkipBlocksBefore]

\* h is a current block below a highest one t that the model allows.
ChainOK(h, t) ==
  /\ h \in Block /\ t \in Nat
  /\ Number[h] <= t /\ t <= Number[h] + MaxLag
  /\ Skip + 4 * R <= t
  /\ OnChain(SkipBlocksBefore, h)

\* x was on the node's chain when it was read: what is R below it is final.
Near(x, h, t) ==
  /\ Number[x] <= t
  /\ \A a \in Block :
       (OnChain(a, x) /\ (Number[a] <= Number[x] - R \/ Number[a] <= Skip))
         => OnChain(a, h)

\* All events of the chain of b are stored.
Complete(b, rows) ==
  \A f \in Event : (OnChain(f[1], b) /\ EventNumber(f) > Skip) => f \in rows

\* All events of the chain of b up to height n are stored.
CompleteTo(n, b, rows) ==
  \A f \in Event :
    (OnChain(f[1], b) /\ EventNumber(f) > Skip /\ EventNumber(f) <= n) => f \in rows

\* All that counts as handled and is on the node's chain is stored.
HandledStored(b, rows, h) ==
  \A f \in Event :
    (OnChain(f[1], b) /\ OnChain(f[1], h) /\ EventNumber(f) > Skip) => f \in rows

\* A list of blocks of one fork.
OneChain(mem) == \A i \in DOMAIN mem : OnChain(mem[i], LastOf(mem))

\* The store holds what was handled, and nothing else.
Settled(mem, rows) ==
  /\ OneChain(mem)
  /\ \A e \in rows : OnChain(e[1], LastOf(mem))
  /\ Complete(LastOf(mem), rows)

\* History was written and no block handled: the events up to the height of the last
\* handled block are those of the node's chain, and final.
Interrupted(mem, rows, h, t) ==
  /\ t > Number[LastOf(mem)] + R
  /\ OneChain(mem)
  /\ \A e \in rows : EventNumber(e) <= Number[LastOf(mem)] /\ OnChain(e[1], h)
  /\ CompleteTo(Number[LastOf(mem)], h, rows)

\* The last handled block is so old that the next update reads history.
Behind(mem, rows, h, t) ==
  /\ t > Number[LastOf(mem)] + R + MaxLag
  /\ \A e \in rows : EventNumber(e) < Number[LastOf(mem)] - R => OnChain(e[1], h)
  /\ CompleteTo(Number[LastOf(mem)] - R - 1, h, rows)

Mode(mem, rows, h, t) ==
  Settled(mem, rows) \/ Interrupted(mem, rows, h, t) \/ Behind(mem, rows, h, t)

\* OneFork and NoGaps; and only a chunk of history ends within a block.
StoreInv(rows, h, t) ==
  /\ \A e \in rows : Near(e[1], h, t)
  /\ \A e \in rows : Events(e[1]) \subseteq rows \/ EventNumber(e) + 2 * R <= t
  /\ \A e, f \in rows : EventNumber(e) <= EventNumber(f) => OnChain(e[1], f[1])
  /\ \A e \in rows : \A f \in Event :
       (EventNumber(f) > Skip /\ OnChain(f[1], e[1]) /\ Before(f, e)) => f \in rows

\* Without memory nothing in the store is orphaned.
MemoryInv(mem, rows, h, t) ==
  \/ mem = <<>> /\ \A e \in rows : OnChain(e[1], h)
  \/ /\ mem # <<>> /\ Mode(mem, rows, h, t) /\ Near(LastOf(mem), h, t)
     /\ HandledStored(LastOf(mem), rows, h)

CoreInv ==
  /\ ChainOK(head, top) /\ StoreInv(store, head, top)
  /\ MemoryInv(last_handled_blocks, store, head, top)

LocalInv ==
  /\ pc # "stream" => buffer = {} /\ ~have_deleted
  /\ pc \in {"idle", "current"} => ~is_reorg

\* The blocks that the range is computed from are the memory, if there is one.
SourceInv ==
  pc \in {"current", "latest", "history", "stream"} =>
    /\ handled # <<>> /\ Near(LastOf(handled), head, top)
    /\ last_handled_blocks # <<>> => handled = last_handled_blocks
    /\ ~have_deleted => Mode(handled, store, head, top)

\* A range without history only follows when the store is consistent.
ShortRange ==
  /\ history = NoRange
  /\ latest[1] = Number[LastOf(handled)] - R /\ 0 <= latest[1]
  /\ latest[1] <= latest[2] /\ latest[2] <= latest[1] + 2 * R
  /\ Settled(handled, store) \/ Interrupted(handled, store, head, top)

LongRange ==
  /\ history # NoRange
  /\ history[1] = SaturatingSub(Number[LastOf(handled)], R) /\ history[1] < history[2]
  /\ latest[1] = history[2] + 1 /\ latest[2] = history[2] + 2 * R
  /\ latest[2] <= top

RangeInv ==
  /\ pc = "latest" => ShortRange \/ LongRange
  /\ pc \in {"history", "stream"} => LongRange

\* Consecutive blocks of one fork.
Segment(bs, h, t) ==
  /\ bs # <<>> /\ Len(bs) <= 2 * R + 1
  /\ \A i \in DOMAIN bs : /\ Number[bs[i]] = Number[bs[1]] + i - 1
                          /\ OnChain(bs[i], LastOf(bs)) /\ Near(bs[i], h, t)

\* What is stored and handled below b is of the chain of b.
Below(b, mem, rows) ==
  /\ \A e \in rows : EventNumber(e) < Number[b] => OnChain(e[1], b)
  /\ CompleteTo(Number[b] - 1, b, rows)
  /\ \A i \in DOMAIN mem : Number[mem[i]] < Number[b] => OnChain(mem[i], b)

FetchedInv ==
  /\ pc \in {"history", "stream", "update"} => Segment(latest_blocks, head, top)
  /\ pc \in {"history", "stream"} =>
       /\ is_reorg
       /\ Number[latest_blocks[1]] = latest[1] /\ OnChain(latest_blocks[1], head)
  /\ pc = "update" =>
       /\ Below(latest_blocks[1], last_handled_blocks, store)
       /\ is_reorg \/ \A e \in store : EventNumber(e) < Number[latest_blocks[1]]

\* The tail ends with the last block of history and cannot leave an older block in a
\* list of R.
TailInv ==
  pc = "stream" =>
    /\ tail # <<>> /\ OneChain(tail)
    /\ Number[LastOf(tail)] = history[2] /\ OnChain(LastOf(tail), head)
    /\ Len(tail) >= R \/ Number[tail[1]] = 0

\* The events of the chain of h between two heights.
EventsBetween(lo, hi, h) ==
  {f \in Event : OnChain(f[1], h) /\ lo <= EventNumber(f) /\ EventNumber(f) < hi}

\* What was read and not written comes next.
StreamInv ==
  pc = "stream" =>
    /\ history[1] <= cursor /\ cursor <= history[2] + 1
    /\ ~have_deleted => buffer = EventsBetween(history[1], cursor, head)
    /\ have_deleted =>
         /\ buffer = EventsBetween(history[1], cursor, head) \ store
         /\ \A e \in store : OnChain(e[1], head) /\ EventNumber(e) < cursor
         /\ \A e \in store, f \in buffer : Before(e, f)
         /\ CompleteTo(history[1] - 1, head, store)

UpdateInv == LocalInv /\ SourceInv /\ RangeInv /\ FetchedInv /\ TailInv /\ StreamInv

IInv == TypeOK /\ CoreInv /\ UpdateInv

----------------------------------------------------------------------------
(* Ancestry.                                                               *)

\* A block has one ancestor at every height.
LEMMA Ancestor ==
  ASSUME NEW b \in Block, NEW n \in Int, 0 <= n, n <= Number[b]
  PROVE  /\ Chain[b][n] \in Block /\ Number[Chain[b][n]] = n
         /\ OnChain(Chain[b][n], b)
         /\ \A a \in Block : OnChain(a, b) /\ Number[a] = n => a = Chain[b][n]
<1>1. n \in 0 .. Number[b] /\ Number[b] \in Nat
  BY NumberAssumption
<1>2. Chain[b][n] \in Block /\ Number[Chain[b][n]] = n
  BY <1>1, ChainAssumption
<1>3. OnChain(Chain[b][n], b)
  <2>1. Number[Chain[b][n]] <= Number[b]
    BY <1>1, <1>2
  <2>2. Chain[b][Number[Chain[b][n]]] = Chain[b][n]
    BY <1>2, Zenon
  <2> QED
    BY <2>1, <2>2, Zenon DEF OnChain
<1>4. \A a \in Block : OnChain(a, b) /\ Number[a] = n => a = Chain[b][n]
  BY DEF OnChain
<1> QED
  BY <1>2, <1>3, <1>4

\* Ancestry is an order, total on the ancestors of a block.
LEMMA Ancestry ==
  /\ \A b \in Block : Number[b] \in Nat /\ OnChain(b, b)
  /\ \A a, b \in Block : OnChain(a, b) => Number[a] <= Number[b]
  /\ \A a, b, c \in Block : OnChain(a, b) /\ OnChain(b, c) => OnChain(a, c)
  /\ \A a, b, c \in Block :
       OnChain(a, c) /\ OnChain(b, c) /\ Number[a] <= Number[b] => OnChain(a, b)
  /\ \A a, b, c \in Block :
       OnChain(a, c) /\ OnChain(b, c) /\ Number[a] = Number[b] => a = b
<1>1. ASSUME NEW b \in Block PROVE Number[b] \in Nat /\ OnChain(b, b)
  <2>1. Number[b] \in Nat /\ Number[b] <= Number[b]
    BY NumberAssumption
  <2>2. Chain[b][Number[b]] = b
    BY ChainAssumption, Zenon
  <2> QED
    BY <2>1, <2>2, Zenon DEF OnChain
<1>2. \A a, b \in Block : OnChain(a, b) => Number[a] <= Number[b]
  BY DEF OnChain
<1>3. ASSUME NEW a \in Block, NEW b \in Block, NEW c \in Block, OnChain(a, b), OnChain(b, c)
      PROVE  OnChain(a, c)
  <2>1. /\ Number[a] \in 0 .. Number[b] /\ Number[b] \in 0 .. Number[c]
        /\ Number[a] <= Number[c]
    BY <1>1, <1>2, <1>3
  <2>2. Chain[Chain[c][Number[b]]][Number[a]] = Chain[c][Number[a]]
    BY <2>1, AncestryAssumption
  <2> QED
    BY <1>3, <2>1, <2>2 DEF OnChain
<1>4. ASSUME NEW a \in Block, NEW b \in Block, NEW c \in Block, OnChain(a, c), OnChain(b, c),
             Number[a] <= Number[b]
      PROVE  OnChain(a, b)
  <2>1. /\ Number[a] \in 0 .. Number[b] /\ Number[b] \in 0 .. Number[c]
    BY <1>1, <1>2, <1>4
  <2>2. Chain[Chain[c][Number[b]]][Number[a]] = Chain[c][Number[a]]
    BY <2>1, AncestryAssumption
  <2> QED
    BY <1>4, <2>1, <2>2 DEF OnChain
<1>5. \A a, b, c \in Block :
        OnChain(a, c) /\ OnChain(b, c) /\ Number[a] = Number[b] => a = b
  BY DEF OnChain
<1> QED
  BY <1>1, <1>2, <1>3, <1>4, <1>5

\* An event belongs to its block.
LEMMA EventIs ==
  /\ \A f \in Event : /\ f[1] \in Block /\ f[2] \in Nat /\ EventNumber(f) = Number[f[1]]
                      /\ EventNumber(f) \in Nat /\ f \in Events(f[1])
  /\ \A b \in Block : \A f \in Events(b) : f \in Event /\ f[1] = b
  /\ \A e, f \in Event : e[1] = f[1] /\ e[2] = f[2] => e = f
<1>1. ASSUME NEW f \in Event
      PROVE  /\ f[1] \in Block /\ f[2] \in Nat /\ EventNumber(f) = Number[f[1]]
             /\ EventNumber(f) \in Nat /\ f \in Events(f[1]) /\ f = <<f[1], f[2]>>
  <2>1. PICK b \in Block : f \in Events(b)
    BY DEF Event
  <2>2. PICK i \in 1 .. NumEvents[b] : f = <<b, i>>
    BY <2>1 DEF Events
  <2>3. NumEvents[b] \in Nat /\ Number[b] \in Nat
    BY EventsAssumption, NumberAssumption
  <2> QED
    BY <2>1, <2>2, <2>3 DEF EventNumber
<1>2. \A b \in Block : \A f \in Events(b) : f \in Event /\ f[1] = b
  BY DEF Event, Events
<1>3. \A e, f \in Event : e[1] = f[1] /\ e[2] = f[2] => e = f
  BY <1>1
<1> QED
  BY <1>1, <1>2, <1>3

\* The constants.
LEMMA Bounds ==
  R \in Nat /\ R >= 1 /\ MaxLag \in Nat /\ MaxLag < R /\ Skip \in Nat
BY ReorgAssumption, LagAssumption, SkipAssumption, NumberAssumption DEF R, Skip

\* What is final on the node's chain is on the chain of x.
LEMMA NearBoth ==
  ASSUME NEW h \in Block, NEW t, NEW x \in Block, Near(x, h, t), NEW a \in Block,
         OnChain(a, h), Number[a] <= Number[x] - R
  PROVE  OnChain(a, x)
<1> DEFINE c == Chain[x][Number[a]]
<1>1. Number[a] \in Nat /\ Number[x] \in Nat /\ Number[a] <= Number[x]
  BY Bounds, Ancestry
<1>2. c \in Block /\ Number[c] = Number[a] /\ OnChain(c, x)
  BY <1>1, Ancestor
<1> HIDE DEF c
<1>3. OnChain(c, h)
  BY <1>2 DEF Near
<1>4. c = a
  BY <1>2, <1>3, Ancestry
<1> QED
  BY <1>2, <1>4

\* Blocks of the node's chain are near.
LEMMA HeadNear ==
  ASSUME NEW h, NEW t, ChainOK(h, t), NEW x \in Block, OnChain(x, h)
  PROVE  Near(x, h, t)
<1>1. h \in Block /\ t \in Nat /\ Number[h] <= t
  BY DEF ChainOK
<1>2. Number[x] <= t
  BY <1>1, Ancestry
<1>3. \A a \in Block : OnChain(a, x) => OnChain(a, h)
  BY <1>1, Ancestry
<1> QED
  BY <1>2, <1>3 DEF Near

\* Whatever happened before, the store is right below what the next update replaces.
LEMMA ModeBase ==
  ASSUME NEW h, NEW t, ChainOK(h, t), NEW rows \in SUBSET Event,
         NEW mem \in Seq(Block), mem # <<>>,
         Mode(mem, rows, h, t), Near(LastOf(mem), h, t)
  PROVE  /\ \A e \in rows : EventNumber(e) < Number[LastOf(mem)] - R => OnChain(e[1], h)
         /\ CompleteTo(Number[LastOf(mem)] - R - 1, h, rows)
<1> DEFINE L == LastOf(mem)
<1>1. L \in Block /\ Number[L] \in Nat /\ R \in Nat /\ h \in Block
  BY LastOfType, Ancestry, Bounds DEF ChainOK
<1> HIDE DEF L
<1>2. CASE Settled(mem, rows)
  <2>1. ASSUME NEW e \in rows, EventNumber(e) < Number[L] - R PROVE OnChain(e[1], h)
    <3>1. e[1] \in Block /\ EventNumber(e) = Number[e[1]] /\ Number[e[1]] \in Nat
      BY EventIs, Zenon
    <3>2. OnChain(e[1], L)
      BY <1>2 DEF Settled, L
    <3> QED
      BY <1>1, <2>1, <3>1, <3>2 DEF Near, L
  <2>2. ASSUME NEW f \in Event, OnChain(f[1], h), EventNumber(f) > Skip,
               EventNumber(f) <= Number[L] - R - 1
        PROVE  f \in rows
    <3>1. f[1] \in Block /\ EventNumber(f) = Number[f[1]] /\ Number[f[1]] \in Nat
      BY EventIs, Zenon
    <3>2. OnChain(f[1], L)
      BY <1>1, <2>2, <3>1, NearBoth DEF L
    <3> QED
      BY <1>2, <2>2, <3>2 DEF Settled, Complete, L
  <2> QED
    BY <2>1, <2>2 DEF CompleteTo, L
<1>3. CASE Interrupted(mem, rows, h, t)
  <2>1. \A n \in Int : n <= Number[L] - R - 1 => n <= Number[L]
    BY <1>1
  <2>2. \A f \in Event : EventNumber(f) \in Int
    BY EventIs
  <2> QED
    BY <1>3, <2>1, <2>2 DEF Interrupted, CompleteTo, L
<1>4. CASE Behind(mem, rows, h, t)
  BY <1>4 DEF Behind
<1> QED
  BY <1>2, <1>3, <1>4 DEF Mode

----------------------------------------------------------------------------
(* The chain moves.                                                        *)

\* From h to h2, of which all that is R below t stays.
Moves(h, t, h2, t2) ==
  /\ ChainOK(h2, t2) /\ t <= t2
  /\ \A a \in Block : Number[a] <= t - R => (OnChain(a, h) <=> OnChain(a, h2))

\* NewHead moves.
LEMMA HeadMoves ==
  ASSUME ChainOK(head, top), NEW b \in Block, NewHead(b)
  PROVE  Moves(head, top, head', top')
<1>1. /\ head \in Block /\ top \in Nat /\ Number[head] \in Nat /\ Number[b] \in Nat
      /\ Number[head] <= top /\ top <= Number[head] + MaxLag /\ Skip + 4 * R <= top
      /\ R \in Nat /\ R >= 1 /\ MaxLag \in Nat /\ MaxLag < R /\ Skip \in Nat
  BY Bounds, Ancestry DEF ChainOK
<1>2. /\ Number[b] >= top - MaxLag /\ head' = b
      /\ top' = IF Number[b] > top THEN Number[b] ELSE top
      /\ \A n \in 0 .. (top - R) : Chain[b][n] = Chain[head][n]
  BY DEF NewHead, R
<1>3. /\ top' \in Nat /\ top <= top' /\ Number[b] <= top' /\ top' <= Number[b] + MaxLag
      /\ Skip + 4 * R <= top'
  BY <1>1, <1>2
<1>4. ASSUME NEW a \in Block, Number[a] <= top - R
      PROVE  OnChain(a, head) <=> OnChain(a, b)
  <2>1. Number[a] \in Nat
    BY Ancestry
  <2>2. /\ Number[a] \in 0 .. (top - R) /\ Number[a] <= Number[head] /\ Number[a] <= Number[b]
    BY <1>1, <1>2, <1>4, <2>1
  <2>3. Chain[b][Number[a]] = Chain[head][Number[a]]
    BY <1>2, <2>2
  <2> QED
    BY <2>2, <2>3 DEF OnChain
<1>5. OnChain(SkipBlocksBefore, b)
  <2>1. Number[SkipBlocksBefore] <= top - R
    BY <1>1 DEF Skip
  <2> QED
    BY <1>4, <2>1, SkipAssumption DEF ChainOK
<1> QED
  BY <1>2, <1>3, <1>4, <1>5 DEF Moves, ChainOK

\* What was near stays near.
LEMMA NearMoves ==
  ASSUME NEW h, NEW t, NEW h2, NEW t2, ChainOK(h, t), Moves(h, t, h2, t2),
         NEW x \in Block, Near(x, h, t)
  PROVE  Near(x, h2, t2)
<1>1. /\ t \in Nat /\ t2 \in Nat /\ t <= t2 /\ R \in Nat /\ R >= 1 /\ Skip + 4 * R <= t
      /\ Number[x] \in Nat /\ Number[x] <= t /\ Skip \in Nat
  BY Bounds, Ancestry DEF ChainOK, Moves, Near
<1>2. ASSUME NEW a \in Block, OnChain(a, x), Number[a] <= Number[x] - R \/ Number[a] <= Skip
      PROVE  OnChain(a, h2)
  <2>1. Number[a] <= t - R
    <3>1. Number[a] \in Nat
      BY Ancestry
    <3> QED
      BY <1>1, <1>2, <3>1
  <2> QED
    BY <1>2, <2>1 DEF Near, Moves
<1>3. Number[x] <= t2
  BY <1>1
<1> QED
  BY <1>2, <1>3 DEF Near

\* Nothing in the store changes with the chain.
LEMMA StoreMoves ==
  ASSUME NEW h, NEW t, NEW h2, NEW t2, ChainOK(h, t), Moves(h, t, h2, t2),
         NEW rows \in SUBSET Event, StoreInv(rows, h, t)
  PROVE  StoreInv(rows, h2, t2)
<1>1. \A e \in rows : Near(e[1], h2, t2)
  <2> SUFFICES ASSUME NEW e \in rows PROVE Near(e[1], h2, t2)
    OBVIOUS
  <2>1. e[1] \in Block
    BY EventIs, Zenon
  <2>2. Near(e[1], h, t)
    BY DEF StoreInv
  <2> QED
    BY <2>1, <2>2, NearMoves
<1>2. \A e \in rows : Events(e[1]) \subseteq rows \/ EventNumber(e) + 2 * R <= t2
  <2> SUFFICES ASSUME NEW e \in rows, EventNumber(e) + 2 * R <= t
               PROVE  EventNumber(e) + 2 * R <= t2
    BY DEF StoreInv
  <2>1. EventNumber(e) \in Nat /\ R \in Nat /\ t \in Nat /\ t2 \in Nat /\ t <= t2
    BY EventIs, Bounds DEF ChainOK, Moves
  <2> QED
    BY <2>1
<1> QED
  BY <1>1, <1>2 DEF StoreInv

\* Events that are final are the same on both chains.
LEMMA FinalMoves ==
  ASSUME NEW h, NEW t, NEW h2, NEW t2, Moves(h, t, h2, t2),
         NEW f \in Event, EventNumber(f) <= t - R
  PROVE  OnChain(f[1], h) <=> OnChain(f[1], h2)
<1>1. f[1] \in Block /\ EventNumber(f) = Number[f[1]]
  BY EventIs, Zenon
<1> QED
  BY <1>1 DEF Moves

\* What is complete up to a final height stays so.
LEMMA CompleteToMoves ==
  ASSUME NEW h, NEW t, NEW h2, NEW t2, ChainOK(h, t), Moves(h, t, h2, t2), NEW rows,
         NEW n \in Int, n <= t - R, CompleteTo(n, h, rows)
  PROVE  CompleteTo(n, h2, rows)
<1> SUFFICES ASSUME NEW f \in Event, OnChain(f[1], h2), EventNumber(f) > Skip,
                    EventNumber(f) <= n
             PROVE  f \in rows
  BY DEF CompleteTo
<1>1. EventNumber(f) \in Nat /\ t \in Nat /\ R \in Nat
  BY EventIs, Bounds DEF ChainOK
<1>2. EventNumber(f) <= t - R
  BY <1>1
<1>3. OnChain(f[1], h)
  BY <1>2, FinalMoves
<1> QED
  BY <1>3 DEF CompleteTo

\* An interrupted memory stays one.
LEMMA InterruptedMoves ==
  ASSUME NEW h, NEW t, NEW h2, NEW t2, ChainOK(h, t), Moves(h, t, h2, t2),
         NEW rows \in SUBSET Event, NEW mem \in Seq(Block), mem # <<>>,
         Interrupted(mem, rows, h, t)
  PROVE  Interrupted(mem, rows, h2, t2)
<1> DEFINE n == Number[LastOf(mem)]
<1>1. n \in Nat /\ R \in Nat /\ t \in Nat /\ t2 \in Nat /\ t <= t2 /\ t > n + R
  BY LastOfType, Ancestry, Bounds DEF ChainOK, Moves, Interrupted
<1> HIDE DEF n
<1>2. t2 > n + R /\ n <= t - R
  BY <1>1
<1>3. ASSUME NEW e \in rows PROVE EventNumber(e) <= n /\ OnChain(e[1], h2)
  <2>1. EventNumber(e) <= n /\ OnChain(e[1], h) /\ EventNumber(e) \in Nat
    BY EventIs DEF Interrupted, n
  <2>2. EventNumber(e) <= t - R
    BY <1>1, <2>1
  <2> QED
    BY <2>1, <2>2, FinalMoves
<1>4. CompleteTo(n, h2, rows)
  BY <1>1, <1>2, CompleteToMoves DEF Interrupted, n
<1> QED
  BY <1>2, <1>3, <1>4 DEF Interrupted, n

\* So does any other.
LEMMA ModeMoves ==
  ASSUME NEW h, NEW t, NEW h2, NEW t2, ChainOK(h, t), Moves(h, t, h2, t2),
         NEW rows \in SUBSET Event, NEW mem \in Seq(Block), mem # <<>>,
         Mode(mem, rows, h, t)
  PROVE  Mode(mem, rows, h2, t2)
<1> DEFINE n == Number[LastOf(mem)]
<1>1. CASE Settled(mem, rows)
  BY <1>1 DEF Mode
<1>2. CASE Interrupted(mem, rows, h, t)
  BY <1>2, InterruptedMoves DEF Mode
<1>3. CASE Behind(mem, rows, h, t)
  <2>1. /\ n \in Nat /\ R \in Nat /\ MaxLag \in Nat /\ t \in Nat /\ t2 \in Nat /\ t <= t2
        /\ t > n + R + MaxLag
    BY <1>3, LastOfType, Ancestry, Bounds DEF ChainOK, Moves, Behind
  <2> HIDE DEF n
  <2>2. t2 > n + R + MaxLag /\ n - R - 1 <= t - R /\ n - R - 1 \in Int
    BY <2>1
  <2>3. ASSUME NEW e \in rows, EventNumber(e) < n - R PROVE OnChain(e[1], h2)
    <3>1. OnChain(e[1], h) /\ EventNumber(e) \in Nat
      BY <1>3, <2>3, EventIs DEF Behind, n
    <3>2. EventNumber(e) <= t - R
      BY <2>1, <2>3, <3>1
    <3> QED
      BY <3>1, <3>2, FinalMoves
  <2>4. CompleteTo(n - R - 1, h2, rows)
    BY <1>3, <2>2, CompleteToMoves DEF Behind, n
  <2> QED
    BY <2>2, <2>3, <2>4 DEF Behind, n, Mode
<1> QED
  BY <1>1, <1>2, <1>3 DEF Mode

\* What is handled and canonical after the move is stored.
LEMMA HandledMoves ==
  ASSUME NEW h, NEW t, NEW h2, NEW t2, ChainOK(h, t), Moves(h, t, h2, t2),
         NEW rows \in SUBSET Event, NEW mem \in Seq(Block), mem # <<>>,
         Mode(mem, rows, h, t), HandledStored(LastOf(mem), rows, h)
  PROVE  HandledStored(LastOf(mem), rows, h2)
<1> DEFINE L == LastOf(mem)
<1>1. L \in Block /\ Number[L] \in Nat /\ R \in Nat /\ MaxLag \in Nat /\ t \in Nat
  BY LastOfType, Ancestry, Bounds DEF ChainOK
<1>2. CASE Settled(mem, rows)
  BY <1>2 DEF Settled, Complete, HandledStored
<1>3. CASE ~Settled(mem, rows)
  <2>1. t > Number[L] + R
    <3>1. CASE Interrupted(mem, rows, h, t)
      BY <3>1 DEF Interrupted
    <3>2. CASE Behind(mem, rows, h, t)
      <4>1. t > Number[L] + R + MaxLag
        BY <3>2 DEF Behind
      <4> HIDE DEF L
      <4> QED
        BY <1>1, <4>1
    <3> QED
      BY <1>3, <3>1, <3>2 DEF Mode
  <2> SUFFICES ASSUME NEW f \in Event, OnChain(f[1], L), OnChain(f[1], h2),
                      EventNumber(f) > Skip
               PROVE  f \in rows
    BY DEF HandledStored
  <2>2. f[1] \in Block /\ EventNumber(f) = Number[f[1]] /\ Number[f[1]] \in Nat
    BY EventIs, Zenon
  <2>3. Number[f[1]] <= Number[L]
    BY <1>1, <2>2, Ancestry
  <2> HIDE DEF L
  <2>4. EventNumber(f) <= t - R
    BY <1>1, <2>1, <2>2, <2>3
  <2>5. OnChain(f[1], h)
    BY <2>4, FinalMoves
  <2> QED
    BY <2>5 DEF HandledStored, L
<1> QED
  BY <1>2, <1>3

\* The memory and the store are consistent after the chain moved.
LEMMA MemoryMoves ==
  ASSUME NEW h, NEW t, NEW h2, NEW t2, ChainOK(h, t), Moves(h, t, h2, t2),
         NEW rows \in SUBSET Event, NEW mem \in Seq(Block), MemoryInv(mem, rows, h, t),
         mem = <<>> => \A e \in rows : OnChain(e[1], h2)
  PROVE  MemoryInv(mem, rows, h2, t2)
<1>1. CASE mem = <<>>
  BY <1>1 DEF MemoryInv
<1>2. CASE mem # <<>>
  <2>1. Mode(mem, rows, h, t) /\ Near(LastOf(mem), h, t) /\ HandledStored(LastOf(mem), rows, h)
    BY <1>2 DEF MemoryInv
  <2>2. LastOf(mem) \in Block
    BY <1>2, LastOfType
  <2>3. Near(LastOf(mem), h2, t2)
    BY <2>1, <2>2, NearMoves
  <2>4. Mode(mem, rows, h2, t2) /\ HandledStored(LastOf(mem), rows, h2)
    BY <1>2, <2>1, ModeMoves, HandledMoves
  <2> QED
    BY <1>2, <2>3, <2>4 DEF MemoryInv
<1> QED
  BY <1>1, <1>2

\* The list read before is still a list of consecutive near blocks.
LEMMA SegmentMoves ==
  ASSUME NEW h, NEW t, NEW h2, NEW t2, ChainOK(h, t), Moves(h, t, h2, t2),
         NEW bs \in Seq(Block), Segment(bs, h, t)
  PROVE  Segment(bs, h2, t2)
<1>1. ASSUME NEW i \in DOMAIN bs PROVE Near(bs[i], h2, t2)
  <2>1. bs[i] \in Block /\ Near(bs[i], h, t)
    BY DEF Segment
  <2> QED
    BY <2>1, NearMoves
<1> QED
  BY <1>1 DEF Segment

\* Events below a final height are the same on both chains.
LEMMA BetweenMoves ==
  ASSUME NEW h, NEW t, NEW h2, NEW t2, ChainOK(h, t), Moves(h, t, h2, t2),
         NEW lo \in Nat, NEW hi \in Nat, hi <= t - R + 1
  PROVE  EventsBetween(lo, hi, h) = EventsBetween(lo, hi, h2)
<1>1. t \in Nat /\ R \in Nat
  BY Bounds DEF ChainOK
<1>2. ASSUME NEW f \in Event, EventNumber(f) < hi PROVE OnChain(f[1], h) <=> OnChain(f[1], h2)
  <2>1. EventNumber(f) \in Nat
    BY EventIs
  <2>2. EventNumber(f) <= t - R
    BY <1>1, <1>2, <2>1
  <2> QED
    BY <2>2, FinalMoves
<1> QED
  BY <1>2, Zenon DEF EventsBetween

\* The ends of the ranges are block numbers.
LEMMA RangeTypes ==
  ASSUME TypeOK
  PROVE  history[1] \in Nat /\ history[2] \in Nat /\ latest[1] \in Nat /\ latest[2] \in Nat
BY DEF TypeOK

\* NewHead.
LEMMA NewHeadStep ==
  ASSUME CleanRestarts, IInv, NEW b \in Block, NewHead(b)
  PROVE  CoreInv' /\ UpdateInv'
<1>1. Moves(head, top, head', top') /\ ChainOK(head, top)
  BY HeadMoves DEF IInv, CoreInv
<1>2. UNCHANGED <<last_handled_blocks, store, pc, handled, history, latest, latest_blocks,
                  is_reorg, tail, cursor, buffer, have_deleted>>
  BY DEF NewHead, rangeVars, streamVars
<1>3. /\ store \in SUBSET Event /\ last_handled_blocks \in Seq(Block) /\ handled \in Seq(Block)
      /\ latest_blocks \in Seq(Block) /\ tail \in Seq(Block) /\ cursor \in Nat
      /\ pc \in {"idle", "current", "latest", "history", "stream", "update"}
  BY DEF IInv, TypeOK
<1>4. CoreInv'
  <2>1. last_handled_blocks = <<>> => \A e \in store : OnChain(e[1], head')
    BY <1>2 DEF NewHead, StoreStaysCanonical
  <2>2. MemoryInv(last_handled_blocks, store, head', top')
    BY <1>1, <1>3, <2>1, MemoryMoves DEF IInv, CoreInv
  <2>3. StoreInv(store, head', top')
    BY <1>1, <1>3, StoreMoves DEF IInv, CoreInv
  <2>4. ChainOK(head', top')
    BY <1>1 DEF Moves
  <2> QED
    BY <1>2, <2>2, <2>3, <2>4 DEF CoreInv
<1>5. LocalInv'
  BY <1>2 DEF LocalInv, IInv, UpdateInv
<1>6. SourceInv'
  <2> SUFFICES ASSUME pc \in {"current", "latest", "history", "stream"}
               PROVE  /\ handled # <<>> /\ Near(LastOf(handled), head', top')
                      /\ last_handled_blocks # <<>> => handled = last_handled_blocks
                      /\ ~have_deleted => Mode(handled, store, head', top')
    BY <1>2 DEF SourceInv
  <2>1. /\ handled # <<>> /\ Near(LastOf(handled), head, top)
        /\ last_handled_blocks # <<>> => handled = last_handled_blocks
        /\ ~have_deleted => Mode(handled, store, head, top)
    BY DEF SourceInv, IInv, UpdateInv
  <2>2. Near(LastOf(handled), head', top')
    BY <1>1, <1>3, <2>1, LastOfType, NearMoves
  <2>3. ~have_deleted => Mode(handled, store, head', top')
    BY <1>1, <1>3, <2>1, ModeMoves
  <2> QED
    BY <2>1, <2>2, <2>3
<1>7. LongRange => LongRange' /\ history[2] + 2 * R <= top
  <2>1. top \in Nat /\ top' \in Nat /\ top <= top' /\ latest[2] \in Nat
    BY <1>1, RangeTypes DEF Moves, ChainOK, IInv
  <2>2. latest[2] <= top => latest[2] <= top'
    BY <2>1
  <2> QED
    BY <1>2, <2>2 DEF LongRange
<1>8. pc = "latest" /\ ShortRange => ShortRange'
  <2> SUFFICES ASSUME pc = "latest", Interrupted(handled, store, head, top)
               PROVE Interrupted(handled, store, head', top')
    BY <1>2 DEF ShortRange
  <2>1. handled # <<>>
    BY DEF SourceInv, IInv, UpdateInv
  <2> QED
    BY <1>1, <1>3, <2>1, InterruptedMoves
<1>9. RangeInv'
  BY <1>2, <1>7, <1>8 DEF RangeInv, IInv, UpdateInv
<1>10. pc \in {"history", "stream"} =>
         /\ history[1] \in Nat /\ history[2] \in Nat /\ top \in Nat /\ R \in Nat /\ R >= 1
         /\ history[2] + 2 * R <= top /\ history[1] < history[2]
         /\ history[2] + 1 <= top - R /\ latest[1] = history[2] + 1
  <2> SUFFICES ASSUME pc \in {"history", "stream"}
               PROVE  /\ history[1] \in Nat /\ history[2] \in Nat /\ top \in Nat
                      /\ R \in Nat /\ R >= 1
                      /\ history[2] + 2 * R <= top /\ history[1] < history[2]
                      /\ history[2] + 1 <= top - R /\ latest[1] = history[2] + 1
    OBVIOUS
  <2>1. LongRange /\ TypeOK /\ ChainOK(head, top)
    BY DEF RangeInv, IInv, UpdateInv, CoreInv
  <2>2. /\ history[1] \in Nat /\ history[2] \in Nat /\ top \in Nat /\ R \in Nat /\ R >= 1
        /\ history[2] + 2 * R <= top /\ history[1] < history[2] /\ latest[1] = history[2] + 1
    BY <1>7, <2>1, RangeTypes, Bounds DEF LongRange, ChainOK
  <2> QED
    BY <2>2
<1>11. FetchedInv'
  <2>1. pc \in {"history", "stream", "update"} => Segment(latest_blocks, head', top')
    BY <1>1, <1>3, SegmentMoves DEF FetchedInv, IInv, UpdateInv
  <2>2. ASSUME pc \in {"history", "stream"} PROVE OnChain(latest_blocks[1], head')
    <3>1. /\ Segment(latest_blocks, head, top) /\ Number[latest_blocks[1]] = latest[1]
          /\ OnChain(latest_blocks[1], head)
      BY <2>2 DEF FetchedInv, IInv, UpdateInv
    <3>2. latest_blocks[1] \in Block
      BY <1>3, <3>1 DEF Segment
    <3>3. Number[latest_blocks[1]] <= top - R
      BY <1>10, <2>2, <3>1
    <3> QED
      BY <1>1, <3>1, <3>2, <3>3 DEF Moves
  <2> QED
    BY <1>2, <2>1, <2>2 DEF FetchedInv, IInv, UpdateInv
<1>12. TailInv'
  <2> SUFFICES ASSUME pc = "stream" PROVE OnChain(LastOf(tail), head')
    BY <1>2 DEF TailInv, IInv, UpdateInv
  <2>1. tail # <<>> /\ Number[LastOf(tail)] = history[2] /\ OnChain(LastOf(tail), head)
    BY DEF TailInv, IInv, UpdateInv
  <2>2. LastOf(tail) \in Block
    BY <1>3, <2>1, LastOfType
  <2>3. Number[LastOf(tail)] <= top - R
    BY <1>10, <2>1
  <2> QED
    BY <1>1, <2>1, <2>2, <2>3 DEF Moves
<1>13. StreamInv'
  <2> SUFFICES ASSUME pc = "stream"
               PROVE  /\ EventsBetween(history[1], cursor, head) =
                           EventsBetween(history[1], cursor, head')
                      /\ have_deleted =>
                           /\ \A e \in store : OnChain(e[1], head')
                           /\ CompleteTo(history[1] - 1, head', store)
    BY <1>2 DEF StreamInv, IInv, UpdateInv
  <2>1. history[1] <= cursor /\ cursor <= history[2] + 1
    BY DEF StreamInv, IInv, UpdateInv
  <2>2. cursor <= top - R + 1 /\ history[1] - 1 \in Int /\ history[1] - 1 <= top - R
    <3>1. /\ history[1] \in Nat /\ history[2] \in Nat /\ top \in Nat /\ R \in Nat
          /\ history[1] < history[2] /\ history[2] + 1 <= top - R /\ cursor \in Nat
      BY <1>3, <1>10
    <3> QED
      BY <2>1, <3>1
  <2>3. EventsBetween(history[1], cursor, head) = EventsBetween(history[1], cursor, head')
    BY <1>1, <1>3, <1>10, <2>2, BetweenMoves
  <2>4. ASSUME have_deleted, NEW e \in store PROVE OnChain(e[1], head')
    <3>1. OnChain(e[1], head) /\ EventNumber(e) < cursor /\ EventNumber(e) \in Nat
      BY <1>3, <2>4, EventIs DEF StreamInv, IInv, UpdateInv
    <3>2. EventNumber(e) <= top - R
      BY <1>3, <1>10, <2>1, <3>1
    <3> QED
      BY <1>1, <1>3, <3>1, <3>2, FinalMoves
  <2>5. have_deleted => CompleteTo(history[1] - 1, head', store)
    BY <1>1, <2>2, CompleteToMoves DEF StreamInv, IInv, UpdateInv
  <2> QED
    BY <2>3, <2>4, <2>5
<1> QED
  BY <1>4, <1>5, <1>6, <1>9, <1>11, <1>12, <1>13 DEF UpdateInv

----------------------------------------------------------------------------
(* The steps of an update.                                                 *)

\* A step that touches neither the chain nor the memory nor the store.
LEMMA CoreStays ==
  ASSUME CoreInv, UNCHANGED <<head, top, last_handled_blocks, store>>
  PROVE  CoreInv'
BY DEF CoreInv

\* Nothing is known of an update that is over.
LEMMA ReturnInv ==
  ASSUME Return
  PROVE  UpdateInv'
BY DEF Return, UpdateInv, LocalInv, SourceInv, RangeInv, FetchedInv, TailInv, StreamInv

\* The block of the last stored event as the last handled one.
LEMMA StoredMode ==
  ASSUME NEW h, NEW t, ChainOK(h, t), NEW rows \in SUBSET Event, StoreInv(rows, h, t),
         \A e \in rows : OnChain(e[1], h),
         NEW n \in 0 .. Number[h], IsLastEventBlock(rows, n)
  PROVE  Mode(<<Chain[h][n]>>, rows, h, t)
<1> DEFINE x == Chain[h][n]
<1> DEFINE mem == <<x>>
<1>1. /\ h \in Block /\ t \in Nat /\ Number[h] \in Nat /\ n \in Nat /\ n <= Number[h]
      /\ R \in Nat /\ R >= 1 /\ MaxLag \in Nat /\ MaxLag < R /\ Skip \in Nat
  BY Ancestry, Bounds DEF ChainOK
<1>2. /\ x \in Block /\ Number[x] = n /\ OnChain(x, h)
      /\ \A a \in Block : OnChain(a, h) /\ Number[a] = n => a = x
  BY <1>1, Ancestor
<1>3. mem # <<>> /\ LastOf(mem) = x /\ DOMAIN mem = {1} /\ mem[1] = x
  BY DEF LastOf
<1> HIDE DEF x, mem
<1>4. ASSUME NEW e \in rows
      PROVE  /\ e[1] \in Block /\ EventNumber(e) = Number[e[1]] /\ Number[e[1]] \in Nat
             /\ Number[e[1]] <= n /\ OnChain(e[1], x)
  <2>1. e[1] \in Block /\ EventNumber(e) = Number[e[1]] /\ Number[e[1]] \in Nat
    BY EventIs, Zenon
  <2>2. Number[e[1]] <= n
    BY <2>1 DEF IsLastEventBlock
  <2> QED
    BY <1>1, <1>2, <2>1, <2>2, Ancestry
<1>5. OneChain(mem)
  BY <1>2, <1>3, Ancestry DEF OneChain
<1>6. CASE Complete(x, rows)
  BY <1>3, <1>4, <1>5, <1>6 DEF Mode, Settled, x, mem
<1>7. CASE ~Complete(x, rows)
  <2>1. PICK f \in Event : OnChain(f[1], x) /\ EventNumber(f) > Skip /\ f \notin rows
    BY <1>7 DEF Complete
  <2>2. /\ f[1] \in Block /\ EventNumber(f) = Number[f[1]] /\ Number[f[1]] \in Nat
        /\ f \in Events(f[1])
    BY EventIs, Zenon
  <2>3. Number[f[1]] <= n /\ n > Skip
    <3>1. Number[f[1]] <= n
      BY <1>2, <2>1, <2>2, Ancestry
    <3> QED
      BY <1>1, <2>1, <2>2, <3>1
  <2>4. PICK e \in rows : EventNumber(e) = n
    <3>1. n # 0
      BY <1>1, <2>3
    <3> QED
      BY <3>1 DEF IsLastEventBlock
  <2>5. e[1] = x
    BY <1>2, <1>4, <2>4
  <2>6. \A g \in Event :
          OnChain(g[1], x) /\ EventNumber(g) > Skip /\ EventNumber(g) < n => g \in rows
    <3> SUFFICES ASSUME NEW g \in Event, OnChain(g[1], x), EventNumber(g) > Skip, EventNumber(g) < n
                 PROVE  g \in rows
      OBVIOUS
    <3>1. Before(g, e) /\ OnChain(g[1], e[1])
      BY <2>4, <2>5 DEF Before
    <3> QED
      BY <3>1 DEF StoreInv
  <2>7. Number[f[1]] = n
    BY <1>1, <2>1, <2>2, <2>3, <2>6
  <2>8. f[1] = x
    BY <1>2, <2>1, <2>2, <2>7, Ancestry
  <2>9. n + 2 * R <= t
    BY <2>1, <2>2, <2>4, <2>5, <2>8 DEF StoreInv
  <2>10. t > n + R + MaxLag
    BY <1>1, <2>9
  <2>11. CompleteTo(n - R - 1, h, rows)
    <3> SUFFICES ASSUME NEW g \in Event, OnChain(g[1], h), EventNumber(g) > Skip,
                        EventNumber(g) <= n - R - 1
                 PROVE  g \in rows
      BY DEF CompleteTo
    <3>1. g[1] \in Block /\ EventNumber(g) = Number[g[1]] /\ Number[g[1]] \in Nat
      BY EventIs, Zenon
    <3>2. EventNumber(g) < n /\ Number[g[1]] <= Number[x]
      BY <1>1, <1>2, <3>1
    <3>3. OnChain(g[1], x)
      BY <1>1, <1>2, <3>1, <3>2, Ancestry
    <3> QED
      BY <2>6, <3>2, <3>3
  <2> QED
    BY <1>2, <1>3, <2>10, <2>11 DEF Mode, Behind, x, mem
<1> QED
  BY <1>6, <1>7

\* ReadHandledBlocks: the memory, or the block of the last stored event.
LEMMA ReadHandledBlocksStep ==
  ASSUME IInv, ReadHandledBlocks
  PROVE  CoreInv' /\ UpdateInv'
<1>1. /\ pc = "idle" /\ pc' = "current"
      /\ UNCHANGED <<head, top, quiet, last_handled_blocks, store, history, latest,
                     latest_blocks, is_reorg, tail, cursor, buffer, have_deleted>>
  BY DEF ReadHandledBlocks, chainVars, streamVars
<1>2. /\ ChainOK(head, top) /\ StoreInv(store, head, top)
      /\ MemoryInv(last_handled_blocks, store, head, top) /\ store \in SUBSET Event
  BY DEF IInv, CoreInv, TypeOK
<1>3. /\ handled' # <<>> /\ Near(LastOf(handled'), head, top)
      /\ last_handled_blocks # <<>> => handled' = last_handled_blocks
      /\ Mode(handled', store, head, top)
  <2>1. CASE last_handled_blocks # <<>>
    BY <1>2, <2>1 DEF ReadHandledBlocks, MemoryInv
  <2>2. CASE last_handled_blocks = <<>>
    <3>1. PICK n \in 0 .. Number[head] :
             IsLastEventBlock(store, n) /\ handled' = <<Chain[head][n]>>
      BY <2>2 DEF ReadHandledBlocks
    <3>2. \A e \in store : OnChain(e[1], head)
      BY <1>2, <2>2 DEF MemoryInv
    <3>3. Mode(handled', store, head, top)
      BY <1>2, <3>1, <3>2, StoredMode
    <3>4. Number[head] \in Nat /\ head \in Block
      BY <1>2, Ancestry DEF ChainOK
    <3>5. Chain[head][n] \in Block /\ OnChain(Chain[head][n], head)
      BY <3>1, <3>4, Ancestor
    <3>6. Near(Chain[head][n], head, top)
      BY <1>2, <3>5, HeadNear
    <3>7. handled' # <<>> /\ LastOf(handled') = Chain[head][n]
      BY <3>1 DEF LastOf
    <3> QED
      BY <2>2, <3>3, <3>6, <3>7
  <2> QED
    BY <2>1, <2>2
<1>4. CoreInv'
  BY <1>1, CoreStays DEF IInv
<1>5. LocalInv' /\ SourceInv' /\ RangeInv' /\ FetchedInv' /\ TailInv' /\ StreamInv'
  <2>1. LocalInv'
    BY <1>1 DEF IInv, UpdateInv, LocalInv
  <2>2. SourceInv'
    BY <1>1, <1>3 DEF SourceInv
  <2> QED
    BY <1>1, <2>1, <2>2 DEF RangeInv, FetchedInv, TailInv, StreamInv
<1> QED
  BY <1>4, <1>5 DEF UpdateInv

\* A memory that is not settled is far below the current block.
LEMMA NotSettled ==
  ASSUME NEW h, NEW t, ChainOK(h, t), NEW mem \in Seq(Block), mem # <<>>, NEW rows,
         Mode(mem, rows, h, t)
  PROVE  /\ Number[h] <= Number[LastOf(mem)] + 1 => Settled(mem, rows)
         /\ Number[h] <= Number[LastOf(mem)] + R =>
              Settled(mem, rows) \/ Interrupted(mem, rows, h, t)
<1> DEFINE n == Number[LastOf(mem)]
<1>1. /\ h \in Block /\ t \in Nat /\ Number[h] \in Nat /\ t <= Number[h] + MaxLag
      /\ R \in Nat /\ R >= 1 /\ MaxLag \in Nat /\ MaxLag < R /\ n \in Nat
  BY LastOfType, Ancestry, Bounds DEF ChainOK
<1>2. Interrupted(mem, rows, h, t) => t > n + R
  BY DEF Interrupted
<1>3. Behind(mem, rows, h, t) => t > n + R + MaxLag
  BY DEF Behind
<1> HIDE DEF n
<1>4. t > n + R => ~(Number[h] <= n + 1)
  BY <1>1
<1>5. t > n + R + MaxLag => ~(Number[h] <= n + R)
  BY <1>1
<1>6. t > n + R + MaxLag => t > n + R
  BY <1>1
<1> QED
  BY <1>2, <1>3, <1>4, <1>5, <1>6 DEF Mode, n

\* CurrentIsNext: one block more only follows when the memory is settled.
LEMMA CurrentIsNextStep ==
  ASSUME IInv, CurrentIsNext
  PROVE  CoreInv' /\ UpdateInv'
<1> DEFINE L == LastOf(handled)
<1>1. /\ pc = "current" /\ pc' = "update" /\ latest_blocks' = <<head>> /\ IsParent(L, head)
      /\ UNCHANGED <<head, top, quiet, last_handled_blocks, store, history, latest, handled,
                     is_reorg, tail, cursor, buffer, have_deleted>>
  BY DEF CurrentIsNext, chainVars, streamVars
<1>2. /\ ChainOK(head, top) /\ StoreInv(store, head, top) /\ store \in SUBSET Event
      /\ handled \in Seq(Block) /\ handled # <<>> /\ Mode(handled, store, head, top)
      /\ last_handled_blocks # <<>> => handled = last_handled_blocks
      /\ last_handled_blocks \in Seq(Block)
  BY <1>1 DEF IInv, CoreInv, TypeOK, UpdateInv, SourceInv, LocalInv
<1>3. /\ L \in Block /\ head \in Block /\ Number[L] \in Nat /\ Number[head] = Number[L] + 1
      /\ OnChain(L, head) /\ R \in Nat /\ R >= 1
  <2>1. /\ L \in Block /\ head \in Block /\ Number[L] \in Nat /\ Number[head] = Number[L] + 1
        /\ Chain[head][Number[L]] = L
    BY <1>1, <1>2, LastOfType, Ancestry DEF ChainOK, IsParent
  <2>2. Number[L] <= Number[head]
    BY <2>1
  <2> QED
    BY <2>1, <2>2, Bounds DEF OnChain
<1>4. Settled(handled, store)
  <2>1. Number[head] <= Number[LastOf(handled)] + 1
    BY <1>3
  <2> QED
    BY <1>2, <2>1, NotSettled
<1> HIDE DEF L
<1>5. Segment(<<head>>, head, top)
  <2>1. /\ <<head>> # <<>> /\ Len(<<head>>) = 1 /\ DOMAIN <<head>> = {1}
        /\ <<head>>[1] = head /\ LastOf(<<head>>) = head
    BY DEF LastOf
  <2>2. OnChain(head, head) /\ Near(head, head, top)
    BY <1>2, <1>3, Ancestry, HeadNear
  <2>3. 1 <= 2 * R + 1 /\ Number[head] = Number[head] + 1 - 1
    BY <1>3
  <2> QED
    BY <2>1, <2>2, <2>3 DEF Segment
<1>6. ASSUME NEW e \in store PROVE OnChain(e[1], head) /\ EventNumber(e) < Number[head]
  <2>1. e[1] \in Block /\ EventNumber(e) = Number[e[1]] /\ Number[e[1]] \in Nat
    BY <1>2, EventIs, Zenon
  <2>2. OnChain(e[1], L)
    BY <1>4 DEF Settled, L
  <2>3. Number[e[1]] <= Number[L] /\ OnChain(e[1], head)
    BY <1>3, <2>1, <2>2, Ancestry
  <2> QED
    BY <1>3, <2>1, <2>3
<1>7. CompleteTo(Number[head] - 1, head, store)
  <2> SUFFICES ASSUME NEW f \in Event, OnChain(f[1], head), EventNumber(f) > Skip,
                      EventNumber(f) <= Number[head] - 1
               PROVE  f \in store
    BY DEF CompleteTo
  <2>1. f[1] \in Block /\ EventNumber(f) = Number[f[1]] /\ Number[f[1]] \in Nat
    BY EventIs, Zenon
  <2>2. Number[f[1]] <= Number[L]
    BY <1>3, <2>1
  <2>3. OnChain(f[1], L)
    BY <1>3, <2>1, <2>2, Ancestry
  <2> QED
    BY <1>4, <2>3 DEF Settled, Complete, L
<1>8. ASSUME NEW i \in DOMAIN last_handled_blocks PROVE OnChain(last_handled_blocks[i], head)
  <2>1. last_handled_blocks # <<>> /\ last_handled_blocks[i] \in Block
    BY <1>2
  <2>2. OnChain(last_handled_blocks[i], L)
    BY <1>2, <1>4, <2>1 DEF Settled, OneChain, L
  <2> QED
    BY <1>3, <2>1, <2>2, Ancestry
<1>9. Below(head, last_handled_blocks, store)
  BY <1>6, <1>7, <1>8 DEF Below
<1>10. CoreInv'
  BY <1>1, CoreStays DEF IInv
<1>11. LocalInv'
  BY <1>1 DEF IInv, UpdateInv, LocalInv
<1>12. FetchedInv'
  <2>1. latest_blocks'[1] = head
    BY <1>1
  <2>2. Segment(latest_blocks', head', top')
    BY <1>1, <1>5
  <2>3. Below(latest_blocks'[1], last_handled_blocks', store')
    BY <1>1, <1>9, <2>1
  <2>4. \A e \in store' : EventNumber(e) < Number[latest_blocks'[1]]
    BY <1>1, <1>6, <2>1
  <2> QED
    BY <1>1, <2>2, <2>3, <2>4 DEF FetchedInv
<1> QED
  BY <1>1, <1>10, <1>11, <1>12 DEF UpdateInv, SourceInv, RangeInv, TailInv, StreamInv

\* The two shapes of the range.
LEMMA RangeShape ==
  ASSUME NEW h, NEW t, ChainOK(h, t), NEW n \in Nat,
         NEW start, start = SaturatingSub(n, R), start <= Number[h]
  PROVE  \/ /\ SplitRange(start, Number[h]).history = NoRange
            /\ SplitRange(start, Number[h]).latest = <<start, Number[h]>>
            /\ start = n - R /\ 0 <= start /\ Number[h] <= start + 2 * R
         \/ /\ SplitRange(start, Number[h]).history = <<start, Number[h] - 2 * R>>
            /\ SplitRange(start, Number[h]).latest = <<Number[h] - 2 * R + 1, Number[h]>>
            /\ start < Number[h] - 2 * R
<1>1. /\ h \in Block /\ t \in Nat /\ Number[h] \in Nat /\ t <= Number[h] + MaxLag
      /\ Skip + 4 * R <= t /\ R \in Nat /\ R >= 1 /\ MaxLag \in Nat /\ MaxLag < R /\ Skip \in Nat
      /\ MAX_BLOCKS_QUERIED = 2 * R
  BY Ancestry, Bounds DEF ChainOK, MAX_BLOCKS_QUERIED, R
<1>2. start \in Nat /\ (n <= R => start = 0) /\ (n > R => start = n - R)
  BY <1>1 DEF SaturatingSub
<1>3. SaturatingSub(Number[h], start) = Number[h] - start
  BY <1>1, <1>2 DEF SaturatingSub
<1>4. CASE Number[h] - start > 2 * R
  <2>1. start < Number[h] - 2 * R
    BY <1>1, <1>2, <1>4
  <2>2. SplitRange(start, Number[h]) =
          [history |-> <<start, Number[h] - 2 * R>>,
           latest |-> <<Number[h] - 2 * R + 1, Number[h]>>]
    BY <1>1, <1>3, <1>4 DEF SplitRange
  <2> QED
    BY <2>1, <2>2
<1>5. CASE ~(Number[h] - start > 2 * R)
  <2>1. Number[h] <= start + 2 * R /\ n > R
    BY <1>1, <1>2, <1>5
  <2>2. start = n - R /\ 0 <= start
    BY <1>2, <2>1
  <2>3. SplitRange(start, Number[h]) =
          [history |-> NoRange, latest |-> <<start, Number[h]>>]
    BY <1>1, <1>3, <1>5 DEF SplitRange
  <2> QED
    BY <2>1, <2>2, <2>3
<1> QED
  BY <1>4, <1>5

\* CurrentNeedsRange: history is left out only when the store is consistent.
LEMMA CurrentNeedsRangeStep ==
  ASSUME IInv, CurrentNeedsRange
  PROVE  CoreInv' /\ UpdateInv'
<1> DEFINE L == LastOf(handled)
<1> DEFINE start == SaturatingSub(Number[L], R)
<1>1. /\ pc = "current" /\ pc' = "latest" /\ start <= Number[head]
      /\ history' = SplitRange(start, Number[head]).history
      /\ latest' = SplitRange(start, Number[head]).latest
      /\ UNCHANGED <<head, top, quiet, last_handled_blocks, store, handled, latest_blocks,
                     is_reorg, tail, cursor, buffer, have_deleted>>
  BY DEF CurrentNeedsRange, chainVars, streamVars, R
<1>2. /\ ChainOK(head, top) /\ store \in SUBSET Event /\ ~have_deleted
      /\ handled \in Seq(Block) /\ handled # <<>> /\ Mode(handled, store, head, top)
      /\ last_handled_blocks # <<>> => handled = last_handled_blocks
      /\ Near(L, head, top)
  BY <1>1 DEF IInv, CoreInv, TypeOK, UpdateInv, SourceInv, LocalInv
<1>3. /\ L \in Block /\ head \in Block /\ Number[L] \in Nat /\ Number[head] \in Nat
      /\ R \in Nat /\ R >= 1 /\ Number[head] <= top /\ start \in Nat
  BY <1>2, LastOfType, Ancestry, Bounds, SaturatingSubType DEF ChainOK
<1>4. ShortRange' \/ LongRange'
  <2>1. CASE /\ history' = NoRange /\ latest' = <<start, Number[head]>>
             /\ start = Number[L] - R /\ 0 <= start /\ Number[head] <= start + 2 * R
    <3>1. Number[head] <= Number[L] + R
      BY <1>3, <2>1
    <3>2. Settled(handled, store) \/ Interrupted(handled, store, head, top)
      BY <1>2, <3>1, NotSettled
    <3>3. latest'[1] = start /\ latest'[2] = Number[head]
      BY <2>1
    <3> QED
      BY <1>1, <2>1, <3>2, <3>3 DEF ShortRange
  <2>2. CASE /\ history' = <<start, Number[head] - 2 * R>>
             /\ latest' = <<Number[head] - 2 * R + 1, Number[head]>>
             /\ start < Number[head] - 2 * R
    <3>1. /\ history'[1] = start /\ history'[2] = Number[head] - 2 * R
          /\ latest'[1] = Number[head] - 2 * R + 1 /\ latest'[2] = Number[head]
      BY <2>2
    <3> HIDE DEF start
    <3>2. history'[2] # 0 /\ latest'[2] = history'[2] + 2 * R
      BY <1>3, <2>2, <3>1
    <3>3. history' # NoRange
      BY <3>2 DEF NoRange
    <3> QED
      BY <1>1, <1>3, <2>2, <3>1, <3>2, <3>3 DEF LongRange, start
  <2> QED
    BY <1>1, <1>2, <1>3, <2>1, <2>2, RangeShape
<1> HIDE DEF L
<1>5. CoreInv'
  BY <1>1, CoreStays DEF IInv
<1>6. LocalInv'
  BY <1>1 DEF IInv, UpdateInv, LocalInv
<1>7. SourceInv'
  BY <1>1, <1>2 DEF SourceInv, L
<1> QED
  BY <1>1, <1>4, <1>5, <1>6, <1>7 DEF UpdateInv, RangeInv, FetchedInv, TailInv, StreamInv

\* What the node answers to a request for blocks.
LEMMA BlocksAre ==
  ASSUME ChainOK(head, top), NEW lo \in Nat, NEW hi \in Nat, lo <= hi, hi <= Number[head],
         NEW bs, bs = Blocks(lo, hi)
  PROVE  /\ bs \in Seq(Block) /\ bs # <<>> /\ Len(bs) = hi - lo + 1
         /\ DOMAIN bs = 1 .. (hi - lo + 1)
         /\ \A i \in DOMAIN bs : /\ bs[i] \in Block /\ Number[bs[i]] = lo + i - 1
                                 /\ OnChain(bs[i], head)
         /\ \A i, j \in DOMAIN bs : i <= j => OnChain(bs[i], bs[j])
<1>1. head \in Block /\ Number[head] \in Nat
  BY Ancestry DEF ChainOK
<1>2. bs \in Seq(Block)
  BY <1>1, BlocksType
<1>3. DOMAIN bs = 1 .. (hi - lo + 1) /\ hi - lo + 1 \in Nat /\ hi - lo + 1 >= 1
  BY DEF Blocks
<1>4. Len(bs) = hi - lo + 1
  BY <1>2, <1>3
<1>5. ASSUME NEW i \in DOMAIN bs
      PROVE  /\ bs[i] \in Block /\ Number[bs[i]] = lo + i - 1 /\ OnChain(bs[i], head)
  <2>1. lo + i - 1 \in Nat /\ lo + i - 1 <= Number[head]
    BY <1>1, <1>3
  <2>2. bs[i] = Chain[head][lo + i - 1]
    BY <1>3 DEF Blocks
  <2> QED
    BY <1>1, <2>1, <2>2, Ancestor
<1>6. ASSUME NEW i \in DOMAIN bs, NEW j \in DOMAIN bs, i <= j PROVE OnChain(bs[i], bs[j])
  <2>1. Number[bs[i]] <= Number[bs[j]]
    BY <1>3, <1>5, <1>6
  <2> QED
    BY <1>1, <1>5, <2>1, Ancestry
<1>7. bs # <<>>
  BY <1>3, <1>4
<1> QED
  BY <1>2, <1>3, <1>4, <1>5, <1>6, <1>7

\* An answer is a segment.
LEMMA BlocksSegment ==
  ASSUME ChainOK(head, top), NEW lo \in Nat, NEW hi \in Nat, lo <= hi, hi <= Number[head],
         hi <= lo + 2 * R, NEW bs, bs = Blocks(lo, hi)
  PROVE  /\ Segment(bs, head, top) /\ Number[bs[1]] = lo /\ OnChain(bs[1], head)
         /\ bs \in Seq(Block) /\ bs # <<>> /\ OneChain(bs)
         /\ LastOf(bs) \in Block /\ Number[LastOf(bs)] = hi /\ OnChain(LastOf(bs), head)
<1>1. /\ bs \in Seq(Block) /\ bs # <<>> /\ Len(bs) = hi - lo + 1 /\ DOMAIN bs = 1 .. (hi - lo + 1)
      /\ \A i \in DOMAIN bs : /\ bs[i] \in Block /\ Number[bs[i]] = lo + i - 1
                              /\ OnChain(bs[i], head)
      /\ \A i, j \in DOMAIN bs : i <= j => OnChain(bs[i], bs[j])
  BY BlocksAre
<1>2. /\ 1 \in DOMAIN bs /\ Len(bs) \in DOMAIN bs /\ R \in Nat
      /\ \A i \in DOMAIN bs : i <= Len(bs) /\ i \in Nat
  BY <1>1, Bounds
<1>3. Number[bs[1]] = lo /\ LastOf(bs) = bs[Len(bs)] /\ Number[LastOf(bs)] = hi
  <2>1. Number[bs[1]] = lo + 1 - 1 /\ Number[bs[Len(bs)]] = lo + (hi - lo + 1) - 1
    BY <1>1, <1>2
  <2> QED
    BY <2>1 DEF LastOf
<1>4. Len(bs) <= 2 * R + 1
  BY <1>1, <1>2
<1>5. ASSUME NEW i \in DOMAIN bs
      PROVE  /\ Number[bs[i]] = Number[bs[1]] + i - 1 /\ OnChain(bs[i], LastOf(bs))
             /\ Near(bs[i], head, top)
  BY <1>1, <1>2, <1>3, HeadNear
<1> QED
  BY <1>1, <1>2, <1>3, <1>4, <1>5 DEF Segment, OneChain

\* FetchLatestWithHistory: the latest blocks start right above history.
LEMMA FetchLatestWithHistoryStep ==
  ASSUME IInv, FetchLatestWithHistory
  PROVE  CoreInv' /\ UpdateInv'
<1>1. /\ pc = "latest" /\ pc' = "history" /\ history # NoRange /\ latest[2] <= Number[head]
      /\ latest_blocks' = Blocks(latest[1], latest[2]) /\ is_reorg' = TRUE
      /\ UNCHANGED <<head, top, quiet, last_handled_blocks, store, handled, history, latest,
                     tail, cursor, buffer, have_deleted>>
  BY DEF FetchLatestWithHistory, chainVars, streamVars
<1>2. LongRange
  BY <1>1 DEF IInv, UpdateInv, RangeInv, ShortRange
<1>3. /\ history[2] \in Nat /\ latest[1] \in Nat /\ latest[2] \in Nat /\ R \in Nat /\ R >= 1
      /\ latest[1] = history[2] + 1 /\ latest[2] = history[2] + 2 * R
  BY <1>2, RangeTypes, Bounds DEF IInv, LongRange
<1>4. latest[1] <= latest[2] /\ latest[2] <= latest[1] + 2 * R
  BY <1>3
<1>5. /\ Segment(latest_blocks', head, top) /\ Number[latest_blocks'[1]] = latest[1]
      /\ OnChain(latest_blocks'[1], head)
  BY <1>1, <1>3, <1>4, BlocksSegment DEF IInv, CoreInv
<1>6. CoreInv'
  BY <1>1, CoreStays DEF IInv
<1>7. LocalInv'
  BY <1>1 DEF IInv, UpdateInv, LocalInv
<1>8. SourceInv'
  BY <1>1 DEF SourceInv, IInv, UpdateInv
<1>9. RangeInv'
  BY <1>1, <1>2 DEF RangeInv, LongRange
<1>10. FetchedInv'
  BY <1>1, <1>5 DEF FetchedInv
<1> QED
  BY <1>1, <1>6, <1>7, <1>8, <1>9, <1>10 DEF UpdateInv, TailInv, StreamInv

\* FetchTail: nothing is read yet.
LEMMA FetchTailStep ==
  ASSUME IInv, FetchTail
  PROVE  CoreInv' /\ UpdateInv'
<1> DEFINE lo == SaturatingSub(history[2], R)
<1>1. /\ pc = "history" /\ pc' = "stream" /\ history[2] <= Number[head]
      /\ tail' = Blocks(lo, history[2]) /\ cursor' = history[1]
      /\ UNCHANGED <<head, top, quiet, last_handled_blocks, store, handled, history, latest,
                     latest_blocks, is_reorg, buffer, have_deleted>>
  BY DEF FetchTail, chainVars, rangeVars, R
<1>2. LongRange /\ ChainOK(head, top) /\ TypeOK
  BY <1>1 DEF IInv, UpdateInv, RangeInv, CoreInv
<1>3. /\ history[1] \in Nat /\ history[2] \in Nat /\ R \in Nat /\ R >= 1
      /\ history[1] < history[2]
  BY <1>2, RangeTypes, Bounds DEF LongRange
<1>4. lo \in Nat /\ lo <= history[2] /\ history[2] <= lo + 2 * R /\ (lo = 0 \/ lo = history[2] - R)
  BY <1>3 DEF SaturatingSub
<1> HIDE DEF lo
<1>5. /\ tail' # <<>> /\ OneChain(tail') /\ Number[LastOf(tail')] = history[2]
      /\ OnChain(LastOf(tail'), head) /\ Number[tail'[1]] = lo
  BY <1>1, <1>2, <1>3, <1>4, BlocksSegment
<1>6. Len(tail') >= R \/ Number[tail'[1]] = 0
  <2>1. Len(tail') = history[2] - lo + 1
    BY <1>1, <1>2, <1>3, <1>4, BlocksAre
  <2> QED
    BY <1>3, <1>4, <1>5, <2>1
<1>7. TailInv'
  BY <1>1, <1>5, <1>6 DEF TailInv
<1>8. StreamInv'
  <2>1. buffer = {} /\ ~have_deleted
    BY <1>1 DEF IInv, UpdateInv, LocalInv
  <2>2. history[1] <= history[1] /\ history[1] <= history[2] + 1
    BY <1>3
  <2>3. EventsBetween(history[1], history[1], head) = {}
    <3>1. \A f \in Event : ~(history[1] <= EventNumber(f) /\ EventNumber(f) < history[1])
      <4> SUFFICES ASSUME NEW f \in Event
                   PROVE  ~(history[1] <= EventNumber(f) /\ EventNumber(f) < history[1])
        OBVIOUS
      <4>1. EventNumber(f) \in Nat
        BY EventIs
      <4> QED
        BY <1>3, <4>1
    <3> QED
      BY <3>1 DEF EventsBetween
  <2> QED
    BY <1>1, <2>1, <2>2, <2>3 DEF StreamInv
<1>9. CoreInv'
  BY <1>1, CoreStays DEF IInv
<1>10. LocalInv'
  BY <1>1 DEF IInv, UpdateInv, LocalInv
<1>11. SourceInv'
  BY <1>1 DEF SourceInv, IInv, UpdateInv
<1>12. RangeInv'
  BY <1>1, <1>2 DEF RangeInv, LongRange
<1>13. FetchedInv'
  BY <1>1 DEF FetchedInv, IInv, UpdateInv
<1> QED
  BY <1>7, <1>8, <1>9, <1>10, <1>11, <1>12, <1>13 DEF UpdateInv

\* StreamPage: the buffer grows by the events of the node's next block.
LEMMA StreamPageStep ==
  ASSUME IInv, StreamPage
  PROVE  CoreInv' /\ UpdateInv'
<1> DEFINE c == Chain[head][cursor]
<1>1. /\ pc = "stream" /\ cursor <= history[2] /\ cursor <= Number[head]
      /\ buffer' = buffer \cup Events(c) /\ cursor' = cursor + 1
      /\ UNCHANGED <<head, top, quiet, last_handled_blocks, store, pc, handled, history, latest,
                     latest_blocks, is_reorg, tail, have_deleted>>
  BY DEF StreamPage, chainVars, rangeVars
<1>2. LongRange /\ ChainOK(head, top) /\ TypeOK
  BY <1>1 DEF IInv, UpdateInv, RangeInv, CoreInv
<1>3. /\ history[1] \in Nat /\ history[2] \in Nat /\ cursor \in Nat /\ store \in SUBSET Event
      /\ head \in Block /\ Number[head] \in Nat
  BY <1>2, RangeTypes, Ancestry DEF TypeOK
<1>4. /\ c \in Block /\ Number[c] = cursor /\ OnChain(c, head)
      /\ \A a \in Block : OnChain(a, head) /\ Number[a] = cursor => a = c
  BY <1>1, <1>3, Ancestor
<1>5. history[1] <= cursor
  BY <1>1 DEF IInv, UpdateInv, StreamInv
<1>6. EventsBetween(history[1], cursor + 1, head) =
        EventsBetween(history[1], cursor, head) \cup Events(c)
  <2>1. ASSUME NEW f \in EventsBetween(history[1], cursor + 1, head), f \notin Events(c)
        PROVE  f \in EventsBetween(history[1], cursor, head)
    <3>1. /\ f \in Event /\ OnChain(f[1], head) /\ history[1] <= EventNumber(f)
          /\ EventNumber(f) < cursor + 1
      BY DEF EventsBetween
    <3>2. /\ f[1] \in Block /\ EventNumber(f) = Number[f[1]] /\ EventNumber(f) \in Nat
          /\ f \in Events(f[1])
      BY <3>1, EventIs, Zenon
    <3>3. EventNumber(f) # cursor
      BY <1>4, <2>1, <3>1, <3>2
    <3>4. EventNumber(f) < cursor
      BY <1>3, <3>1, <3>2, <3>3
    <3> QED
      BY <3>1, <3>4 DEF EventsBetween
  <2>2. ASSUME NEW f \in EventsBetween(history[1], cursor, head)
        PROVE  f \in EventsBetween(history[1], cursor + 1, head)
    <3>1. /\ f \in Event /\ OnChain(f[1], head) /\ history[1] <= EventNumber(f)
          /\ EventNumber(f) < cursor
      BY DEF EventsBetween
    <3>2. EventNumber(f) \in Nat
      BY <3>1, EventIs
    <3>3. EventNumber(f) < cursor + 1
      BY <1>3, <3>1, <3>2
    <3> QED
      BY <3>1, <3>3 DEF EventsBetween
  <2>3. ASSUME NEW f \in Events(c) PROVE f \in EventsBetween(history[1], cursor + 1, head)
    <3>1. f \in Event /\ f[1] = c
      BY <1>4, EventIs
    <3>2. EventNumber(f) = cursor
      BY <1>4, <3>1 DEF EventNumber
    <3>3. history[1] <= cursor /\ cursor < cursor + 1
      BY <1>3, <1>5
    <3> QED
      BY <1>4, <3>1, <3>2, <3>3 DEF EventsBetween
  <2> QED
    BY <2>1, <2>2, <2>3
<1>7. StreamInv'
  <2>1. history[1] <= cursor + 1 /\ cursor + 1 <= history[2] + 1
    BY <1>1, <1>3, <1>5
  <2>2. ~have_deleted => buffer' = EventsBetween(history[1], cursor + 1, head)
    BY <1>1, <1>6 DEF IInv, UpdateInv, StreamInv
  <2>3. ASSUME have_deleted
        PROVE /\ buffer' = EventsBetween(history[1], cursor + 1, head) \ store
              /\ \A e \in store : OnChain(e[1], head) /\ EventNumber(e) < cursor + 1
              /\ \A e \in store, f \in buffer' : Before(e, f)
              /\ CompleteTo(history[1] - 1, head, store)
    <3>1. /\ buffer = EventsBetween(history[1], cursor, head) \ store
          /\ \A e \in store : OnChain(e[1], head) /\ EventNumber(e) < cursor
          /\ \A e \in store, f \in buffer : Before(e, f)
          /\ CompleteTo(history[1] - 1, head, store)
      BY <1>1, <2>3 DEF IInv, UpdateInv, StreamInv
    <3>2. ASSUME NEW e \in store, NEW f \in Events(c) PROVE Before(e, f) /\ e # f
      <4>1. f[1] = c /\ EventNumber(f) = cursor
        BY <1>4, EventIs DEF EventNumber
      <4>2. EventNumber(e) < cursor /\ EventNumber(e) \in Nat
        BY <1>3, <3>1, EventIs
      <4>3. EventNumber(e) # EventNumber(f)
        BY <1>3, <4>1, <4>2
      <4> QED
        BY <4>1, <4>2, <4>3 DEF Before
    <3>3. buffer' = EventsBetween(history[1], cursor + 1, head) \ store
      BY <1>1, <1>6, <3>1, <3>2
    <3>4. \A e \in store, f \in buffer' : Before(e, f)
      BY <1>1, <3>1, <3>2
    <3>5. ASSUME NEW e \in store PROVE EventNumber(e) < cursor + 1
      <4>1. EventNumber(e) < cursor /\ EventNumber(e) \in Nat
        BY <1>3, <3>1, EventIs
      <4> QED
        BY <1>3, <4>1
    <3> QED
      BY <3>1, <3>3, <3>4, <3>5
  <2> QED
    BY <1>1, <2>1, <2>2, <2>3 DEF StreamInv
<1> HIDE DEF c
<1>8. CoreInv'
  BY <1>1, CoreStays DEF IInv
<1>9. LocalInv'
  BY <1>1 DEF IInv, UpdateInv, LocalInv
<1>10. SourceInv'
  BY <1>1 DEF SourceInv, IInv, UpdateInv
<1>11. RangeInv'
  BY <1>1, <1>2 DEF RangeInv, LongRange
<1>12. FetchedInv'
  BY <1>1 DEF FetchedInv, IInv, UpdateInv
<1>13. TailInv'
  BY <1>1 DEF TailInv, IInv, UpdateInv
<1> QED
  BY <1>7, <1>8, <1>9, <1>10, <1>11, <1>12, <1>13 DEF UpdateInv

\* The store and the memory are right up to a handled block that is still canonical.
LEMMA OnCommon ==
  ASSUME NEW h, NEW t, ChainOK(h, t), NEW rows \in SUBSET Event,
         NEW mem \in Seq(Block), mem # <<>>,
         Settled(mem, rows) \/ Interrupted(mem, rows, h, t),
         NEW c \in Block, OnChain(c, LastOf(mem)), OnChain(c, h)
  PROVE  /\ \A e \in rows : EventNumber(e) <= Number[c] => OnChain(e[1], c)
         /\ CompleteTo(Number[c], c, rows)
         /\ \A i \in DOMAIN mem : Number[mem[i]] <= Number[c] => OnChain(mem[i], c)
<1> DEFINE L == LastOf(mem)
<1>1. L \in Block /\ h \in Block /\ Number[c] \in Nat /\ Number[L] \in Nat /\ Number[c] <= Number[L]
  BY LastOfType, Ancestry DEF ChainOK
<1>2. ASSUME NEW e \in rows, EventNumber(e) <= Number[c] PROVE OnChain(e[1], c)
  <2>1. e[1] \in Block /\ EventNumber(e) = Number[e[1]]
    BY EventIs, Zenon
  <2>2. OnChain(e[1], L) \/ OnChain(e[1], h)
    BY DEF Settled, Interrupted
  <2> QED
    BY <1>1, <1>2, <2>1, <2>2, Ancestry
<1>3. ASSUME NEW f \in Event, OnChain(f[1], c), EventNumber(f) > Skip PROVE f \in rows
  <2>1. f[1] \in Block /\ EventNumber(f) = Number[f[1]] /\ Number[f[1]] \in Nat
    BY EventIs, Zenon
  <2>2. OnChain(f[1], L) /\ OnChain(f[1], h) /\ Number[f[1]] <= Number[L]
    BY <1>1, <1>3, <2>1, Ancestry
  <2> QED
    BY <1>3, <2>1, <2>2 DEF Settled, Interrupted, Complete, CompleteTo
<1>4. ASSUME NEW i \in DOMAIN mem, Number[mem[i]] <= Number[c] PROVE OnChain(mem[i], c)
  <2>1. OnChain(mem[i], L) /\ mem[i] \in Block
    BY DEF Settled, Interrupted, OneChain
  <2> QED
    BY <1>1, <1>4, <2>1, Ancestry
<1> QED
  BY <1>2, <1>3, <1>4 DEF CompleteTo

\* From a handled block to its successor.
LEMMA BelowNext ==
  ASSUME NEW rows \in SUBSET Event, NEW mem \in Seq(Block), NEW c \in Block,
         \A e \in rows : EventNumber(e) <= Number[c] => OnChain(e[1], c),
         CompleteTo(Number[c], c, rows),
         \A i \in DOMAIN mem : Number[mem[i]] <= Number[c] => OnChain(mem[i], c),
         NEW b \in Block, OnChain(c, b), Number[b] = Number[c] \/ Number[b] = Number[c] + 1
  PROVE  Below(b, mem, rows)
<1>1. Number[b] \in Nat /\ Number[c] \in Nat
  BY Ancestry
<1>2. \A n \in Nat : n < Number[b] => n <= Number[c]
  BY <1>1
<1>3. \A n \in Nat : n <= Number[b] - 1 => n <= Number[c]
  BY <1>1
<1>4. ASSUME NEW e \in rows, EventNumber(e) < Number[b] PROVE OnChain(e[1], b)
  <2>1. e[1] \in Block /\ EventNumber(e) \in Nat
    BY EventIs, Zenon
  <2>2. OnChain(e[1], c)
    BY <1>2, <1>4, <2>1
  <2> QED
    BY <2>1, <2>2, Ancestry
<1>5. CompleteTo(Number[b] - 1, b, rows)
  <2> SUFFICES ASSUME NEW f \in Event, OnChain(f[1], b), EventNumber(f) > Skip,
                      EventNumber(f) <= Number[b] - 1
               PROVE  f \in rows
    BY DEF CompleteTo
  <2>1. f[1] \in Block /\ EventNumber(f) = Number[f[1]] /\ EventNumber(f) \in Nat
    BY EventIs, Zenon
  <2>2. EventNumber(f) <= Number[c]
    BY <1>3, <2>1
  <2>3. OnChain(f[1], c)
    BY <2>1, <2>2, Ancestry
  <2> QED
    BY <2>2, <2>3 DEF CompleteTo
<1>6. ASSUME NEW i \in DOMAIN mem, Number[mem[i]] < Number[b] PROVE OnChain(mem[i], b)
  <2>1. mem[i] \in Block /\ Number[mem[i]] \in Nat
    BY Ancestry
  <2>2. OnChain(mem[i], c)
    BY <1>2, <1>6, <2>1
  <2> QED
    BY <2>1, <2>2, Ancestry
<1> QED
  BY <1>4, <1>5, <1>6 DEF Below

\* A memory below which nothing is retained.
LEMMA BelowAny ==
  ASSUME NEW b, NEW mem, NEW mem2, NEW rows, Below(b, mem, rows), mem2 # <<>> => mem2 = mem,
         mem2 \in Seq(Block)
  PROVE  Below(b, mem2, rows)
BY DEF Below

\* What remains of a list without its first m elements.
LEMMA EndOfList ==
  ASSUME NEW S, NEW bs \in Seq(S), NEW m \in Nat, m < Len(bs)
  PROVE  /\ SubSeq(bs, m + 1, Len(bs)) \in Seq(S)
         /\ Len(SubSeq(bs, m + 1, Len(bs))) = Len(bs) - m
         /\ \A i \in 1 .. (Len(bs) - m) : SubSeq(bs, m + 1, Len(bs))[i] = bs[m + i]
<1>1. Len(bs) \in Nat
  OBVIOUS
<1>2. m + 1 \in Int /\ Len(bs) \in Int /\ \A i \in (m + 1) .. Len(bs) : bs[i] \in S
  BY <1>1
<1>3. /\ SubSeq(bs, m + 1, Len(bs)) \in Seq(S)
      /\ Len(SubSeq(bs, m + 1, Len(bs))) = IF m + 1 <= Len(bs) THEN Len(bs) - (m + 1) + 1 ELSE 0
      /\ \A i \in 1 .. (Len(bs) - (m + 1) + 1) :
           SubSeq(bs, m + 1, Len(bs))[i] = bs[(m + 1) + i - 1]
  BY <1>2, SubSeqProperties
<1>4. m + 1 <= Len(bs) /\ Len(bs) - (m + 1) + 1 = Len(bs) - m
  BY <1>1
<1>5. \A i \in 1 .. (Len(bs) - m) : (m + 1) + i - 1 = m + i
  BY <1>1
<1> QED
  BY <1>3, <1>4, <1>5

\* The end of a segment.
LEMMA SegmentEnd ==
  ASSUME NEW h, NEW t, NEW bs \in Seq(Block), Segment(bs, h, t),
         NEW m \in 1 .. Len(bs), SubSeq(bs, m + 1, Len(bs)) # <<>>
  PROVE  /\ Segment(SubSeq(bs, m + 1, Len(bs)), h, t)
         /\ SubSeq(bs, m + 1, Len(bs))[1] \in Block
         /\ Number[SubSeq(bs, m + 1, Len(bs))[1]] = Number[bs[m]] + 1
         /\ OnChain(bs[m], SubSeq(bs, m + 1, Len(bs))[1])
<1> DEFINE ss == SubSeq(bs, m + 1, Len(bs))
<1>1. m \in Nat /\ Len(bs) \in Nat /\ R \in Nat /\ DOMAIN bs = 1 .. Len(bs)
  BY Bounds
<1>2. m < Len(bs)
  <2>1. CASE Len(bs) < m + 1
    <3>1. ss = <<>>
      BY <1>1, <2>1, SubSeqEmpty
    <3> QED
      BY <3>1
  <2> QED
    BY <1>1, <2>1
<1>3. /\ ss \in Seq(Block) /\ Len(ss) = Len(bs) - m
      /\ \A i \in 1 .. (Len(bs) - m) : ss[i] = bs[m + i]
  BY <1>1, <1>2, EndOfList
<1> HIDE DEF ss
<1>4. /\ DOMAIN ss = 1 .. (Len(bs) - m) /\ 1 \in DOMAIN ss /\ Len(ss) \in DOMAIN ss
      /\ m + Len(ss) = Len(bs) /\ m + 1 \in DOMAIN bs /\ m \in DOMAIN bs
      /\ \A i \in DOMAIN ss : m + i \in DOMAIN bs
  BY <1>1, <1>2, <1>3
<1>5. ss[1] = bs[m + 1] /\ LastOf(ss) = LastOf(bs) /\ LastOf(bs) \in Block
  <2>1. ss[Len(ss)] = bs[m + Len(ss)] /\ ss[1] = bs[m + 1]
    BY <1>3, <1>4
  <2>2. bs[Len(bs)] \in Block
    BY <1>1, <1>2
  <2> QED
    BY <1>4, <2>1, <2>2 DEF LastOf
<1>6. \A i \in DOMAIN bs : /\ Number[bs[i]] = Number[bs[1]] + i - 1 /\ OnChain(bs[i], LastOf(bs))
                           /\ Near(bs[i], h, t) /\ bs[i] \in Block /\ Number[bs[i]] \in Nat
  BY Ancestry DEF Segment
<1>7. bs[1] \in Block /\ Number[bs[1]] \in Nat
  BY <1>1, Ancestry
<1>8. ss[1] \in Block /\ Number[ss[1]] = Number[bs[m]] + 1 /\ OnChain(bs[m], ss[1])
  <2>1. Number[bs[m + 1]] = Number[bs[1]] + (m + 1) - 1 /\ Number[bs[m]] = Number[bs[1]] + m - 1
    BY <1>4, <1>6
  <2>2. Number[bs[m + 1]] = Number[bs[m]] + 1 /\ Number[bs[m]] <= Number[bs[m + 1]]
    <3>1. m \in Nat /\ Number[bs[1]] \in Nat
      BY <1>1, <1>7
    <3> QED
      BY <2>1, <3>1
  <2> QED
    BY <1>4, <1>5, <1>6, <2>2, Ancestry
<1>9. ASSUME NEW i \in DOMAIN ss
      PROVE  /\ Number[ss[i]] = Number[ss[1]] + i - 1 /\ OnChain(ss[i], LastOf(ss))
             /\ Near(ss[i], h, t)
  <2>1. ss[i] = bs[m + i] /\ i \in Nat /\ m + i \in DOMAIN bs
    <3>1. i \in 1 .. (Len(bs) - m) /\ m + i \in DOMAIN bs
      BY <1>4
    <3> QED
      BY <1>3, <3>1
  <2>2. /\ Number[bs[m + i]] = Number[bs[1]] + (m + i) - 1
        /\ Number[bs[m + 1]] = Number[bs[1]] + (m + 1) - 1
    BY <1>4, <1>6, <2>1
  <2>3. Number[ss[i]] = Number[ss[1]] + i - 1
    <3>1. /\ Number[ss[i]] = Number[bs[1]] + (m + i) - 1
          /\ Number[ss[1]] = Number[bs[1]] + (m + 1) - 1
      BY <1>5, <2>1, <2>2, Zenon
    <3>2. m \in Nat /\ i \in Nat /\ Number[bs[1]] \in Nat
      BY <1>1, <1>7, <2>1
    <3> QED
      BY <3>1, <3>2
  <2> QED
    BY <1>5, <1>6, <2>1, <2>3
<1>10. Len(ss) <= 2 * R + 1
  <2>1. Len(bs) <= 2 * R + 1
    BY DEF Segment
  <2> QED
    BY <1>1, <1>3, <2>1
<1>11. ss # <<>>
  BY DEF ss
<1>12. Segment(ss, h, t)
  BY <1>9, <1>10, <1>11 DEF Segment
<1> QED
  BY <1>8, <1>12 DEF ss

\* What DetectReorgPath leaves to do.
LEMMA PathIs ==
  ASSUME NEW old \in Seq(Block), old # <<>>, NEW new \in Seq(Block),
         NEW path \in DetectReorgPath(old, new)
  PROVE  \/ path.blocks = new /\ path.reorg
         \/ \E i \in DOMAIN old, m \in 1 .. Len(new) :
              /\ old[i] = new[m] /\ path.blocks = SubSeq(new, m + 1, Len(new))
              /\ path.reorg \/ old[i] = LastOf(old)
<1>1. CASE Common(old, new) = {}
  <2>1. path = [blocks |-> new, reorg |-> old # <<>>]
    BY <1>1 DEF DetectReorgPath
  <2> QED
    BY <2>1
<1>2. CASE Common(old, new) # {}
  <2>1. PICK p \in Common(old, new) :
          path = [blocks |-> SubSeq(new, p[2] + 1, Len(new)), reorg |-> old[p[1]] # LastOf(old)]
    BY <1>2 DEF DetectReorgPath
  <2>2. p[1] \in DOMAIN old /\ p[2] \in 1 .. Len(new) /\ old[p[1]] = new[p[2]]
    BY <2>1 DEF Common
  <2>3. /\ path.blocks = SubSeq(new, p[2] + 1, Len(new))
        /\ path.reorg = (old[p[1]] # LastOf(old))
    BY <2>1
  <2>4. path.reorg \/ old[p[1]] = LastOf(old)
    BY <2>3
  <2> QED
    BY <2>2, <2>3, <2>4
<1> QED
  BY <1>1, <1>2

\* FetchLatestOnly: the path starts above a handled block that is still canonical, or at
\* the final block R below the last handled one.
LEMMA FetchLatestOnlyStep ==
  ASSUME IInv, FetchLatestOnly
  PROVE  CoreInv' /\ UpdateInv'
<1> DEFINE L == LastOf(handled)
<1> DEFINE new == Blocks(latest[1], latest[2])
<1>1. /\ pc = "latest" /\ history = NoRange /\ latest[2] <= Number[head]
      /\ UNCHANGED <<head, top, quiet, last_handled_blocks, store>>
  BY DEF FetchLatestOnly, chainVars
<1>2. CoreInv'
  BY <1>1, CoreStays DEF IInv
<1>3. /\ ChainOK(head, top) /\ store \in SUBSET Event
      /\ handled \in Seq(Block) /\ handled # <<>> /\ last_handled_blocks \in Seq(Block)
      /\ last_handled_blocks # <<>> => handled = last_handled_blocks
      /\ Near(L, head, top) /\ buffer = {} /\ ~have_deleted
  BY <1>1 DEF IInv, CoreInv, TypeOK, UpdateInv, SourceInv, LocalInv
<1>4. ShortRange
  BY <1>1 DEF IInv, UpdateInv, RangeInv, LongRange
<1>5. /\ latest[1] \in Nat /\ latest[2] \in Nat /\ latest[1] = Number[L] - R
      /\ latest[1] <= latest[2] /\ latest[2] <= latest[1] + 2 * R
      /\ Settled(handled, store) \/ Interrupted(handled, store, head, top)
  BY <1>4, RangeTypes DEF ShortRange, IInv
<1>6. L \in Block /\ Number[L] \in Nat /\ R \in Nat /\ head \in Block
  BY <1>3, LastOfType, Ancestry, Bounds DEF ChainOK
<1>7. /\ Segment(new, head, top) /\ Number[new[1]] = latest[1] /\ OnChain(new[1], head)
      /\ new \in Seq(Block) /\ new # <<>>
  BY <1>1, <1>3, <1>5, BlocksSegment
<1>8. PICK path \in DetectReorgPath(handled, new) :
         \/ /\ path.blocks = <<>>
            /\ Return
         \/ /\ path.blocks # <<>>
            /\ latest_blocks' = path.blocks
            /\ is_reorg' = path.reorg
            /\ pc' = "update"
            /\ UNCHANGED <<handled, history, latest, tail, cursor, buffer, have_deleted>>
  BY DEF FetchLatestOnly, streamVars
<1>9. CASE Return
  BY <1>2, <1>9, ReturnInv
<1>10. CASE /\ path.blocks # <<>> /\ latest_blocks' = path.blocks /\ is_reorg' = path.reorg
            /\ pc' = "update"
            /\ UNCHANGED <<handled, history, latest, tail, cursor, buffer, have_deleted>>
  <2> DEFINE bs == path.blocks
  <2>1. /\ Segment(bs, head, top) /\ Below(bs[1], handled, store)
        /\ path.reorg \/ \A e \in store : EventNumber(e) < Number[bs[1]]
    <3>1. CASE path.blocks = new /\ path.reorg
      <4>1. new[1] \in Block
        BY <1>7
      <4>2. OnChain(new[1], L)
        BY <1>3, <1>5, <1>6, <1>7, <4>1, NearBoth
      <4>3. OnChain(new[1], new[1])
        BY <4>1, Ancestry
      <4> HIDE DEF new
      <4>4. /\ \A e \in store : EventNumber(e) <= Number[new[1]] => OnChain(e[1], new[1])
            /\ CompleteTo(Number[new[1]], new[1], store)
            /\ \A i \in DOMAIN handled :
                 Number[handled[i]] <= Number[new[1]] => OnChain(handled[i], new[1])
        BY <1>3, <1>5, <1>7, <4>1, <4>2, OnCommon
      <4>5. Below(new[1], handled, store)
        BY <1>3, <4>1, <4>3, <4>4, BelowNext
      <4> QED
        BY <1>7, <3>1, <4>5
    <3>2. ASSUME NEW i \in DOMAIN handled, NEW m \in 1 .. Len(new),
                 handled[i] = new[m], path.blocks = SubSeq(new, m + 1, Len(new)),
                 path.reorg \/ handled[i] = L
          PROVE  /\ Segment(bs, head, top) /\ Below(bs[1], handled, store)
                 /\ path.reorg \/ \A e \in store : EventNumber(e) < Number[bs[1]]
      <4> DEFINE c == new[m]
      <4>1. c \in Block /\ OnChain(c, head)
        <5>1. \A j \in DOMAIN new : new[j] \in Block /\ OnChain(new[j], head)
          BY <1>1, <1>3, <1>5, BlocksAre
        <5>2. m \in DOMAIN new
          BY <1>7
        <5> QED
          BY <5>1, <5>2
      <4>2. OnChain(c, L)
        BY <1>5, <3>2 DEF Settled, Interrupted, OneChain
      <4>3. /\ Segment(bs, head, top) /\ bs[1] \in Block /\ Number[bs[1]] = Number[c] + 1
            /\ OnChain(c, bs[1])
        BY <1>7, <1>10, <3>2, SegmentEnd
      <4> HIDE DEF c, bs
      <4>4. /\ \A e \in store : EventNumber(e) <= Number[c] => OnChain(e[1], c)
            /\ CompleteTo(Number[c], c, store)
            /\ \A j \in DOMAIN handled : Number[handled[j]] <= Number[c] => OnChain(handled[j], c)
        BY <1>3, <1>5, <4>1, <4>2, OnCommon
      <4>5. Below(bs[1], handled, store)
        BY <1>3, <4>1, <4>3, <4>4, BelowNext
      <4>6. ASSUME c = L, NEW e \in store PROVE EventNumber(e) < Number[bs[1]]
        <5>1. e[1] \in Block /\ EventNumber(e) = Number[e[1]] /\ Number[e[1]] \in Nat
          BY <1>3, EventIs, Zenon
        <5>2. EventNumber(e) <= Number[L]
          <6>1. CASE Settled(handled, store)
            <7>1. OnChain(e[1], L)
              BY <6>1 DEF Settled
            <7> QED
              BY <1>6, <5>1, <7>1, Ancestry
          <6>2. CASE Interrupted(handled, store, head, top)
            BY <6>2 DEF Interrupted
          <6> QED
            BY <1>5, <6>1, <6>2
        <5> HIDE DEF L
        <5> QED
          BY <1>6, <4>3, <4>6, <5>1, <5>2
      <4> QED
        BY <3>2, <4>3, <4>5, <4>6 DEF c
    <3> QED
      BY <1>3, <1>7, <1>8, <3>1, <3>2, PathIs
  <2>2. Below(bs[1], last_handled_blocks, store)
    BY <1>3, <2>1, BelowAny
  <2>3. FetchedInv'
    BY <1>1, <1>10, <2>1, <2>2 DEF FetchedInv
  <2>4. LocalInv'
    BY <1>3, <1>10 DEF LocalInv
  <2> QED
    BY <1>2, <1>10, <2>3, <2>4 DEF UpdateInv, SourceInv, RangeInv, TailInv, StreamInv
<1> QED
  BY <1>8, <1>9, <1>10

----------------------------------------------------------------------------
(* Writing history.                                                        *)

\* A block has finitely many events below it.
LEMMA FiniteEvents ==
  ASSUME NEW b \in Block
  PROVE  IsFiniteSet({f \in Event : OnChain(f[1], b)})
<1> DEFINE F == [n \in 0 .. Number[b] |-> Events(Chain[b][n])]
<1> DEFINE S == {F[n] : n \in 0 .. Number[b]}
<1>1. Number[b] \in Nat
  BY Ancestry
<1>2. IsFiniteSet(0 .. Number[b])
  BY <1>1, FS_Interval
<1>3. F \in Surjection(0 .. Number[b], S)
  BY DEF Surjection
<1>4. IsFiniteSet(S)
  <2> HIDE DEF F, S
  <2> QED
    BY <1>2, <1>3, FS_Surjection
<1>5. ASSUME NEW c \in Block PROVE IsFiniteSet(Events(c))
  <2> DEFINE G == [i \in 1 .. NumEvents[c] |-> <<c, i>>]
  <2>1. NumEvents[c] \in Nat
    BY EventsAssumption
  <2>2. IsFiniteSet(1 .. NumEvents[c])
    BY <2>1, FS_Interval
  <2>3. G \in Surjection(1 .. NumEvents[c], Events(c))
    BY DEF Surjection, Events
  <2> HIDE DEF G
  <2> QED
    BY <2>2, <2>3, FS_Surjection
<1>6. \A X \in S : IsFiniteSet(X)
  <2>1. \A n \in 0 .. Number[b] : Chain[b][n] \in Block
    BY ChainAssumption
  <2> QED
    BY <1>5, <2>1
<1>7. IsFiniteSet(UNION S)
  <2> HIDE DEF S
  <2> QED
    BY <1>4, <1>6, FS_UNION
<1>8. {f \in Event : OnChain(f[1], b)} \subseteq UNION S
  <2> SUFFICES ASSUME NEW f \in Event, OnChain(f[1], b) PROVE f \in UNION S
    OBVIOUS
  <2>1. f[1] \in Block /\ f \in Events(f[1]) /\ Number[f[1]] \in Nat
    BY EventIs, Ancestry, Zenon
  <2>2. Number[f[1]] \in 0 .. Number[b] /\ Chain[b][Number[f[1]]] = f[1]
    BY <1>1, <2>1 DEF OnChain
  <2>3. F[Number[f[1]]] = Events(f[1])
    BY <2>2
  <2>4. Events(f[1]) \in S
    BY <2>2, <2>3
  <2> QED
    BY <2>1, <2>4
<1> HIDE DEF S
<1> QED
  BY <1>7, <1>8, FS_Subset

\* The order of events on one chain is strict and total.
LEMMA EventOrder ==
  ASSUME NEW h \in Block, NEW e \in Event, NEW f \in Event, OnChain(e[1], h), OnChain(f[1], h)
  PROVE  /\ ~(Before(e, f) /\ Before(f, e)) /\ ~Before(e, e)
         /\ Before(e, f) \/ e = f \/ Before(f, e)
         /\ SameIndex(e, f) => e = f
<1>1. /\ e[1] \in Block /\ f[1] \in Block /\ e[2] \in Nat /\ f[2] \in Nat
      /\ EventNumber(e) = Number[e[1]] /\ EventNumber(f) = Number[f[1]]
      /\ EventNumber(e) \in Nat /\ EventNumber(f) \in Nat
  BY EventIs, Zenon
<1>2. EventNumber(e) = EventNumber(f) => e[1] = f[1]
  BY <1>1, Ancestry
<1>3. EventNumber(e) = EventNumber(f) /\ e[2] = f[2] => e = f
  BY <1>2, EventIs
<1> QED
  BY <1>1, <1>3 DEF Before, SameIndex

\* A batch of consecutive events of the node's chain that starts no later than R below
\* height n contains what there is up to n.
LEMMA FullChunk ==
  ASSUME NEW h \in Block, NEW n \in Nat, n <= Number[h], NEW s \in Nat, n - R <= s,
         NEW rows \in SUBSET Event, NEW chunk \in SUBSET rows,
         Cardinality(chunk) = INSERT_EVENT_BATCH_SIZE,
         \A e \in chunk : OnChain(e[1], h) /\ s <= EventNumber(e),
         \A e \in chunk : \A f \in Event :
           (OnChain(f[1], h) /\ EventNumber(f) > Skip /\ Before(f, e)) => f \in rows,
         CompleteTo(s - 1, h, rows)
  PROVE  CompleteTo(n, h, rows)
<1> SUFFICES ASSUME NEW f \in Event, OnChain(f[1], h), EventNumber(f) > Skip,
                    EventNumber(f) <= n, f \notin rows
             PROVE  FALSE
  BY DEF CompleteTo
<1> DEFINE b == Chain[h][n]
<1> DEFINE A == {e \in Event : OnChain(e[1], b)}
<1> DEFINE W == {e \in Event : /\ OnChain(e[1], b)
                               /\ EventNumber(e) >= Number[b] - MAX_REORG_BLOCK_COUNT}
<1>1. b \in Block /\ Number[b] = n /\ OnChain(b, h)
  BY Ancestor
<1>2. IsFiniteSet(W)
  <2>1. IsFiniteSet(A)
    BY <1>1, FiniteEvents
  <2>2. W \in SUBSET A
    OBVIOUS
  <2> HIDE DEF A, W
  <2> QED
    BY <2>1, <2>2, FS_Subset
<1>3. Cardinality(W) <= INSERT_EVENT_BATCH_SIZE
  BY <1>1, BatchCoversReorgs
<1>4. R \in Nat /\ R = MAX_REORG_BLOCK_COUNT /\ Number[h] \in Nat
  BY Bounds, Ancestry DEF R
<1>5. \A e \in Event : OnChain(e[1], h) /\ s <= EventNumber(e) /\ EventNumber(e) <= n => e \in W
  <2> SUFFICES ASSUME NEW e \in Event, OnChain(e[1], h), s <= EventNumber(e), EventNumber(e) <= n
               PROVE  e \in W
    OBVIOUS
  <2>1. e[1] \in Block /\ EventNumber(e) = Number[e[1]] /\ EventNumber(e) \in Nat
    BY EventIs, Zenon
  <2> HIDE DEF b
  <2>2. OnChain(e[1], b)
    BY <1>1, <2>1, Ancestry
  <2>3. EventNumber(e) >= Number[b] - MAX_REORG_BLOCK_COUNT
    BY <1>1, <1>4, <2>1
  <2> QED
    BY <2>2, <2>3
<1>6. s <= EventNumber(f)
  <2>1. EventNumber(f) \in Nat
    BY EventIs
  <2>2. ~(EventNumber(f) <= s - 1)
    BY DEF CompleteTo
  <2> QED
    BY <2>1, <2>2
<1>7. f \in W
  BY <1>5, <1>6
<1> HIDE DEF b, A, W
<1>8. ASSUME NEW e \in chunk PROVE e \in W
  <2>1. OnChain(e[1], h) /\ s <= EventNumber(e) /\ e \in Event /\ e # f /\ ~Before(f, e)
    OBVIOUS
  <2>2. Before(e, f)
    BY <2>1, EventOrder
  <2>3. EventNumber(e) \in Nat /\ EventNumber(f) \in Nat
    BY <2>1, EventIs
  <2>4. EventNumber(e) <= n
    BY <2>2, <2>3 DEF Before
  <2> QED
    BY <1>5, <2>1, <2>4
<1>9. chunk \cup {f} \in SUBSET W /\ f \notin chunk /\ chunk \in SUBSET W
  BY <1>7, <1>8
<1>10. IsFiniteSet(chunk)
  BY <1>2, <1>9, FS_Subset
<1>11. Cardinality(chunk \cup {f}) = Cardinality(chunk) + 1
  BY <1>9, <1>10, FS_AddElement
<1>12. Cardinality(chunk \cup {f}) <= Cardinality(W) /\ Cardinality(W) \in Nat
  BY <1>2, <1>9, FS_Subset, FS_CardinalityType
<1>13. INSERT_EVENT_BATCH_SIZE \in Nat
  BY BatchAssumption
<1> QED
  BY <1>3, <1>11, <1>12, <1>13

\* The rows that a chunk is added to.
Base == IF have_deleted THEN store ELSE DeleteFrom(store, history[1])

\* The base is right, and what was read and not written comes next.
LEMMA StreamBase ==
  ASSUME IInv, pc = "stream"
  PROVE  /\ Base \in SUBSET Event
         /\ \A e \in Base : OnChain(e[1], head) /\ EventNumber(e) < cursor
         /\ buffer = EventsBetween(history[1], cursor, head) \ Base
         /\ \A e \in Base, f \in buffer : Before(e, f)
         /\ CompleteTo(history[1] - 1, head, Base)
<1>1. CASE have_deleted
  BY <1>1 DEF Base, IInv, TypeOK, UpdateInv, StreamInv
<1>2. CASE ~have_deleted
  <2> DEFINE n == Number[LastOf(handled)]
  <2>1. /\ ChainOK(head, top) /\ store \in SUBSET Event /\ handled \in Seq(Block)
        /\ handled # <<>> /\ Near(LastOf(handled), head, top) /\ Mode(handled, store, head, top)
        /\ LongRange /\ cursor \in Nat
    BY <1>2 DEF IInv, CoreInv, TypeOK, UpdateInv, SourceInv, RangeInv
  <2>2. /\ \A e \in store : EventNumber(e) < n - R => OnChain(e[1], head)
        /\ CompleteTo(n - R - 1, head, store)
    BY <2>1, ModeBase
  <2>3. /\ history[1] = SaturatingSub(n, R) /\ history[1] \in Nat /\ R \in Nat /\ n \in Nat
        /\ history[1] <= cursor /\ buffer = EventsBetween(history[1], cursor, head)
    BY <1>2, <2>1, RangeTypes, Bounds, LastOfType, Ancestry
    DEF LongRange, IInv, UpdateInv, StreamInv
  <2> HIDE DEF n
  <2>4. history[1] = 0 \/ history[1] = n - R
    BY <2>3 DEF SaturatingSub
  <2>5. Base = {e \in store : EventNumber(e) < history[1]}
    BY <1>2 DEF Base, DeleteFrom
  <2>6. ASSUME NEW e \in Base
        PROVE  /\ e \in Event /\ EventNumber(e) \in Nat /\ EventNumber(e) < history[1]
               /\ OnChain(e[1], head) /\ EventNumber(e) < cursor
    <3>1. e \in store /\ e \in Event /\ EventNumber(e) < history[1]
      BY <2>1, <2>5
    <3>2. EventNumber(e) \in Nat
      BY <3>1, EventIs
    <3>3. EventNumber(e) < n - R /\ EventNumber(e) < cursor
      BY <2>1, <2>3, <2>4, <3>1, <3>2
    <3> QED
      BY <2>2, <3>1, <3>2, <3>3
  <2>7. ASSUME NEW f \in buffer
        PROVE  f \in Event /\ EventNumber(f) \in Nat /\ history[1] <= EventNumber(f)
    <3>1. f \in Event /\ history[1] <= EventNumber(f)
      BY <2>3 DEF EventsBetween
    <3> QED
      BY <3>1, EventIs
  <2>8. ASSUME NEW e \in Base, NEW f \in buffer PROVE Before(e, f) /\ e # f
    <3>1. EventNumber(e) < EventNumber(f) /\ EventNumber(e) # EventNumber(f)
      BY <2>3, <2>6, <2>7
    <3> QED
      BY <3>1 DEF Before
  <2>9. CompleteTo(history[1] - 1, head, Base)
    <3> SUFFICES ASSUME NEW f \in Event, OnChain(f[1], head), EventNumber(f) > Skip,
                        EventNumber(f) <= history[1] - 1
                 PROVE  f \in Base
      BY DEF CompleteTo
    <3>1. EventNumber(f) \in Nat
      BY EventIs
    <3>2. EventNumber(f) < history[1] /\ EventNumber(f) <= n - R - 1
      BY <2>3, <2>4, <3>1
    <3> QED
      BY <2>2, <2>5, <3>2 DEF CompleteTo
  <2>10. buffer = EventsBetween(history[1], cursor, head) \ Base
    BY <2>3, <2>8
  <2> QED
    BY <2>6, <2>8, <2>9, <2>10
<1> QED
  BY <1>1, <1>2

\* A chunk never conflicts with a row.
LEMMA ChunkAdded ==
  ASSUME IInv, pc = "stream", NEW chunk \in SUBSET buffer, WriteChunk(chunk)
  PROVE  store' = Base \cup chunk
<1>1. store' = AppendEvents(Base, chunk)
  BY DEF WriteChunk, Base, ReplaceEvents
<1>2. ASSUME NEW e \in chunk, NEW r \in Base PROVE ~SameIndex(r, e)
  <2>1. Before(r, e)
    BY StreamBase
  <2>2. r \in Event /\ e \in Event
    BY StreamBase DEF IInv, TypeOK
  <2>3. r[2] \in Nat /\ e[2] \in Nat /\ EventNumber(r) \in Nat /\ EventNumber(e) \in Nat
    BY <2>2, EventIs
  <2> QED
    BY <2>1, <2>3 DEF Before, SameIndex
<1> QED
  BY <1>1, <1>2 DEF AppendEvents

\* The rows after a chunk: the first events of the node's chain.
LEMMA ChunkRows ==
  ASSUME IInv, pc = "stream", NEW chunk \in SUBSET buffer,
         \A e \in chunk : \A f \in buffer \ chunk : Before(e, f),
         NEW rows, rows = Base \cup chunk
  PROVE  /\ rows \in SUBSET Event
         /\ \A e \in rows : /\ OnChain(e[1], head) /\ EventNumber(e) < cursor
                            /\ EventNumber(e) <= history[2] /\ EventNumber(e) + 2 * R <= top
         /\ \A e \in rows : \A f \in Event :
              (OnChain(f[1], head) /\ EventNumber(f) > Skip /\ Before(f, e)) => f \in rows
         /\ CompleteTo(history[1] - 1, head, rows)
         /\ StoreInv(rows, head, top)
<1>1. /\ Base \in SUBSET Event /\ buffer \in SUBSET Event
      /\ \A e \in Base : OnChain(e[1], head) /\ EventNumber(e) < cursor
      /\ buffer = EventsBetween(history[1], cursor, head) \ Base
      /\ \A e \in Base, f \in buffer : Before(e, f)
      /\ CompleteTo(history[1] - 1, head, Base)
  BY StreamBase DEF IInv, TypeOK
<1>2. /\ history[1] \in Nat /\ history[2] \in Nat /\ cursor \in Nat /\ top \in Nat /\ R \in Nat
      /\ cursor <= history[2] + 1 /\ history[2] + 2 * R <= top /\ head \in Block
      /\ ChainOK(head, top)
  <2>1. LongRange /\ TypeOK /\ ChainOK(head, top) /\ StreamInv
    BY DEF IInv, CoreInv, UpdateInv, RangeInv
  <2> QED
    BY <2>1, RangeTypes, Bounds DEF LongRange, TypeOK, StreamInv
<1>3. ASSUME NEW e \in rows
      PROVE  /\ e \in Event /\ OnChain(e[1], head) /\ EventNumber(e) < cursor
             /\ EventNumber(e) \in Nat
             /\ EventNumber(e) <= history[2] /\ EventNumber(e) + 2 * R <= top
  <2>1. e \in Event /\ OnChain(e[1], head) /\ EventNumber(e) < cursor
    BY <1>1 DEF EventsBetween
  <2>2. EventNumber(e) \in Nat
    BY <2>1, EventIs
  <2>3. EventNumber(e) <= history[2] /\ EventNumber(e) + 2 * R <= top
    BY <1>2, <2>1, <2>2
  <2> QED
    BY <2>1, <2>2, <2>3
<1>4. ASSUME NEW e \in rows, NEW f \in Event, OnChain(f[1], head), EventNumber(f) > Skip,
             Before(f, e)
      PROVE  f \in rows
  <2>1. EventNumber(f) \in Nat /\ EventNumber(e) \in Nat /\ EventNumber(f) <= EventNumber(e)
    <3>1. EventNumber(f) \in Nat /\ EventNumber(e) \in Nat
      BY <1>3, EventIs
    <3> QED
      BY <1>4, <3>1 DEF Before
  <2>2. CASE EventNumber(f) <= history[1] - 1
    BY <1>1, <1>4, <2>2 DEF CompleteTo
  <2>3. CASE ~(EventNumber(f) <= history[1] - 1)
    <3>1. history[1] <= EventNumber(f) /\ EventNumber(f) < cursor
      <4>1. EventNumber(e) < cursor
        BY <1>3
      <4> QED
        BY <1>2, <2>1, <2>3, <4>1
    <3>2. f \in EventsBetween(history[1], cursor, head)
      BY <1>4, <3>1 DEF EventsBetween
    <3>3. ASSUME f \notin rows PROVE FALSE
      <4>1. f \in buffer \ chunk
        BY <1>1, <3>2, <3>3
      <4>2. Before(e, f)
        BY <1>1, <4>1
      <4> QED
        BY <1>2, <1>3, <1>4, <4>2, EventOrder
    <3> QED
      BY <3>3
  <2> QED
    BY <2>2, <2>3
<1>5. CompleteTo(history[1] - 1, head, rows)
  BY <1>1 DEF CompleteTo
<1>6. StoreInv(rows, head, top)
  <2>1. ASSUME NEW e \in rows PROVE Near(e[1], head, top) /\ e[1] \in Block
    <3>1. e[1] \in Block
      BY <1>3, EventIs
    <3> QED
      BY <1>2, <1>3, <3>1, HeadNear
  <2>2. ASSUME NEW e \in rows, NEW f \in rows, EventNumber(e) <= EventNumber(f)
        PROVE  OnChain(e[1], f[1])
    <3>1. e[1] \in Block /\ f[1] \in Block /\ Number[e[1]] <= Number[f[1]]
      BY <2>1, <2>2 DEF EventNumber
    <3> QED
      BY <1>2, <1>3, <3>1, Ancestry
  <2>3. ASSUME NEW e \in rows, NEW f \in Event, EventNumber(f) > Skip, OnChain(f[1], e[1]),
               Before(f, e)
        PROVE  f \in rows
    <3>1. f[1] \in Block /\ e[1] \in Block /\ OnChain(e[1], head)
      BY <1>3, <2>1, EventIs
    <3>2. OnChain(f[1], head)
      BY <1>2, <2>3, <3>1, Ancestry
    <3> QED
      BY <1>4, <2>3, <3>2
  <2> QED
    BY <1>3, <2>1, <2>2, <2>3 DEF StoreInv
<1> QED
  BY <1>3, <1>4, <1>5, <1>6

\* The memory after a full chunk: nothing it holds is missing in the store.
LEMMA ChunkMemory ==
  ASSUME IInv, pc = "stream", last_handled_blocks # <<>>, NEW rows \in SUBSET Event,
         \A e \in rows : OnChain(e[1], head) /\ EventNumber(e) <= history[2],
         CompleteTo(Number[LastOf(last_handled_blocks)], head, rows)
  PROVE  /\ Mode(last_handled_blocks, rows, head, top)
         /\ HandledStored(LastOf(last_handled_blocks), rows, head)
<1> DEFINE L == LastOf(last_handled_blocks)
<1>1. /\ ChainOK(head, top) /\ MemoryInv(last_handled_blocks, store, head, top)
      /\ last_handled_blocks \in Seq(Block) /\ handled = last_handled_blocks /\ LongRange
  BY DEF IInv, CoreInv, TypeOK, UpdateInv, SourceInv, RangeInv
<1>2. /\ history[1] \in Nat /\ history[2] \in Nat /\ top \in Nat /\ R \in Nat /\ R >= 1
      /\ MaxLag \in Nat /\ MaxLag < R /\ history[1] < history[2] /\ history[2] + 2 * R <= top
      /\ history[1] = SaturatingSub(Number[L], R)
  BY <1>1, RangeTypes, Bounds DEF LongRange, IInv, ChainOK
<1>3. L \in Block /\ Number[L] \in Nat /\ Mode(last_handled_blocks, store, head, top)
  BY <1>1, LastOfType, Ancestry DEF MemoryInv
<1>4. HandledStored(L, rows, head)
  <2> SUFFICES ASSUME NEW f \in Event, OnChain(f[1], L), OnChain(f[1], head), EventNumber(f) > Skip
               PROVE  f \in rows
    BY DEF HandledStored
  <2>1. f[1] \in Block /\ EventNumber(f) = Number[f[1]]
    BY EventIs
  <2>2. EventNumber(f) <= Number[L]
    BY <1>3, <2>1, Ancestry
  <2> QED
    BY <2>2 DEF CompleteTo
<1>5. CompleteTo(Number[L] - R - 1, head, rows)
  <2>1. \A m \in Nat : m <= Number[L] - R - 1 => m <= Number[L]
    BY <1>2, <1>3
  <2>2. \A f \in Event : EventNumber(f) \in Nat
    BY EventIs
  <2> QED
    BY <2>1, <2>2 DEF CompleteTo
<1> HIDE DEF L
<1>6. CASE top > Number[L] + R + MaxLag
  <2>1. \A e \in rows : EventNumber(e) < Number[L] - R => OnChain(e[1], head)
    OBVIOUS
  <2>2. Behind(last_handled_blocks, rows, head, top)
    BY <1>5, <1>6, <2>1, Zenon DEF Behind, L
  <2> QED
    BY <1>4, <2>2, Zenon DEF Mode, L
<1>7. CASE ~(top > Number[L] + R + MaxLag)
  <2>1. history[2] <= Number[L]
    BY <1>2, <1>3, <1>7
  <2>2. top > Number[L] + R
    <3>1. Number[L] - R <= history[1]
      BY <1>2, <1>3 DEF SaturatingSub
    <3> QED
      BY <1>2, <1>3, <3>1
  <2>3. OneChain(last_handled_blocks)
    <3>1. ~Behind(last_handled_blocks, store, head, top)
      BY <1>7, Zenon DEF Behind, L
    <3> QED
      BY <1>3, <3>1, Zenon DEF Mode, Settled, Interrupted
  <2>4. ASSUME NEW e \in rows PROVE EventNumber(e) <= Number[L]
    <3>1. EventNumber(e) \in Nat /\ EventNumber(e) <= history[2]
      BY EventIs
    <3> QED
      BY <1>2, <1>3, <2>1, <3>1
  <2> QED
    BY <1>4, <2>2, <2>3, <2>4 DEF Mode, Interrupted, L
<1> QED
  BY <1>4, <1>6, <1>7 DEF L

\* StreamChunk: a full chunk makes up for what the first one deleted.
LEMMA StreamChunkStep ==
  ASSUME IInv, StreamChunk
  PROVE  CoreInv' /\ UpdateInv'
<1>1. PICK chunk \in SUBSET buffer :
        /\ Cardinality(chunk) = INSERT_EVENT_BATCH_SIZE
        /\ \A e \in chunk : \A f \in buffer \ chunk : Before(e, f)
        /\ WriteChunk(chunk)
        /\ buffer' = buffer \ chunk
  BY DEF StreamChunk
<1>2. /\ pc = "stream" /\ have_deleted' = TRUE
      /\ UNCHANGED <<head, top, quiet, last_handled_blocks, pc, handled, history, latest,
                     latest_blocks, is_reorg, tail, cursor>>
  BY DEF StreamChunk, chainVars, rangeVars
<1>3. store' = Base \cup chunk
  BY <1>1, <1>2, ChunkAdded
<1>4. /\ store' \in SUBSET Event
      /\ \A e \in store' : /\ OnChain(e[1], head) /\ EventNumber(e) < cursor
                           /\ EventNumber(e) <= history[2] /\ EventNumber(e) + 2 * R <= top
      /\ \A e \in store' : \A f \in Event :
           (OnChain(f[1], head) /\ EventNumber(f) > Skip /\ Before(f, e)) => f \in store'
      /\ CompleteTo(history[1] - 1, head, store')
      /\ StoreInv(store', head, top)
  BY <1>1, <1>2, <1>3, ChunkRows
<1>5. /\ buffer = EventsBetween(history[1], cursor, head) \ Base
      /\ \A e \in Base, f \in buffer : Before(e, f)
  BY <1>2, StreamBase
<1>6. /\ ChainOK(head, top) /\ LongRange /\ last_handled_blocks \in Seq(Block)
      /\ last_handled_blocks # <<>> => handled = last_handled_blocks
      /\ head \in Block /\ Number[head] \in Nat /\ SourceInv
  BY <1>2, Ancestry DEF IInv, CoreInv, TypeOK, UpdateInv, SourceInv, RangeInv
<1>7. ASSUME last_handled_blocks # <<>>
      PROVE  CompleteTo(Number[LastOf(last_handled_blocks)], head, store')
  <2> DEFINE n == Number[LastOf(last_handled_blocks)]
  <2>1. /\ history[1] \in Nat /\ history[2] \in Nat /\ top \in Nat /\ R \in Nat
        /\ MaxLag \in Nat /\ MaxLag < R /\ history[1] < history[2] /\ history[2] + 2 * R <= top
        /\ history[1] = SaturatingSub(n, R) /\ top <= Number[head] + MaxLag /\ n \in Nat
    BY <1>6, <1>7, RangeTypes, Bounds, LastOfType, Ancestry DEF LongRange, IInv, ChainOK
  <2> HIDE DEF n
  <2>2. n - R <= history[1]
    BY <2>1 DEF SaturatingSub
  <2>3. n <= Number[head]
    BY <1>6, <2>1, <2>2
  <2>4. \A e \in chunk : OnChain(e[1], head) /\ history[1] <= EventNumber(e)
    BY <1>5 DEF EventsBetween
  <2>5. chunk \in SUBSET store'
    BY <1>3
  <2>6. \A e \in chunk : \A f \in Event :
           (OnChain(f[1], head) /\ EventNumber(f) > Skip /\ Before(f, e)) => f \in store'
    BY <1>4, <2>5
  <2>7. CompleteTo(n, head, store')
    BY <1>1, <1>4, <1>6, <2>1, <2>2, <2>3, <2>4, <2>5, <2>6, FullChunk
  <2> QED
    BY <2>7 DEF n
<1>8. MemoryInv(last_handled_blocks, store', head, top)
  <2>1. CASE last_handled_blocks = <<>>
    BY <1>4, <2>1 DEF MemoryInv
  <2>2. CASE last_handled_blocks # <<>>
    <3>1. Near(LastOf(last_handled_blocks), head, top)
      BY <2>2 DEF IInv, CoreInv, MemoryInv
    <3>2. \A e \in store' : OnChain(e[1], head) /\ EventNumber(e) <= history[2]
      BY <1>4
    <3>3. CompleteTo(Number[LastOf(last_handled_blocks)], head, store')
      BY <1>7, <2>2
    <3>4. /\ Mode(last_handled_blocks, store', head, top)
          /\ HandledStored(LastOf(last_handled_blocks), store', head)
      BY <1>2, <1>4, <2>2, <3>2, <3>3, ChunkMemory
    <3> QED
      BY <2>2, <3>1, <3>4 DEF MemoryInv
  <2> QED
    BY <2>1, <2>2
<1>9. CoreInv'
  BY <1>2, <1>4, <1>6, <1>8 DEF CoreInv
<1>10. LocalInv'
  BY <1>2 DEF LocalInv, IInv, UpdateInv
<1>11. SourceInv'
  BY <1>2, <1>6 DEF SourceInv
<1>12. RangeInv'
  BY <1>2, <1>6 DEF RangeInv, LongRange
<1>13. FetchedInv'
  BY <1>2 DEF FetchedInv, IInv, UpdateInv
<1>14. TailInv'
  BY <1>2 DEF TailInv, IInv, UpdateInv
<1>15. StreamInv'
  <2>1. history[1] <= cursor /\ cursor <= history[2] + 1
    BY <1>2 DEF StreamInv, IInv, UpdateInv
  <2>2. buffer' = EventsBetween(history[1], cursor, head) \ store'
    BY <1>1, <1>3, <1>5
  <2>3. \A e \in store', f \in buffer' : Before(e, f)
    BY <1>1, <1>3, <1>5
  <2> QED
    BY <1>2, <1>4, <2>1, <2>2, <2>3 DEF StreamInv
<1> QED
  BY <1>9, <1>10, <1>11, <1>12, <1>13, <1>14, <1>15 DEF UpdateInv

\* A capped list ends like the one it is made from, and what is left of its first part
\* fits in front of the second.
LEMMA CappedIs ==
  ASSUME NEW S, NEW kept \in Seq(S), NEW blocks \in Seq(S), blocks # <<>>
  PROVE  /\ Capped(kept \o blocks) \in Seq(S) /\ Capped(kept \o blocks) # <<>>
         /\ LastOf(Capped(kept \o blocks)) = LastOf(blocks)
         /\ \A i \in DOMAIN Capped(kept \o blocks) :
              \/ \E j \in DOMAIN blocks : Capped(kept \o blocks)[i] = blocks[j]
              \/ \E k \in DOMAIN kept : Capped(kept \o blocks)[i] = kept[k] /\ Len(blocks) < R
<1> DEFINE all == kept \o blocks
<1> DEFINE d == SaturatingSub(Len(all), R)
<1> DEFINE c == Capped(all)
<1>1. /\ Len(kept) \in Nat /\ Len(blocks) \in Nat /\ Len(blocks) >= 1 /\ R \in Nat /\ R >= 1
      /\ DOMAIN kept = 1 .. Len(kept) /\ DOMAIN blocks = 1 .. Len(blocks)
  BY Bounds
<1>2. /\ all \in Seq(S) /\ Len(all) = Len(kept) + Len(blocks)
      /\ \A j \in 1 .. Len(all) : all[j] = IF j <= Len(kept) THEN kept[j] ELSE blocks[j - Len(kept)]
  OBVIOUS
<1>3. c = SubSeq(all, d + 1, Len(all))
  BY DEF Capped, R
<1> HIDE DEF all, c
<1>4. /\ d \in Nat /\ d < Len(all) /\ (d = 0 \/ d = Len(all) - R) /\ (d = 0 => Len(all) <= R)
  BY <1>1, <1>2 DEF SaturatingSub
<1> HIDE DEF d
<1>5. c \in Seq(S) /\ Len(c) = Len(all) - d /\ \A i \in 1 .. (Len(all) - d) : c[i] = all[d + i]
  BY <1>2, <1>3, <1>4, EndOfList
<1>6. DOMAIN c = 1 .. (Len(all) - d) /\ Len(c) \in DOMAIN c /\ d + Len(c) = Len(all) /\ c # <<>>
  BY <1>1, <1>2, <1>4, <1>5
<1>7. LastOf(c) = LastOf(blocks)
  <2>1. c[Len(c)] = all[Len(all)]
    BY <1>5, <1>6
  <2>2. all[Len(all)] = blocks[Len(blocks)]
    <3>1. /\ Len(all) \in 1 .. Len(all) /\ ~(Len(all) <= Len(kept))
          /\ Len(all) - Len(kept) = Len(blocks)
      BY <1>1, <1>2
    <3> QED
      BY <1>2, <3>1
  <2> QED
    BY <2>1, <2>2 DEF LastOf
<1>8. ASSUME NEW i \in DOMAIN c
      PROVE  \/ \E j \in DOMAIN blocks : c[i] = blocks[j]
             \/ \E k \in DOMAIN kept : c[i] = kept[k] /\ Len(blocks) < R
  <2>1. /\ i \in Nat /\ i >= 1 /\ d + i \in 1 .. Len(all) /\ c[i] = all[d + i]
    BY <1>2, <1>4, <1>5, <1>6
  <2>2. CASE d + i <= Len(kept)
    <3>1. Len(blocks) < R
      BY <1>1, <1>2, <1>4, <2>1, <2>2
    <3>2. d + i \in DOMAIN kept
      BY <1>1, <1>4, <2>1, <2>2
    <3>3. c[i] = kept[d + i]
      BY <1>2, <2>1, <2>2
    <3> QED
      BY <3>1, <3>2, <3>3
  <2>3. CASE ~(d + i <= Len(kept))
    <3>1. (d + i) - Len(kept) \in DOMAIN blocks
      BY <1>1, <1>2, <1>4, <2>1, <2>3
    <3>2. all[d + i] = IF d + i <= Len(kept) THEN kept[d + i] ELSE blocks[(d + i) - Len(kept)]
      BY <1>2, <2>1, Zenon
    <3>3. c[i] = blocks[(d + i) - Len(kept)]
      BY <2>1, <2>3, <3>2, Zenon
    <3> QED
      BY <3>1, <3>3
  <2> QED
    BY <2>2, <2>3
<1> QED
  BY <1>5, <1>6, <1>7, <1>8 DEF all, c

\* What the handler remembers after an update.
LEMMA Remembered ==
  ASSUME last_handled_blocks \in Seq(Block), NEW blocks \in Seq(Block), blocks # <<>>,
         UpdateLastHandledBlocks(blocks)
  PROVE  /\ last_handled_blocks' \in Seq(Block) /\ last_handled_blocks' # <<>>
         /\ LastOf(last_handled_blocks') = LastOf(blocks)
         /\ \A i \in DOMAIN last_handled_blocks' :
              \/ \E j \in DOMAIN blocks : last_handled_blocks'[i] = blocks[j]
              \/ \E j \in DOMAIN last_handled_blocks :
                   /\ last_handled_blocks'[i] = last_handled_blocks[j]
                   /\ Number[last_handled_blocks[j]] < Number[blocks[1]] /\ Len(blocks) < R
<1>1. PICK ix \in IndexLists(last_handled_blocks) :
         /\ Retains(ix, last_handled_blocks, Number[blocks[1]])
         /\ last_handled_blocks' =
              Capped([k \in DOMAIN ix |-> last_handled_blocks[ix[k]]] \o blocks)
  BY DEF UpdateLastHandledBlocks
<1>2. PICK m \in 0 .. Len(last_handled_blocks) : ix \in [1 .. m -> DOMAIN last_handled_blocks]
  BY DEF IndexLists
<1> DEFINE kept == [k \in DOMAIN ix |-> last_handled_blocks[ix[k]]]
<1>3. kept \in Seq(Block) /\ DOMAIN kept = 1 .. m
  <2>1. \A k \in 1 .. m : last_handled_blocks[ix[k]] \in Block
    BY <1>2
  <2> QED
    BY <1>2, <2>1, IsASeq
<1>4. \A k \in DOMAIN kept :
        /\ ix[k] \in DOMAIN last_handled_blocks /\ kept[k] = last_handled_blocks[ix[k]]
        /\ Number[last_handled_blocks[ix[k]]] < Number[blocks[1]]
  <2>1. \A i \in DOMAIN last_handled_blocks :
          (\E k \in DOMAIN ix : ix[k] = i) => Number[last_handled_blocks[i]] < Number[blocks[1]]
    BY <1>1, Zenon DEF Retains
  <2> QED
    BY <1>2, <1>3, <2>1
<1> HIDE DEF kept
<1>5. last_handled_blocks' = Capped(kept \o blocks)
  BY <1>1 DEF kept
<1>6. /\ Capped(kept \o blocks) \in Seq(Block) /\ Capped(kept \o blocks) # <<>>
      /\ LastOf(Capped(kept \o blocks)) = LastOf(blocks)
      /\ \A i \in DOMAIN Capped(kept \o blocks) :
           \/ \E j \in DOMAIN blocks : Capped(kept \o blocks)[i] = blocks[j]
           \/ \E k \in DOMAIN kept : Capped(kept \o blocks)[i] = kept[k] /\ Len(blocks) < R
  BY <1>3, CappedIs
<1>7. \A i \in DOMAIN last_handled_blocks' :
           \/ \E j \in DOMAIN blocks : last_handled_blocks'[i] = blocks[j]
           \/ \E k \in DOMAIN kept : last_handled_blocks'[i] = kept[k] /\ Len(blocks) < R
  BY <1>5, <1>6, Zenon
<1>8. ASSUME NEW i \in DOMAIN last_handled_blocks',
             NEW k \in DOMAIN kept, last_handled_blocks'[i] = kept[k], Len(blocks) < R
      PROVE  \E j \in DOMAIN last_handled_blocks :
                   /\ last_handled_blocks'[i] = last_handled_blocks[j]
                   /\ Number[last_handled_blocks[j]] < Number[blocks[1]] /\ Len(blocks) < R
  BY <1>4, <1>8, Zenon
<1>9. /\ last_handled_blocks' \in Seq(Block) /\ last_handled_blocks' # <<>>
      /\ LastOf(last_handled_blocks') = LastOf(blocks)
  BY <1>5, <1>6, Zenon
<1> QED
  BY <1>7, <1>8, <1>9, Zenon

\* StreamEnd: the store is settled at the end of history.
LEMMA StreamEndStep ==
  ASSUME IInv, StreamEnd
  PROVE  CoreInv' /\ UpdateInv'
<1> DEFINE T == LastOf(tail)
<1>1. /\ pc = "stream" /\ pc' = "update" /\ cursor > history[2] /\ WriteChunk(buffer)
      /\ UpdateLastHandledBlocks(tail) /\ buffer' = {} /\ have_deleted' = FALSE
      /\ UNCHANGED <<head, top, quiet, handled, history, latest, latest_blocks, is_reorg>>
  BY DEF StreamEnd, chainVars, rangeVars
<1>2. store' = Base \cup buffer
  BY <1>1, ChunkAdded
<1>3. /\ store' \in SUBSET Event
      /\ \A e \in store' : OnChain(e[1], head) /\ EventNumber(e) <= history[2]
      /\ CompleteTo(history[1] - 1, head, store')
      /\ StoreInv(store', head, top)
  <2>1. \A e \in buffer : \A f \in buffer \ buffer : Before(e, f)
    OBVIOUS
  <2>2. buffer \in SUBSET buffer
    OBVIOUS
  <2>3. /\ store' \in SUBSET Event
        /\ \A e \in store' : /\ OnChain(e[1], head) /\ EventNumber(e) < cursor
                             /\ EventNumber(e) <= history[2] /\ EventNumber(e) + 2 * R <= top
        /\ CompleteTo(history[1] - 1, head, store')
        /\ StoreInv(store', head, top)
    BY <1>1, <1>2, <2>1, <2>2, ChunkRows
  <2> QED
    BY <2>3
<1>4. /\ tail \in Seq(Block) /\ tail # <<>> /\ OneChain(tail) /\ Number[T] = history[2]
      /\ OnChain(T, head)
      /\ Len(tail) >= R \/ Number[tail[1]] = 0
  BY <1>1 DEF IInv, TypeOK, UpdateInv, TailInv
<1>5. /\ last_handled_blocks \in Seq(Block) /\ ChainOK(head, top) /\ LongRange
      /\ latest_blocks \in Seq(Block) /\ Segment(latest_blocks, head, top) /\ is_reorg
      /\ Number[latest_blocks[1]] = latest[1] /\ OnChain(latest_blocks[1], head)
  BY <1>1 DEF IInv, CoreInv, TypeOK, UpdateInv, RangeInv, FetchedInv
<1>6. /\ history[1] \in Nat /\ history[2] \in Nat /\ cursor \in Nat /\ R \in Nat
      /\ latest[1] = history[2] + 1 /\ head \in Block /\ T \in Block
  BY <1>4, <1>5, RangeTypes, Bounds, LastOfType DEF IInv, TypeOK, LongRange
<1>7. /\ last_handled_blocks' \in Seq(Block) /\ last_handled_blocks' # <<>>
      /\ LastOf(last_handled_blocks') = T
      /\ \A i \in DOMAIN last_handled_blocks' :
              \/ \E j \in DOMAIN tail : last_handled_blocks'[i] = tail[j]
              \/ \E j \in DOMAIN last_handled_blocks :
                   /\ last_handled_blocks'[i] = last_handled_blocks[j]
                   /\ Number[last_handled_blocks[j]] < Number[tail[1]] /\ Len(tail) < R
  BY <1>1, <1>4, <1>5, Remembered
<1>8. \A i \in DOMAIN last_handled_blocks' : OnChain(last_handled_blocks'[i], T)
  <2> SUFFICES ASSUME NEW i \in DOMAIN last_handled_blocks'
               PROVE  OnChain(last_handled_blocks'[i], T)
    OBVIOUS
  <2>1. CASE \E j \in DOMAIN tail : last_handled_blocks'[i] = tail[j]
    BY <1>4, <2>1 DEF OneChain
  <2>2. ASSUME NEW j \in DOMAIN last_handled_blocks,
               Number[last_handled_blocks[j]] < Number[tail[1]], Len(tail) < R
        PROVE  FALSE
    <3>1. Number[last_handled_blocks[j]] \in Nat /\ Len(tail) \in Nat
      BY <1>4, <1>5, Ancestry
    <3>2. CASE Len(tail) >= R
      BY <1>6, <2>2, <3>1, <3>2
    <3>3. CASE Number[tail[1]] = 0
      BY <2>2, <3>1, <3>3
    <3> QED
      BY <1>4, <3>2, <3>3
  <2> QED
    BY <1>7, <2>1, <2>2
<1> HIDE DEF T
<1>9. ASSUME NEW e \in store' PROVE OnChain(e[1], T)
  <2>1. e[1] \in Block /\ EventNumber(e) = Number[e[1]]
    BY <1>3, EventIs, Zenon
  <2>2. OnChain(e[1], head) /\ Number[e[1]] <= Number[T]
    BY <1>3, <1>4, <2>1
  <2> QED
    BY <1>4, <1>6, <2>1, <2>2, Ancestry
<1>10. Complete(T, store')
  <2> SUFFICES ASSUME NEW f \in Event, OnChain(f[1], T), EventNumber(f) > Skip PROVE f \in store'
    BY DEF Complete
  <2>1. f[1] \in Block /\ EventNumber(f) = Number[f[1]] /\ EventNumber(f) \in Nat
    BY EventIs, Zenon
  <2>2. EventNumber(f) <= history[2] /\ OnChain(f[1], head)
    BY <1>4, <1>6, <2>1, Ancestry
  <2>3. CASE EventNumber(f) <= history[1] - 1
    BY <1>3, <2>2, <2>3 DEF CompleteTo
  <2>4. CASE ~(EventNumber(f) <= history[1] - 1)
    <3>1. history[1] <= EventNumber(f) /\ EventNumber(f) < cursor
      BY <1>1, <1>6, <2>1, <2>2, <2>4
    <3>2. f \in EventsBetween(history[1], cursor, head)
      BY <2>2, <3>1 DEF EventsBetween
    <3>3. buffer = EventsBetween(history[1], cursor, head) \ Base
      BY <1>1, StreamBase
    <3> QED
      BY <1>2, <3>2, <3>3
  <2> QED
    BY <2>3, <2>4
<1>11. MemoryInv(last_handled_blocks', store', head, top)
  <2>1. Settled(last_handled_blocks', store')
    BY <1>7, <1>8, <1>9, <1>10 DEF Settled, OneChain, T
  <2>2. Near(T, head, top)
    BY <1>4, <1>5, <1>6, HeadNear
  <2>3. HandledStored(T, store', head)
    BY <1>10 DEF Complete, HandledStored
  <2> QED
    BY <1>7, <2>1, <2>2, <2>3 DEF MemoryInv, Mode, T
<1>12. CoreInv'
  BY <1>1, <1>3, <1>5, <1>11 DEF CoreInv
<1>13. Below(latest_blocks[1], last_handled_blocks', store')
  <2> DEFINE b == latest_blocks[1]
  <2>1. b \in Block
    BY <1>5 DEF Segment
  <2>2. Number[b] = Number[T] + 1 /\ Number[T] <= Number[b]
    BY <1>4, <1>5, <1>6
  <2>3. OnChain(T, b)
    BY <1>4, <1>5, <1>6, <2>1, <2>2, Ancestry
  <2>4. CompleteTo(Number[T], T, store')
    BY <1>10 DEF Complete, CompleteTo
  <2> HIDE DEF b
  <2>5. Below(b, last_handled_blocks', store')
    BY <1>3, <1>6, <1>7, <1>8, <1>9, <2>1, <2>2, <2>3, <2>4, BelowNext
  <2> QED
    BY <2>5 DEF b
<1>14. FetchedInv'
  BY <1>1, <1>5, <1>13 DEF FetchedInv
<1>15. LocalInv'
  BY <1>1 DEF LocalInv
<1> QED
  BY <1>1, <1>12, <1>14, <1>15 DEF UpdateInv, SourceInv, RangeInv, TailInv, StreamInv

----------------------------------------------------------------------------
(* Writing the latest blocks.                                              *)

\* The blocks of a segment are ancestors of the later ones, and there is no other.
LEMMA SegmentIs ==
  ASSUME NEW h, NEW t, NEW bs \in Seq(Block), Segment(bs, h, t), NEW k \in 1 .. Len(bs)
  PROVE  /\ bs[1] \in Block /\ bs[k] \in Block /\ Number[bs[1]] \in Nat
         /\ Number[bs[k]] = Number[bs[1]] + k - 1 /\ Near(bs[k], h, t) /\ Near(bs[1], h, t)
         /\ \A i \in 1 .. k : bs[i] \in Block /\ OnChain(bs[i], bs[k])
                              /\ Number[bs[1]] <= Number[bs[i]]
         /\ \A a \in Block : OnChain(a, bs[k]) /\ Number[bs[1]] <= Number[a] =>
              \E i \in 1 .. k : a = bs[i]
<1>1. /\ DOMAIN bs = 1 .. Len(bs) /\ Len(bs) \in Nat /\ k \in Nat /\ k >= 1 /\ k <= Len(bs)
      /\ LastOf(bs) \in Block /\ bs # <<>>
  BY LastOfType
<1>2. \A i \in 1 .. Len(bs) :
        /\ bs[i] \in Block /\ Number[bs[i]] = Number[bs[1]] + i - 1 /\ OnChain(bs[i], LastOf(bs))
        /\ Near(bs[i], h, t)
  BY <1>1 DEF Segment
<1>3. 1 \in 1 .. Len(bs) /\ bs[1] \in Block /\ Number[bs[1]] \in Nat
  BY <1>1, <1>2, Ancestry
<1>4. ASSUME NEW i \in 1 .. k
      PROVE  bs[i] \in Block /\ OnChain(bs[i], bs[k]) /\ Number[bs[1]] <= Number[bs[i]]
  <2>1. i \in 1 .. Len(bs) /\ i \in Nat /\ i >= 1 /\ i <= k
    BY <1>1
  <2>2. Number[bs[i]] = Number[bs[1]] + i - 1 /\ Number[bs[k]] = Number[bs[1]] + k - 1
    BY <1>2, <2>1
  <2>3. Number[bs[i]] <= Number[bs[k]] /\ Number[bs[1]] <= Number[bs[i]]
    BY <1>1, <1>3, <2>1, <2>2
  <2> QED
    BY <1>1, <1>2, <2>1, <2>3, Ancestry
<1>5. ASSUME NEW a \in Block, OnChain(a, bs[k]), Number[bs[1]] <= Number[a]
      PROVE  \E i \in 1 .. k : a = bs[i]
  <2> DEFINE i == Number[a] - Number[bs[1]] + 1
  <2>1. Number[a] \in Nat /\ Number[bs[k]] = Number[bs[1]] + k - 1 /\ Number[a] <= Number[bs[k]]
    BY <1>2, <1>5, Ancestry
  <2>2. i \in 1 .. k /\ Number[bs[1]] + i - 1 = Number[a]
    BY <1>1, <1>3, <1>5, <2>1
  <2> HIDE DEF i
  <2>3. i \in 1 .. Len(bs)
    BY <1>1, <2>2
  <2>4. Number[bs[i]] = Number[a]
    BY <1>2, <2>2, <2>3
  <2>5. a = bs[i]
    BY <1>2, <1>4, <1>5, <2>2, <2>3, <2>4, Ancestry
  <2> QED
    BY <2>2, <2>5
<1> QED
  BY <1>2, <1>3, <1>4, <1>5

\* The store after the events of the first k latest blocks were written.
LEMMA LatestRows ==
  ASSUME NEW h, NEW t, ChainOK(h, t), NEW old \in SUBSET Event, StoreInv(old, h, t),
         NEW bs \in Seq(Block), Segment(bs, h, t), NEW k \in 1 .. Len(bs),
         NEW mem, Below(bs[1], mem, old),
         NEW rows, rows = {e \in old : EventNumber(e) < Number[bs[1]]}
                            \cup UNION {Events(bs[i]) : i \in 1 .. k}
  PROVE  /\ rows \in SUBSET Event /\ StoreInv(rows, h, t)
         /\ \A e \in rows : OnChain(e[1], bs[k])
         /\ Complete(bs[k], rows)
         /\ \A e \in rows : EventNumber(e) < Number[bs[1]] => OnChain(e[1], bs[1])
<1>1. /\ bs[1] \in Block /\ bs[k] \in Block /\ Number[bs[1]] \in Nat
      /\ \A i \in 1 .. k : bs[i] \in Block /\ OnChain(bs[i], bs[k])
                           /\ Number[bs[1]] <= Number[bs[i]]
      /\ \A a \in Block : OnChain(a, bs[k]) /\ Number[bs[1]] <= Number[a] =>
           \E i \in 1 .. k : a = bs[i]
  BY SegmentIs
<1>2. \A i \in 1 .. k : Near(bs[i], h, t)
  <2> SUFFICES ASSUME NEW i \in 1 .. k PROVE Near(bs[i], h, t)
    OBVIOUS
  <2>1. i \in DOMAIN bs
    OBVIOUS
  <2> QED
    BY <2>1 DEF Segment
<1>3. OnChain(bs[1], bs[k])
  BY <1>1
<1>4. ASSUME NEW e \in rows
      PROVE  \/ e \in old /\ EventNumber(e) < Number[bs[1]]
             \/ \E i \in 1 .. k : e \in Events(bs[i]) /\ Events(bs[i]) \subseteq rows
  OBVIOUS
<1>5. ASSUME NEW e \in rows
      PROVE  e \in Event /\ e[1] \in Block /\ OnChain(e[1], bs[k]) /\ Near(e[1], h, t)
  <2>1. CASE e \in old /\ EventNumber(e) < Number[bs[1]]
    <3>1. e \in Event /\ e[1] \in Block
      BY <2>1, EventIs
    <3>2. OnChain(e[1], bs[1])
      BY <2>1 DEF Below
    <3> QED
      BY <1>1, <1>3, <2>1, <3>1, <3>2, Ancestry DEF StoreInv
  <2>2. ASSUME NEW i \in 1 .. k, e \in Events(bs[i])
        PROVE  e \in Event /\ e[1] \in Block /\ OnChain(e[1], bs[k]) /\ Near(e[1], h, t)
    <3>1. e \in Event /\ e[1] = bs[i]
      BY <1>1, <2>2, EventIs
    <3> QED
      BY <1>1, <1>2, <3>1
  <2> QED
    BY <1>4, <2>1, <2>2
<1>6. Complete(bs[k], rows)
  <2> SUFFICES ASSUME NEW f \in Event, OnChain(f[1], bs[k]), EventNumber(f) > Skip PROVE f \in rows
    BY DEF Complete
  <2>1. /\ f[1] \in Block /\ EventNumber(f) = Number[f[1]] /\ EventNumber(f) \in Nat
        /\ f \in Events(f[1])
    BY EventIs, Zenon
  <2>2. CASE EventNumber(f) < Number[bs[1]]
    <3>1. EventNumber(f) <= Number[bs[1]] - 1 /\ Number[f[1]] <= Number[bs[1]]
      BY <1>1, <2>1, <2>2
    <3>2. OnChain(f[1], bs[1])
      BY <1>1, <1>3, <2>1, <3>1, Ancestry
    <3>3. f \in old
      BY <3>1, <3>2 DEF Below, CompleteTo
    <3> QED
      BY <2>2, <3>3
  <2>3. CASE ~(EventNumber(f) < Number[bs[1]])
    <3>1. Number[bs[1]] <= Number[f[1]]
      BY <1>1, <2>1, <2>3
    <3>2. PICK i \in 1 .. k : f[1] = bs[i]
      BY <1>1, <2>1, <3>1
    <3> QED
      BY <2>1, <3>2
  <2> QED
    BY <2>2, <2>3
<1>7. \A e \in rows : EventNumber(e) < Number[bs[1]] => OnChain(e[1], bs[1])
  <2> SUFFICES ASSUME NEW e \in rows, EventNumber(e) < Number[bs[1]] PROVE OnChain(e[1], bs[1])
    OBVIOUS
  <2>1. e[1] \in Block /\ EventNumber(e) = Number[e[1]] /\ EventNumber(e) \in Nat
    BY <1>5, EventIs
  <2>2. Number[e[1]] <= Number[bs[1]]
    BY <1>1, <2>1
  <2> QED
    BY <1>1, <1>3, <1>5, <2>1, <2>2, Ancestry
<1>8. ASSUME NEW e \in rows PROVE Events(e[1]) \subseteq rows \/ EventNumber(e) + 2 * R <= t
  <2>1. CASE e \in old /\ EventNumber(e) < Number[bs[1]]
    <3>1. Events(e[1]) \subseteq old \/ EventNumber(e) + 2 * R <= t
      BY <2>1 DEF StoreInv
    <3>2. \A f \in Events(e[1]) : EventNumber(f) = EventNumber(e)
      BY <1>5, EventIs DEF EventNumber
    <3> QED
      BY <2>1, <3>1, <3>2
  <2>2. ASSUME NEW i \in 1 .. k, e \in Events(bs[i]), Events(bs[i]) \subseteq rows
        PROVE  Events(e[1]) \subseteq rows
    BY <1>1, <2>2, EventIs
  <2> QED
    BY <1>4, <2>1, <2>2
<1>9. ASSUME NEW e \in rows, NEW f \in rows, EventNumber(e) <= EventNumber(f)
      PROVE  OnChain(e[1], f[1])
  <2>1. Number[e[1]] <= Number[f[1]]
    BY <1>9 DEF EventNumber
  <2> QED
    BY <1>1, <1>5, <2>1, Ancestry
<1>10. ASSUME NEW e \in rows, NEW f \in Event, EventNumber(f) > Skip, OnChain(f[1], e[1])
       PROVE  f \in rows
  <2>1. f[1] \in Block
    BY EventIs
  <2>2. OnChain(f[1], bs[k])
    BY <1>1, <1>5, <1>10, <2>1, Ancestry
  <2> QED
    BY <1>6, <1>10, <2>2 DEF Complete
<1>11. StoreInv(rows, h, t)
  BY <1>5, <1>8, <1>9, <1>10 DEF StoreInv
<1> QED
  BY <1>5, <1>6, <1>7, <1>11

\* blocks_filtered names the updated blocks, but for a list that is longer than one
\* chunk of queries: then it ends with the first block again.
LEMMA FilteredIs ==
  ASSUME MAX_PARALLEL_RPC_CALLS >= MAX_BLOCKS_QUERIED,
         NEW bs \in Seq(Block), Len(bs) <= 2 * R + 1, NEW k \in 1 .. Len(bs),
         NEW blocks, blocks = BlocksFiltered(bs, k)
  PROVE  /\ blocks \in Seq(Block) /\ blocks # <<>> /\ blocks[1] = bs[1] /\ Len(blocks) = k
         /\ \A j \in DOMAIN blocks : \E i \in 1 .. k : blocks[j] = bs[i]
         /\ LastOf(blocks) = bs[k] \/ (LastOf(blocks) = bs[1] /\ k = 2 * R + 1)
<1> DEFINE P == MAX_PARALLEL_RPC_CALLS
<1>1. /\ P \in Nat /\ P >= 1 /\ P >= 2 * R /\ R \in Nat /\ R >= 1 /\ k \in Nat /\ k >= 1
      /\ k <= 2 * R + 1 /\ Len(bs) \in Nat
  BY ParallelAssumption, Bounds DEF MAX_BLOCKS_QUERIED, R
<1>2. blocks \in Seq(Block) /\ DOMAIN blocks = 1 .. k
  BY FilteredType DEF BlocksFiltered
<1>3. Len(blocks) = k /\ blocks # <<>> /\ LastOf(blocks) = blocks[k]
  BY <1>1, <1>2 DEF LastOf
<1>4. \A j \in 1 .. k : blocks[j] = bs[((j - 1) % P) + 1]
  BY DEF BlocksFiltered
<1> HIDE DEF P
<1>5. \A m \in Nat : m < P => m % P = m
  BY <1>1, Z3
<1>6. P % P = 0
  BY <1>1, Z3
<1>7. \A j \in 1 .. k : j <= P => blocks[j] = bs[j]
  <2> SUFFICES ASSUME NEW j \in 1 .. k, j <= P PROVE blocks[j] = bs[j]
    OBVIOUS
  <2>1. j - 1 \in Nat /\ j - 1 < P /\ (j - 1) + 1 = j
    BY <1>1
  <2>2. (j - 1) % P = j - 1
    BY <1>5, <2>1
  <2> QED
    BY <1>4, <2>1, <2>2
<1>8. ASSUME NEW j \in 1 .. k, ~(j <= P) PROVE blocks[j] = bs[1] /\ k = 2 * R + 1 /\ j = k
  <2>1. j - 1 = P /\ k = 2 * R + 1 /\ j = k
    BY <1>1, <1>8
  <2>2. ((j - 1) % P) + 1 = 1
    BY <1>6, <2>1
  <2> QED
    BY <1>4, <2>1, <2>2
<1>9. 1 \in 1 .. k /\ k \in 1 .. k /\ 1 <= P
  BY <1>1
<1> QED
  BY <1>2, <1>3, <1>7, <1>8, <1>9

\* The memory after the first k latest blocks were written.
LEMMA LatestMemory ==
  ASSUME MAX_PARALLEL_RPC_CALLS >= MAX_BLOCKS_QUERIED,
         NEW h, NEW t, ChainOK(h, t), NEW rows \in SUBSET Event,
         NEW bs \in Seq(Block), Segment(bs, h, t), NEW k \in 1 .. Len(bs),
         \A e \in rows : OnChain(e[1], bs[k]), Complete(bs[k], rows),
         \A e \in rows : EventNumber(e) < Number[bs[1]] => OnChain(e[1], bs[1]),
         NEW mem \in Seq(Block), mem # <<>>,
         LastOf(mem) = bs[k] \/ (LastOf(mem) = bs[1] /\ k = 2 * R + 1),
         \A i \in DOMAIN mem : OnChain(mem[i], bs[1]) \/ \E j \in 1 .. k : mem[i] = bs[j]
  PROVE  MemoryInv(mem, rows, h, t)
<1>1. /\ bs[1] \in Block /\ bs[k] \in Block /\ Number[bs[1]] \in Nat
      /\ Number[bs[k]] = Number[bs[1]] + k - 1 /\ Near(bs[k], h, t) /\ Near(bs[1], h, t)
      /\ \A i \in 1 .. k : bs[i] \in Block /\ OnChain(bs[i], bs[k])
  BY SegmentIs
<1>2. h \in Block /\ t \in Nat /\ R \in Nat /\ R >= 1 /\ MaxLag \in Nat /\ MaxLag < R
  BY Bounds DEF ChainOK
<1>3. OnChain(bs[1], bs[k])
  BY <1>1
<1>4. CASE LastOf(mem) = bs[k]
  <2>1. ASSUME NEW i \in DOMAIN mem PROVE OnChain(mem[i], bs[k])
    <3>1. mem[i] \in Block
      OBVIOUS
    <3> QED
      BY <1>1, <1>3, <3>1, Ancestry
  <2>2. Settled(mem, rows)
    BY <1>4, <2>1 DEF Settled, OneChain
  <2>3. HandledStored(LastOf(mem), rows, h)
    BY <1>4 DEF HandledStored, Complete
  <2> QED
    BY <1>1, <1>4, <2>2, <2>3 DEF MemoryInv, Mode
<1>5. CASE LastOf(mem) = bs[1] /\ k = 2 * R + 1
  <2> DEFINE b == bs[1]
  <2>1. t > Number[b] + R + MaxLag
    <3>1. Number[bs[k]] <= t
      BY <1>1 DEF Near
    <3> QED
      BY <1>1, <1>2, <1>5, <3>1
  <2>2. ASSUME NEW e \in rows, EventNumber(e) < Number[b] - R PROVE OnChain(e[1], h)
    <3>1. e[1] \in Block /\ EventNumber(e) = Number[e[1]] /\ EventNumber(e) \in Nat
      BY EventIs, Zenon
    <3>2. Number[b] \in Nat
      BY <1>1
    <3>3. EventNumber(e) < Number[b] /\ Number[e[1]] <= Number[b] - R
      <4> HIDE DEF b
      <4> QED
        BY <1>2, <2>2, <3>1, <3>2
    <3>4. OnChain(e[1], b)
      BY <3>3
    <3> QED
      BY <1>1, <3>1, <3>3, <3>4 DEF Near
  <2>3. ASSUME NEW f \in Event, OnChain(f[1], b), EventNumber(f) > Skip PROVE f \in rows
    <3>1. f[1] \in Block
      BY EventIs
    <3>2. OnChain(f[1], bs[k])
      BY <1>1, <1>3, <2>3, <3>1, Ancestry
    <3> QED
      BY <2>3, <3>2 DEF Complete
  <2>4. CompleteTo(Number[b] - R - 1, h, rows)
    <3> SUFFICES ASSUME NEW f \in Event, OnChain(f[1], h), EventNumber(f) > Skip,
                        EventNumber(f) <= Number[b] - R - 1
                 PROVE  f \in rows
      BY DEF CompleteTo
    <3>1. f[1] \in Block /\ EventNumber(f) = Number[f[1]] /\ EventNumber(f) \in Nat
      BY EventIs, Zenon
    <3>2. Number[f[1]] <= Number[b] - R
      BY <1>1, <1>2, <3>1
    <3>3. OnChain(f[1], b)
      BY <1>1, <1>2, <3>1, <3>2, NearBoth
    <3> QED
      BY <2>3, <3>3
  <2>5. HandledStored(b, rows, h)
    BY <2>3 DEF HandledStored
  <2> HIDE DEF b
  <2>6. Behind(mem, rows, h, t)
    <3>1. LastOf(mem) = b
      BY <1>5 DEF b
    <3> QED
      BY <2>1, <2>2, <2>4, <3>1, Zenon DEF Behind
  <2> QED
    BY <1>1, <1>5, <2>5, <2>6, Zenon DEF MemoryInv, Mode, b
<1> QED
  BY <1>4, <1>5

\* UpdateLatest: also when only the first k blocks could be read.
LEMMA UpdateLatestStep ==
  ASSUME MAX_PARALLEL_RPC_CALLS >= MAX_BLOCKS_QUERIED, IInv, NEW k, UpdateLatest(k)
  PROVE  CoreInv' /\ UpdateInv'
<1> DEFINE bs == latest_blocks
<1> DEFINE blocks == BlocksFiltered(bs, k)
<1> DEFINE events == UNION {Events(bs[i]) : i \in 1 .. k}
<1>1. /\ pc = "update" /\ k \in 1 .. Len(bs)
      /\ store' = IF is_reorg THEN ReplaceEvents(store, events, Number[blocks[1]])
                              ELSE AppendEvents(store, events)
      /\ UpdateLastHandledBlocks(blocks) /\ Return
      /\ UNCHANGED <<head, top, quiet>>
  BY DEF UpdateLatest, chainVars
<1>2. /\ ChainOK(head, top) /\ StoreInv(store, head, top) /\ store \in SUBSET Event
      /\ last_handled_blocks \in Seq(Block) /\ bs \in Seq(Block) /\ Segment(bs, head, top)
      /\ Below(bs[1], last_handled_blocks, store)
      /\ is_reorg \/ \A e \in store : EventNumber(e) < Number[bs[1]]
  BY <1>1 DEF IInv, CoreInv, TypeOK, UpdateInv, FetchedInv
<1> HIDE DEF bs
<1>3. /\ bs[1] \in Block /\ bs[k] \in Block /\ Number[bs[1]] \in Nat
      /\ \A i \in 1 .. k : bs[i] \in Block /\ Number[bs[1]] <= Number[bs[i]]
  BY <1>1, <1>2, SegmentIs
<1>4. /\ blocks \in Seq(Block) /\ blocks # <<>> /\ blocks[1] = bs[1]
      /\ \A j \in DOMAIN blocks : \E i \in 1 .. k : blocks[j] = bs[i]
      /\ LastOf(blocks) = bs[k] \/ (LastOf(blocks) = bs[1] /\ k = 2 * R + 1)
  <2>1. Len(bs) <= 2 * R + 1
    BY <1>2 DEF Segment
  <2> QED
    BY <1>1, <1>2, <2>1, FilteredIs
<1> HIDE DEF blocks
<1>5. store' = {e \in store : EventNumber(e) < Number[bs[1]]} \cup events
  <2> DEFINE low == {e \in store : EventNumber(e) < Number[bs[1]]}
  <2>1. store' = AppendEvents(low, events)
    <3>1. CASE is_reorg
      BY <1>1, <1>4, <3>1 DEF ReplaceEvents, DeleteFrom
    <3>2. CASE ~is_reorg
      <4>1. low = store
        BY <1>2, <3>2
      <4> HIDE DEF low, events
      <4> QED
        BY <1>1, <3>2, <4>1
    <3> QED
      BY <3>1, <3>2
  <2>2. ASSUME NEW e \in events, NEW r \in low PROVE ~SameIndex(r, e)
    <3>1. PICK i \in 1 .. k : e \in Events(bs[i])
      OBVIOUS
    <3>2. e[1] = bs[i] /\ e \in Event /\ EventNumber(e) \in Nat
      BY <1>3, <3>1, EventIs
    <3>3. Number[bs[1]] <= EventNumber(e)
      BY <1>3, <3>2 DEF EventNumber
    <3>4. r \in Event /\ EventNumber(r) < Number[bs[1]] /\ EventNumber(r) \in Nat
      BY <1>2, EventIs
    <3>5. EventNumber(r) # EventNumber(e)
      BY <1>3, <3>2, <3>3, <3>4
    <3> QED
      BY <3>5 DEF SameIndex
  <2> HIDE DEF low, events
  <2>3. store' = low \cup events
    BY <2>1, <2>2 DEF AppendEvents
  <2> QED
    BY <2>3 DEF low
<1>6. /\ store' \in SUBSET Event /\ StoreInv(store', head, top)
      /\ \A e \in store' : OnChain(e[1], bs[k])
      /\ Complete(bs[k], store')
      /\ \A e \in store' : EventNumber(e) < Number[bs[1]] => OnChain(e[1], bs[1])
  BY <1>1, <1>2, <1>5, LatestRows
<1> HIDE DEF events
<1>7. /\ last_handled_blocks' \in Seq(Block) /\ last_handled_blocks' # <<>>
      /\ LastOf(last_handled_blocks') = LastOf(blocks)
      /\ \A i \in DOMAIN last_handled_blocks' :
              \/ \E j \in DOMAIN blocks : last_handled_blocks'[i] = blocks[j]
              \/ \E j \in DOMAIN last_handled_blocks :
                   /\ last_handled_blocks'[i] = last_handled_blocks[j]
                   /\ Number[last_handled_blocks[j]] < Number[blocks[1]] /\ Len(blocks) < R
  BY <1>1, <1>2, <1>4, Remembered
<1>8. ASSUME NEW i \in DOMAIN last_handled_blocks'
      PROVE  \/ OnChain(last_handled_blocks'[i], bs[1])
             \/ \E j \in 1 .. k : last_handled_blocks'[i] = bs[j]
  <2>1. CASE \E j \in DOMAIN blocks : last_handled_blocks'[i] = blocks[j]
    BY <1>4, <2>1
  <2>2. ASSUME NEW j \in DOMAIN last_handled_blocks,
               last_handled_blocks'[i] = last_handled_blocks[j],
               Number[last_handled_blocks[j]] < Number[blocks[1]]
        PROVE  OnChain(last_handled_blocks'[i], bs[1])
    BY <1>2, <1>4, <2>2 DEF Below
  <2> QED
    BY <1>7, <2>1, <2>2
<1>9. MemoryInv(last_handled_blocks', store', head, top)
  <2>1. \/ LastOf(last_handled_blocks') = bs[k]
        \/ LastOf(last_handled_blocks') = bs[1] /\ k = 2 * R + 1
    BY <1>4, <1>7
  <2> QED
    BY <1>1, <1>2, <1>6, <1>7, <1>8, <2>1, LatestMemory
<1>10. CoreInv'
  BY <1>1, <1>2, <1>6, <1>9 DEF CoreInv
<1> QED
  BY <1>1, <1>10, ReturnInv

----------------------------------------------------------------------------
(* Restarts, the initial state and the theorems.                           *)

\* The memory of a fresh handler.
LEMMA FreshMemory ==
  ASSUME NEW h, NEW t, ChainOK(h, t), NEW rows \in SUBSET Event, StoreInv(rows, h, t),
         FreshHandled(rows) = <<>> => \A e \in rows : OnChain(e[1], h)
  PROVE  MemoryInv(FreshHandled(rows), rows, h, t)
<1> DEFINE mem == <<SkipBlocksBefore>>
<1>1. CASE FreshHandled(rows) = <<>>
  BY <1>1 DEF MemoryInv
<1>2. CASE FreshHandled(rows) # <<>>
  <2>1. /\ FreshHandled(rows) = mem /\ \A e \in rows : ~(EventNumber(e) >= Skip)
    BY <1>2 DEF FreshHandled, Skip
  <2>2. /\ SkipBlocksBefore \in Block /\ h \in Block /\ OnChain(SkipBlocksBefore, h)
        /\ Number[SkipBlocksBefore] = Skip /\ Skip \in Nat
    BY SkipAssumption, Bounds DEF ChainOK, Skip
  <2>3. /\ mem # <<>> /\ LastOf(mem) = SkipBlocksBefore /\ DOMAIN mem = {1}
        /\ mem[1] = SkipBlocksBefore
    BY DEF LastOf
  <2> HIDE DEF mem
  <2>4. OneChain(mem)
    BY <2>2, <2>3, Ancestry DEF OneChain
  <2>5. ASSUME NEW e \in rows PROVE OnChain(e[1], SkipBlocksBefore)
    <3>1. e[1] \in Block /\ EventNumber(e) = Number[e[1]] /\ EventNumber(e) \in Nat
      BY EventIs, Zenon
    <3>2. Number[e[1]] <= Skip
      BY <2>1, <2>2, <3>1
    <3>3. OnChain(e[1], e[1])
      BY <3>1, Ancestry
    <3>4. OnChain(e[1], h)
      BY <3>1, <3>2, <3>3 DEF StoreInv, Near
    <3> QED
      BY <2>2, <3>1, <3>2, <3>4, Ancestry
  <2>6. Complete(SkipBlocksBefore, rows)
    <3> SUFFICES ASSUME NEW f \in Event, OnChain(f[1], SkipBlocksBefore), EventNumber(f) > Skip
                 PROVE  FALSE
      BY DEF Complete
    <3>1. f[1] \in Block /\ EventNumber(f) = Number[f[1]] /\ EventNumber(f) \in Nat
      BY EventIs, Zenon
    <3>2. Number[f[1]] <= Skip
      BY <2>2, <3>1, Ancestry
    <3> QED
      BY <2>2, <3>1, <3>2
  <2>7. Settled(mem, rows)
    BY <2>3, <2>4, <2>5, <2>6 DEF Settled
  <2>8. Near(SkipBlocksBefore, h, t)
    BY <2>2, HeadNear
  <2>9. HandledStored(SkipBlocksBefore, rows, h)
    BY <2>6 DEF Complete, HandledStored
  <2> QED
    BY <2>1, <2>3, <2>7, <2>8, <2>9 DEF MemoryInv, Mode
<1> QED
  BY <1>1, <1>2

\* Restart: the fresh memory fits the store.
LEMMA RestartStep ==
  ASSUME CleanRestarts, IInv, Restart
  PROVE  CoreInv' /\ UpdateInv'
<1>1. /\ Return /\ last_handled_blocks' = FreshHandled(store) /\ StoreStaysCanonical
      /\ UNCHANGED <<head, top, quiet, store>>
  BY DEF Restart, chainVars
<1>2. ChainOK(head, top) /\ StoreInv(store, head, top) /\ store \in SUBSET Event
  BY DEF IInv, CoreInv, TypeOK
<1>3. FreshHandled(store) = <<>> => \A e \in store : OnChain(e[1], head)
  BY <1>1 DEF StoreStaysCanonical
<1>4. MemoryInv(FreshHandled(store), store, head, top)
  BY <1>2, <1>3, FreshMemory
<1>5. CoreInv'
  BY <1>1, <1>2, <1>4 DEF CoreInv
<1> QED
  BY <1>1, <1>5, ReturnInv

\* The empty store of a new service.
LEMMA InitInv ==
  ASSUME Init
  PROVE  CoreInv /\ UpdateInv
<1>1. /\ head \in Block /\ OnChain(SkipBlocksBefore, head) /\ top = Number[head] /\ store = {}
      /\ Number[head] - Skip >= 2 * (2 * R) /\ last_handled_blocks = FreshHandled({})
  BY Zenon DEF Init, Skip, MAX_BLOCKS_QUERIED, R
<1>2. ChainOK(head, top)
  <2>1. Number[head] \in Nat /\ MaxLag \in Nat /\ R \in Nat /\ Skip \in Nat
    BY <1>1, Ancestry, Bounds
  <2>2. Number[head] <= top /\ top <= Number[head] + MaxLag /\ Skip + 4 * R <= top /\ top \in Nat
    BY <1>1, <2>1
  <2> QED
    BY <1>1, <2>2 DEF ChainOK
<1>3. StoreInv({}, head, top)
  BY DEF StoreInv
<1>4. MemoryInv(FreshHandled({}), {}, head, top)
  <2>1. {} \in SUBSET Event /\ \A e \in {} : OnChain(e[1], head)
    OBVIOUS
  <2> QED
    BY <1>2, <1>3, <2>1, FreshMemory
<1>5. CoreInv
  BY <1>1, <1>2, <1>3, <1>4 DEF CoreInv
<1>6. UpdateInv
  BY DEF Init, UpdateInv, LocalInv, SourceInv, RangeInv, FetchedInv, TailInv, StreamInv
<1> QED
  BY <1>5, <1>6

\* A step that changes nothing the invariant is about.
LEMMA QuietStep ==
  ASSUME IInv,
         UNCHANGED <<head, top, last_handled_blocks, store, pc, handled, history, latest,
                     latest_blocks, is_reorg, tail, cursor, buffer, have_deleted>>
  PROVE  CoreInv' /\ UpdateInv'
BY DEF IInv, CoreInv, UpdateInv, LocalInv, SourceInv, RangeInv, ShortRange, LongRange, FetchedInv,
       TailInv, StreamInv

\* Every step keeps the invariant.
LEMMA IndexerStep ==
  ASSUME CleanRestarts, MAX_PARALLEL_RPC_CALLS >= MAX_BLOCKS_QUERIED, IInv, [Next]_vars
  PROVE  CoreInv' /\ UpdateInv'
<1>1. ASSUME Return, UNCHANGED <<head, top, last_handled_blocks, store>>
      PROVE  CoreInv' /\ UpdateInv'
  BY <1>1, CoreStays, ReturnInv DEF IInv
<1>2. CASE ReadHandledBlocks
  BY <1>2, ReadHandledBlocksStep
<1>3. CASE CurrentIsNext
  BY <1>3, CurrentIsNextStep
<1>4. CASE CurrentIsLast
  BY <1>1, <1>4 DEF CurrentIsLast, chainVars
<1>5. CASE CurrentNeedsRange
  BY <1>5, CurrentNeedsRangeStep
<1>6. CASE FetchLatestWithHistory
  BY <1>6, FetchLatestWithHistoryStep
<1>7. CASE FetchLatestOnly
  BY <1>7, FetchLatestOnlyStep
<1>8. CASE LatestUnavailable
  BY <1>1, <1>8 DEF LatestUnavailable, chainVars
<1>9. CASE FetchTail
  BY <1>9, FetchTailStep
<1>10. CASE StreamPage
  BY <1>10, StreamPageStep
<1>11. CASE StreamChunk
  BY <1>11, StreamChunkStep
<1>12. CASE StreamEnd
  BY <1>12, StreamEndStep
<1>13. ASSUME NEW k, UpdateLatest(k) PROVE CoreInv' /\ UpdateInv'
  BY <1>13, UpdateLatestStep
<1>14. CASE RequestFails
  BY <1>1, <1>14 DEF RequestFails, chainVars
<1>15. CASE Restart
  BY <1>15, RestartStep
<1>16. ASSUME NEW b \in Block, NewHead(b) PROVE CoreInv' /\ UpdateInv'
  BY <1>16, NewHeadStep
<1>17. CASE BecomeQuiet
  BY <1>17, QuietStep DEF BecomeQuiet, rangeVars, streamVars
<1>18. CASE UNCHANGED vars
  BY <1>18, QuietStep DEF vars
<1> QED
  BY <1>2, <1>3, <1>4, <1>5, <1>6, <1>7, <1>8, <1>9, <1>10, <1>11, <1>12, <1>13, <1>14, <1>15,
     <1>16, <1>17, <1>18
  DEF Next, UpdateEvents, Fault, ChainMoves, UpdateLatestFully, UpdateLatestPartially

\* The invariant of the indexer.
LEMMA IndexerInvariant ==
  ASSUME CleanRestarts, MAX_PARALLEL_RPC_CALLS >= MAX_BLOCKS_QUERIED
  PROVE  Spec => [](CoreInv /\ UpdateInv)
<1> DEFINE Inv == CoreInv /\ UpdateInv
<1>1. Init => Inv
  BY InitInv
<1>2. TypeOK /\ Inv /\ [Next]_vars => Inv'
  BY IndexerStep DEF IInv
<1> HIDE DEF Inv
<1>3. Spec => []Inv
  BY <1>1, <1>2, TypeCorrect, PTL DEF Spec
<1> QED
  BY <1>3 DEF Inv

\* Whatever reorganisations, failed requests, partial updates and clean restarts happen,
\* the database never holds events of two competing forks.  The hypothesis on the
\* constants is the code's: 128 parallel queries for at most 2 * 64 blocks.
THEOREM StoreHoldsOneFork ==
  ASSUME CleanRestarts, MAX_PARALLEL_RPC_CALLS >= MAX_BLOCKS_QUERIED
  PROVE  Spec => []OneFork
<1>1. CoreInv => OneFork
  BY DEF CoreInv, StoreInv, OneFork
<1> QED
  BY <1>1, IndexerInvariant, PTL

\* The event stream of the stored fork has no holes: an event is only stored together with
\* every earlier event of its chain, although updates are interrupted between chunks.
THEOREM StoreHasNoGaps ==
  ASSUME CleanRestarts, MAX_PARALLEL_RPC_CALLS >= MAX_BLOCKS_QUERIED
  PROVE  Spec => []NoGaps
<1>1. CoreInv => NoGaps
  BY DEF CoreInv, StoreInv, NoGaps, Skip
<1> QED
  BY <1>1, IndexerInvariant, PTL

\* last_handled_blocks never runs ahead of the database: the events of a handled block
\* that is still canonical are stored.
THEOREM HandledBlocksAreStored ==
  ASSUME CleanRestarts, MAX_PARALLEL_RPC_CALLS >= MAX_BLOCKS_QUERIED
  PROVE  Spec => []HandledIsStored
<1>1. CoreInv => HandledIsStored
  <2> SUFFICES ASSUME CoreInv, last_handled_blocks # <<>>, NEW b \in Block,
                      OnChain(b, LastOf(last_handled_blocks)), OnChain(b, head),
                      Number[b] > Number[SkipBlocksBefore], NEW f \in Events(b)
               PROVE  f \in store
    BY DEF HandledIsStored
  <2>1. HandledStored(LastOf(last_handled_blocks), store, head)
    BY DEF CoreInv, MemoryInv
  <2>2. f \in Event /\ f[1] = b /\ EventNumber(f) = Number[b]
    BY EventIs DEF EventNumber
  <2> QED
    BY <2>1, <2>2 DEF HandledStored, Skip
<1> QED
  BY <1>1, IndexerInvariant, PTL
=============================================================================
