---------------------------- MODULE EventHandler ----------------------------
(***************************************************************************)
(* The contract event indexer (crates/shared/src/event_handling.rs) over   *)
(* the database event store of the autopilot.  Each call of update_events  *)
(* asks the node for the current block, decides which blocks to (re)read   *)
(* and writes their events to the store.  The node's chain moves between   *)
(* any two requests, every request may fail, and the process may restart,  *)
(* which loses last_handled_blocks and keeps the store.                    *)
(***************************************************************************)
EXTENDS BlockTree, Sequences, FiniteSets

CONSTANTS
  MAX_REORG_BLOCK_COUNT,
  MAX_PARALLEL_RPC_CALLS,
  INSERT_EVENT_BATCH_SIZE,
  SkipBlocksBefore,   \* the block given to new_skip_blocks_before; genesis: none
  MaxLag,             \* how far a reported head may be below the highest one
  CleanRestarts       \* no stored event is orphaned while the process is down

MAX_BLOCKS_QUERIED == 2 * MAX_REORG_BLOCK_COUNT

ASSUME ReorgAssumption == MAX_REORG_BLOCK_COUNT \in Nat \ {0}
ASSUME ParallelAssumption == MAX_PARALLEL_RPC_CALLS \in Nat \ {0}
ASSUME BatchAssumption == INSERT_EVENT_BATCH_SIZE \in Nat \ {0}
ASSUME SkipAssumption == SkipBlocksBefore \in Block
ASSUME LagAssumption == MaxLag \in Nat /\ MaxLag < MAX_REORG_BLOCK_COUNT
ASSUME CleanAssumption == CleanRestarts \in BOOLEAN

\* The comment in update_events_from_old_blocks: more events than one batch in
\* the reorganisable blocks are not expected.
ASSUME BatchCoversReorgs ==
  \A b \in Block :
    Cardinality({e \in Event : /\ OnChain(e[1], b)
                               /\ EventNumber(e) >= Number[b] - MAX_REORG_BLOCK_COUNT})
      <= INSERT_EVENT_BATCH_SIZE

VARIABLES
  head,                 \* the node's current block
  top,                  \* the highest block number the node ever reported
  quiet,                \* from now on the chain rests and requests succeed
  last_handled_blocks,  \* handler memory
  store,                \* the events in the database
  pc,                   \* where the running update_events is
  handled,              \* local handled_blocks of event_block_range
  history,              \* history_range <<start, end>>, or NoRange
  latest,               \* latest_range <<start, end>>, or NoRange
  latest_blocks,
  is_reorg,
  tail,                 \* blocks fetched for last_handled_blocks (old blocks)
  cursor,               \* next block number the event stream reads
  buffer,               \* events read and not yet in a chunk
  have_deleted          \* have_deleted_old_events

chainVars == <<head, top, quiet>>
rangeVars == <<handled, history, latest, latest_blocks, is_reorg>>
streamVars == <<tail, cursor, buffer, have_deleted>>
vars == <<head, top, quiet, last_handled_blocks, store, pc, handled, history, latest,
          latest_blocks, is_reorg, tail, cursor, buffer, have_deleted>>

NoRange == <<1, 0>>   \* no block lies between 1 and 0
LastOf(s) == s[Len(s)]
WrappingSub(a, b) == a - b                                \* mutant of SaturatingSub
SaturatingSub(a, b) == IF a > b THEN a - b ELSE 0

----------------------------------------------------------------------------
(* The store: database::events.                                            *)

\* n is MAX(block_number), 0 when the tables are empty.
IsLastEventBlock(rows, n) ==
  IF rows = {} THEN n = 0
  ELSE /\ \E e \in rows : EventNumber(e) = n
       /\ \A e \in rows : EventNumber(e) <= n

\* INSERT ... ON CONFLICT DO NOTHING on (block_number, log_index).
AppendEvents(rows, events) ==
  rows \cup {e \in events : \A r \in rows : ~ SameIndex(r, e)}

DeleteFrom(rows, n) == {r \in rows : EventNumber(r) < n}

ReplaceEvents(rows, events, n) == AppendEvents(DeleteFrom(rows, n), events)

----------------------------------------------------------------------------
(* Pure parts of the algorithm.                                            *)

\* The node's blocks lo .. hi as a list.
Blocks(lo, hi) == [i \in 1 .. (hi - lo + 1) |-> Chain[head][lo + i - 1]]

\* Mutant of SplitRange: one block between the two ranges is lost.
SplitRangeGap(start, end) ==
  IF SaturatingSub(end, start) > MAX_BLOCKS_QUERIED
  THEN [history |-> <<start, end - MAX_BLOCKS_QUERIED - 1>>,
        latest  |-> <<end - MAX_BLOCKS_QUERIED + 1, end>>]
  ELSE [history |-> NoRange, latest |-> <<start, end>>]

SplitRange(start, end) ==
  IF SaturatingSub(end, start) > MAX_BLOCKS_QUERIED
  THEN [history |-> <<start, end - MAX_BLOCKS_QUERIED>>,
        latest  |-> <<end - MAX_BLOCKS_QUERIED + 1, end>>]
  ELSE [history |-> NoRange, latest |-> <<start, end>>]

\* Positions of the same block in both lists.
Common(old, new) == {p \in (DOMAIN old) \X (DOMAIN new) : old[p[1]] = new[p[2]]}

\* Mutant of DetectReorgPath: an orphaned last handled block is not a reorg.
DetectReorgPathAppend(old, new) ==
  IF Common(old, new) = {}
  THEN {[blocks |-> new, reorg |-> FALSE]}
  ELSE {[blocks |-> SubSeq(new, p[2] + 1, Len(new)), reorg |-> FALSE] :
          p \in {q \in Common(old, new) : \A r \in Common(old, new) :
                   r[1] < q[1] \/ (r[1] = q[1] /\ r[2] <= q[2])}}

\* The newest handled block that is still among the latest ones ends the
\* common part; without one the whole list is taken.  There is one result.
DetectReorgPath(old, new) ==
  IF Common(old, new) = {}
  THEN {[blocks |-> new, reorg |-> old # <<>>]}
  ELSE {[blocks |-> SubSeq(new, p[2] + 1, Len(new)), reorg |-> old[p[1]] # LastOf(old)] :
          p \in {q \in Common(old, new) : \A r \in Common(old, new) :
                   r[1] < q[1] \/ (r[1] = q[1] /\ r[2] <= q[2])}}

\* Mutant of BlocksFiltered: a partial update counts as a full one.
BlocksFilteredAll(blocks, k) == IF k > 0 THEN blocks ELSE <<>>

\* blocks_filtered after the first k event queries succeeded.  The code takes
\* blocks[i] for the i-th element of a chunk, also in the second chunk.
BlocksFiltered(blocks, k) ==
  [i \in 1 .. k |-> blocks[((i - 1) % MAX_PARALLEL_RPC_CALLS) + 1]]

\* Vec::retain: the elements of old at the indices ix, in order, where ix lists
\* exactly the blocks below height n.
IndexLists(old) == UNION {[1 .. m -> DOMAIN old] : m \in 0 .. Len(old)}
Retains(ix, old, n) ==
  /\ \A j, k \in DOMAIN ix : j < k => ix[j] < ix[k]
  /\ \A i \in DOMAIN old : Number[old[i]] < n <=> \E k \in DOMAIN ix : ix[k] = i

\* Forked blocks are dropped, the new ones appended, the list capped.
Capped(list) ==
  SubSeq(list, SaturatingSub(Len(list), MAX_REORG_BLOCK_COUNT) + 1, Len(list))
UpdateLastHandledBlocks(blocks) ==
  \E ix \in IndexLists(last_handled_blocks) :
    /\ Retains(ix, last_handled_blocks, Number[blocks[1]])
    /\ last_handled_blocks' =
         Capped([k \in DOMAIN ix |-> last_handled_blocks[ix[k]]] \o blocks)

----------------------------------------------------------------------------
(* The end of update_events: its locals are gone.                          *)
Return ==
  /\ pc' = "idle"
  /\ handled' = <<>>
  /\ history' = NoRange
  /\ latest' = NoRange
  /\ latest_blocks' = <<>>
  /\ is_reorg' = FALSE
  /\ tail' = <<>>
  /\ cursor' = 0
  /\ buffer' = {}
  /\ have_deleted' = FALSE

\* last_handled_blocks of a fresh handler over the store rows.
FreshHandled(rows) ==
  IF \/ Number[SkipBlocksBefore] = 0
     \/ \E e \in rows : EventNumber(e) >= Number[SkipBlocksBefore]
  THEN <<>> ELSE <<SkipBlocksBefore>>

\* The service starts with an empty database on a chain that is much longer than
\* the window of blocks an update handles.
Init ==
  /\ head \in Block
  /\ OnChain(SkipBlocksBefore, head)
  /\ Number[head] - Number[SkipBlocksBefore] >= 2 * MAX_BLOCKS_QUERIED
  /\ top = Number[head]
  /\ quiet = FALSE
  /\ store = {}
  /\ last_handled_blocks = FreshHandled({})
  /\ pc = "idle"
  /\ handled = <<>>
  /\ history = NoRange
  /\ latest = NoRange
  /\ latest_blocks = <<>>
  /\ is_reorg = FALSE
  /\ tail = <<>>
  /\ cursor = 0
  /\ buffer = {}
  /\ have_deleted = FALSE

----------------------------------------------------------------------------
(* The chain.  The blocks MAX_REORG_BLOCK_COUNT below the highest head are *)
(* final; everything above may be replaced.                                *)

\* With CleanRestarts a process without memory finds its stored events on
\* the node's chain.
StoreStaysCanonical ==
  CleanRestarts /\ last_handled_blocks' = <<>>
    => \A e \in store' : OnChain(e[1], head')

NewHead(b) ==
  /\ ~ quiet
  /\ b # head
  /\ Number[b] >= top - MaxLag
  /\ \A n \in 0 .. (top - MAX_REORG_BLOCK_COUNT) : Chain[b][n] = Chain[head][n]
  /\ head' = b
  /\ top' = IF Number[b] > top THEN Number[b] ELSE top
  /\ UNCHANGED <<quiet, last_handled_blocks, store, pc, rangeVars, streamVars>>
  /\ StoreStaysCanonical

----------------------------------------------------------------------------
(* event_block_range                                                       *)

\* handled_blocks: the handler's memory or, without one, the block the node
\* now has at the height of the last stored event.
ReadHandledBlocks ==
  /\ pc = "idle"
  /\ \/ /\ last_handled_blocks # <<>>
        /\ handled' = last_handled_blocks
     \/ /\ last_handled_blocks = <<>>
        /\ \E n \in 0 .. Number[head] :
             IsLastEventBlock(store, n) /\ handled' = <<Chain[head][n]>>
  /\ pc' = "current"
  /\ UNCHANGED <<chainVars, last_handled_blocks, store, history, latest,
                 latest_blocks, is_reorg, streamVars>>

\* One new block on top of the last handled one.
CurrentIsNext ==
  /\ pc = "current"
  /\ IsParent(LastOf(handled), head)
  /\ latest_blocks' = <<head>>
  /\ pc' = "update"
  /\ UNCHANGED <<chainVars, last_handled_blocks, store, handled, history,
                 latest, is_reorg, streamVars>>

\* Mutant of CurrentIsLast: compares heights, not hashes.
CurrentIsLastByNumber ==
  /\ pc = "current"
  /\ Number[head] = Number[LastOf(handled)]
  /\ Return
  /\ UNCHANGED <<chainVars, last_handled_blocks, store>>

\* No new block.
CurrentIsLast ==
  /\ pc = "current"
  /\ head = LastOf(handled)
  /\ Return
  /\ UNCHANGED <<chainVars, last_handled_blocks, store>>

\* Anything else: the range from MAX_REORG_BLOCK_COUNT below the last handled
\* block to the current one.
CurrentNeedsRange ==
  /\ pc = "current"
  /\ ~ IsParent(LastOf(handled), head)
  /\ head # LastOf(handled)
  /\ LET start == SaturatingSub(Number[LastOf(handled)], MAX_REORG_BLOCK_COUNT)
         split == SplitRange(start, Number[head])
     IN  /\ start <= Number[head]
         /\ history' = split.history
         /\ latest' = split.latest
  /\ pc' = "latest"
  /\ UNCHANGED <<chainVars, last_handled_blocks, store, handled, latest_blocks,
                 is_reorg, streamVars>>

\* latest_blocks over the chain the node has by now.
FetchLatestWithHistory ==
  /\ pc = "latest"
  /\ history # NoRange
  /\ latest[2] <= Number[head]
  /\ latest_blocks' = Blocks(latest[1], latest[2])
  /\ is_reorg' = TRUE
  /\ pc' = "history"
  /\ UNCHANGED <<chainVars, last_handled_blocks, store, handled, history,
                 latest, streamVars>>

\* The chain got shorter than the range: the block request fails.
LatestUnavailable ==
  /\ pc = "latest"
  /\ latest[2] > Number[head]
  /\ Return
  /\ UNCHANGED <<chainVars, last_handled_blocks, store>>

FetchLatestOnly ==
  /\ pc = "latest"
  /\ history = NoRange
  /\ latest[2] <= Number[head]
  /\ \E path \in DetectReorgPath(handled, Blocks(latest[1], latest[2])) :
         \/ /\ path.blocks = <<>>
            /\ Return
         \/ /\ path.blocks # <<>>
            /\ latest_blocks' = path.blocks
            /\ is_reorg' = path.reorg
            /\ pc' = "update"
            /\ UNCHANGED <<handled, history, latest, streamVars>>
  /\ UNCHANGED <<chainVars, last_handled_blocks, store>>

----------------------------------------------------------------------------
(* update_events_from_old_blocks                                           *)

FetchTail ==
  /\ pc = "history"
  /\ history[2] <= Number[head]
  /\ tail' = Blocks(SaturatingSub(history[2], MAX_REORG_BLOCK_COUNT), history[2])
  /\ cursor' = history[1]
  /\ pc' = "stream"
  /\ UNCHANGED <<chainVars, last_handled_blocks, store, rangeVars, buffer,
                 have_deleted>>

\* The paginated event query reads its next page; a page is one block here.
StreamPage ==
  /\ pc = "stream"
  /\ cursor <= history[2]
  /\ cursor <= Number[head]
  /\ Cardinality(buffer) < INSERT_EVENT_BATCH_SIZE
  /\ buffer' = buffer \cup Events(Chain[head][cursor])
  /\ cursor' = cursor + 1
  /\ UNCHANGED <<chainVars, last_handled_blocks, store, pc, rangeVars, tail,
                 have_deleted>>

\* The first chunk replaces, in one transaction; the later ones append.
WriteChunk(chunk) ==
  store' = IF have_deleted THEN AppendEvents(store, chunk)
                           ELSE ReplaceEvents(store, chunk, history[1])

\* A full chunk: the first INSERT_EVENT_BATCH_SIZE events read.
StreamChunk ==
  /\ pc = "stream"
  /\ Cardinality(buffer) >= INSERT_EVENT_BATCH_SIZE
  /\ \E chunk \in SUBSET buffer :
       /\ Cardinality(chunk) = INSERT_EVENT_BATCH_SIZE
       /\ \A e \in chunk : \A f \in buffer \ chunk : Before(e, f)
       /\ WriteChunk(chunk)
       /\ buffer' = buffer \ chunk
  /\ have_deleted' = TRUE
  /\ UNCHANGED <<chainVars, last_handled_blocks, pc, rangeVars, tail, cursor>>

\* The stream is exhausted: the last, shorter chunk (or the deletion alone
\* when there were no events at all), then last_handled_blocks.
StreamEnd ==
  /\ pc = "stream"
  /\ cursor > history[2]
  /\ Cardinality(buffer) < INSERT_EVENT_BATCH_SIZE
  /\ WriteChunk(buffer)
  /\ UpdateLastHandledBlocks(tail)
  /\ pc' = "update"
  /\ tail' = <<>>
  /\ cursor' = 0
  /\ buffer' = {}
  /\ have_deleted' = FALSE
  /\ UNCHANGED <<chainVars, rangeVars>>

----------------------------------------------------------------------------
(* update_events_from_latest_blocks: the event queries by block hash of    *)
(* the first k blocks succeed and the next one, if any, fails.             *)
UpdateLatest(k) ==
  /\ pc = "update"
  /\ k \in 1 .. Len(latest_blocks)
  /\ LET blocks == BlocksFiltered(latest_blocks, k)
         events == UNION {Events(latest_blocks[i]) : i \in 1 .. k}
     IN  /\ Number[blocks[1]] <= Number[LastOf(blocks)]
         /\ store' = IF is_reorg
                     THEN ReplaceEvents(store, events, Number[blocks[1]])
                     ELSE AppendEvents(store, events)
         /\ UpdateLastHandledBlocks(blocks)
  /\ Return
  /\ UNCHANGED chainVars

UpdateLatestFully == UpdateLatest(Len(latest_blocks))
UpdateLatestPartially ==
  ~ quiet /\ \E k \in 1 .. (Len(latest_blocks) - 1) : UpdateLatest(k)

----------------------------------------------------------------------------
(* Failures.                                                               *)

\* Some request to the node or the database fails: `?` leaves update_events.
RequestFails ==
  /\ ~ quiet
  /\ pc # "idle"
  /\ Return
  /\ UNCHANGED <<chainVars, last_handled_blocks, store>>

Restart ==
  /\ ~ quiet
  /\ Return
  /\ last_handled_blocks' = FreshHandled(store)
  /\ UNCHANGED <<chainVars, store>>
  /\ StoreStaysCanonical

----------------------------------------------------------------------------
UpdateEvents ==
  \/ ReadHandledBlocks \/ CurrentIsNext \/ CurrentIsLast \/ CurrentNeedsRange
  \/ FetchLatestWithHistory \/ FetchLatestOnly \/ LatestUnavailable
  \/ FetchTail \/ StreamPage \/ StreamChunk \/ StreamEnd
  \/ UpdateLatestFully

Fault == UpdateLatestPartially \/ RequestFails \/ Restart

ChainMoves == \E b \in Block : NewHead(b)

BecomeQuiet ==
  /\ ~ quiet
  /\ quiet' = TRUE
  /\ UNCHANGED <<head, top, last_handled_blocks, store, pc, rangeVars, streamVars>>

Next == UpdateEvents \/ Fault \/ ChainMoves \/ BecomeQuiet

Spec == Init /\ [][Next]_vars

\* ServiceMaintenance calls update_events again and again, and a request that
\* does not fail is answered.
FairSpec == Spec /\ WF_vars(UpdateEvents)

----------------------------------------------------------------------------
(* Properties.                                                             *)

TypeOK ==
  /\ head \in Block
  /\ top \in Nat
  /\ quiet \in BOOLEAN
  /\ last_handled_blocks \in Seq(Block)
  /\ store \in SUBSET Event
  /\ pc \in {"idle", "current", "latest", "history", "stream", "update"}
  /\ handled \in Seq(Block)
  /\ pc = "current" => handled # <<>>
  /\ history \in Nat \X Nat
  /\ latest \in Nat \X Nat
  /\ latest_blocks \in Seq(Block)
  /\ is_reorg \in BOOLEAN
  /\ tail \in Seq(Block)
  /\ cursor \in Nat
  /\ buffer \in SUBSET Event
  /\ have_deleted \in BOOLEAN

\* No two stored events come from competing forks: whatever reorganisations,
\* failed requests and interrupted updates happened, the database never holds
\* the events of an orphaned block next to those of the blocks that replaced it.
OneFork ==
  \A e, f \in store :
    EventNumber(e) <= EventNumber(f) => OnChain(e[1], f[1])

\* The event stream of a fork is indexed without holes: an event is stored only
\* together with every event its block's chain emitted before it.
NoGaps ==
  \A e \in store : \A f \in Event :
    (/\ EventNumber(f) > Number[SkipBlocksBefore]
     /\ OnChain(f[1], e[1])
     /\ Before(f, e))
      => f \in store

\* A block the handler counts as handled and that is still canonical has all
\* its events in the database (last_handled_blocks never runs ahead of it).
HandledIsStored ==
  pc # "stream" /\ last_handled_blocks # <<>> =>
    \A b \in Block :
      (/\ OnChain(b, LastOf(last_handled_blocks))
       /\ OnChain(b, head)
       /\ Number[b] > Number[SkipBlocksBefore])
        => Events(b) \subseteq store

\* The database holds the events of the node's chain, and no others except those
\* of the blocks directly above a head that moved back.
InSync ==
  \A e \in Event : EventNumber(e) > Number[SkipBlocksBefore] =>
    /\ OnChain(e[1], head) => e \in store
    /\ e \in store => OnChain(e[1], head) \/ OnChain(head, e[1])

\* When the chain stops moving and requests stop failing the indexer catches
\* up with the chain and stays there.
Converges == quiet ~> []InSync
============================================================================
