----------------------------- MODULE BlockTree -----------------------------
(***************************************************************************)
(* The tree of all blocks the network may ever produce, as the services    *)
(* see it through `BlockInfo' (number, hash, parent_hash).  A hash commits *)
(* to the whole ancestry of its block, so a block stands for its           *)
(* (number, hash) pair and determines one ancestor at every lower height.  *)
(* The events a contract emits in a block are numbered by their log index. *)
(***************************************************************************)
EXTENDS Integers

CONSTANTS
  Block,      \* the blocks of the tree
  Number,     \* Number[b]: the height of b
  Chain,      \* Chain[b][n]: the ancestor-or-self of b at height n
  NumEvents   \* NumEvents[b]: how many contract events b carries

ASSUME NumberAssumption == Number \in [Block -> Nat]

ASSUME ChainAssumption ==
  \A b \in Block :
    /\ Chain[b] \in [0 .. Number[b] -> Block]
    /\ Chain[b][Number[b]] = b
    /\ \A n \in 0 .. Number[b] : Number[Chain[b][n]] = n

ASSUME AncestryAssumption ==
  \A b \in Block : \A n \in 0 .. Number[b] : \A m \in 0 .. n :
    Chain[Chain[b][n]][m] = Chain[b][m]

ASSUME EventsAssumption == NumEvents \in [Block -> Nat]

----------------------------------------------------------------------------
\* a is b or one of its ancestors.
OnChain(a, b) == Number[a] <= Number[b] /\ Chain[b][Number[a]] = a

\* current_block.parent_hash == hash of a
IsParent(a, b) == Number[b] = Number[a] + 1 /\ Chain[b][Number[a]] = a

\* An event is the i-th log of its block.
Events(b) == {<<b, i>> : i \in 1 .. NumEvents[b]}
Event == UNION {Events(b) : b \in Block}

\* The height of an event; (EventNumber(e), e[2]) is its EventIndex.
EventNumber(e) == Number[e[1]]
SameIndex(e, f) == EventNumber(e) = EventNumber(f) /\ e[2] = f[2]

\* The order in which a node reports the events of a block range.
Before(e, f) ==
  \/ EventNumber(e) < EventNumber(f)
  \/ EventNumber(e) = EventNumber(f) /\ e[2] < f[2]
============================================================================
