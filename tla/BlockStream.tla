---------------------------- MODULE BlockStream ----------------------------
(***************************************************************************)
(* The stream of current blocks (crates/ethrpc/src/current_block/mod.rs):  *)
(* a task polls the node and publishes the head in a watch channel, of     *)
(* which every consumer sees the last value it has not seen yet.           *)
(*                                                                         *)
(* Blocks carry the order in which the node adopted them in place of their *)
(* hashes.  Requests of all services to the node may fail.                 *)
(***************************************************************************)
EXTENDS Integers

CONSTANTS MaxBlocks, MaxFailures   \* bounds: blocks of the node, failed requests

ASSUME StreamBounds == MaxBlocks \in Nat \ {0} /\ MaxFailures \in Nat

VARIABLES
  head,        \* node: its current block
  published,   \* previous_block, the value of the channel
  failures     \* failed requests so far

stream == <<head, published, failures>>

Block == [number : 1..MaxBlocks, hash : 1..MaxBlocks]

Genesis == [number |-> 1, hash |-> 1]

StreamInit == head = Genesis /\ published = Genesis /\ failures = 0

\* The node adopts a block: the next one, another one of the same height or, with a
\* reorganisation or a node that is behind, one below.
NewHead(number) ==
  /\ head.hash < MaxBlocks
  /\ number \in (head.number - 1) .. (head.number + 1) /\ number # 0
  /\ head' = [number |-> number, hash |-> head.hash + 1]
  /\ UNCHANGED <<published, failures>>

\* The loop of current_block_stream: published when the number has increased.
Poll ==
  /\ head.number > published.number
  /\ published' = head
  /\ UNCHANGED <<head, failures>>

\* A request that fails; a poll that fails changes nothing else.
Fails == failures < MaxFailures /\ failures' = failures + 1
============================================================================
