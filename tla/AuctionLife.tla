---------------------------- MODULE AuctionLife ----------------------------
(***************************************************************************)
(* What the auction loop (crates/autopilot/src/run_loop.rs) promises of    *)
(* every auction id: ids are used in turn and never again, one auction at  *)
(* a time; a settlement is requested once, from a recorded auction, and    *)
(* what was given up is never executed later.                              *)
(***************************************************************************)
EXTENDS Naturals

CONSTANT MaxAuction   \* bound: the last auction id

VARIABLE phase   \* auction id -> phase of its life

Auction == 1 .. MaxAuction

Phase == {"unused", "open", "recorded", "requested", "executed", "closed"}

Init == phase = [i \in Auction |-> "unused"]

Moves(i, from, to) == phase[i] = from /\ phase' = [phase EXCEPT ![i] = to]

\* The next id; an empty auction is closed at once.
Begin(i, to) ==
  /\ to \in {"open", "closed"}
  /\ \A k \in 1 .. i - 1 : phase[k] # "unused"
  /\ \A k \in Auction : phase[k] \notin {"open", "recorded"}
  /\ Moves(i, "unused", to)

Record(i) == Moves(i, "open", "recorded")

Request(i) == Moves(i, "recorded", "requested")

\* A failure, a restart, a lost request or a dropped transaction.
Close(i) == \E from \in {"open", "recorded", "requested"} : Moves(i, from, "closed")

\* One block can hold the settlements of several auctions.
Execute(S) ==
  /\ \A i \in S : phase[i] = "requested"
  /\ phase' = [i \in Auction |-> IF i \in S THEN "executed" ELSE phase[i]]

Next ==
  \/ \E i \in Auction, to \in Phase : Begin(i, to)
  \/ \E i \in Auction : Record(i) \/ Request(i) \/ Close(i)
  \/ \E S \in SUBSET Auction : Execute(S)

Spec == Init /\ [][Next]_phase
============================================================================
