------------------------ MODULE MCSettlementUpdater ------------------------
(* Instances of SettlementUpdater for TLC.                                 *)
EXTENDS SettlementUpdater, TLC

CONSTANTS t1, t2, t3, t4, a1, ours, other

\* Two settlement events in the first block, one in the second.
MCSlot == {1, 2, 3}
MCHeight == [s \in MCSlot |-> IF s = 3 THEN 2 ELSE 1]

\* A smaller table for the liveness run: one event per block.
TwoSlots == {1, 3}
TwoHeights == [s \in TwoSlots |-> IF s = 3 THEN 2 ELSE 1]

MCTx == {t1, t2, t3, t4}
MCAuction == {a1}
MCSolver == {ours, other}
\* t1, t2 and t3 claim the same auction, t1 from another sender; t4 has no id.
MCClaimed == (t1 :> a1) @@ (t2 :> a1) @@ (t3 :> a1) @@ (t4 :> Default)
MCWinner == [a \in MCAuction |-> ours]
T1FromOther == [t \in MCTx |-> IF t = t1 THEN other ELSE ours]
============================================================================
