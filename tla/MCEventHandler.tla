--------------------------- MODULE MCEventHandler ---------------------------
(* Small instances of EventHandler: a block is the path that leads to it.  *)
EXTENDS EventHandler

CONSTANTS Forks, Heavy, Light

Prefixes(s) == {SubSeq(s, 1, n) : n \in 0 .. Len(s)}

\* The blocks on the way to the tips of the forks.
MCBlock == UNION {Prefixes(s) : s \in Forks}
MCNumber == [b \in MCBlock |-> Len(b)]
MCChain == [b \in MCBlock |-> [n \in 0 .. Len(b) |-> SubSeq(b, 1, n)]]
MCNumEvents ==
  [b \in MCBlock |-> IF Len(b) \in Heavy THEN 2 ELSE IF Len(b) \in Light THEN 1 ELSE 0]

\* A trunk and forks off it; reorganisations are up to two blocks deep.
Trunk == [i \in 1 .. 12 |-> 0]
ForkAt(n, len, label) == SubSeq(Trunk, 1, n) \o [i \in 1 .. len |-> label]
TrunkAndForks == {Trunk, ForkAt(7, 2, 1), ForkAt(8, 3, 2), ForkAt(9, 3, 3)}
Genesis == <<>>

============================================================================
