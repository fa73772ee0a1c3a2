SPECIFICATION FairUpdaterSpec
CONSTANTS
  t1 = t1
  t2 = t2
  t3 = t3
  t4 = t4
  a1 = a1
  ours = ours
  other = other
  Default = Default
  None = None
  Slot <- TwoSlots
  Height <- TwoHeights
  Tx <- MCTx
  Auction <- MCAuction
  Solver <- MCSolver
  Claimed <- MCClaimed
  Winner <- MCWinner
  From <- T1FromOther
INVARIANTS AttributedUnlessRaced OneObservationPerAuction
PROPERTIES EventuallyProcessed
