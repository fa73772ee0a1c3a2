SPECIFICATION Spec
CONSTANTS
  s1 = s1
  s2 = s2
  alice = alice
  bob = bob
  carol = carol
  amm = amm
  permit = permit
  NoInteraction = NoInteraction
  Solver = {s1, s2}
  Account = {alice, bob, carol, amm}
  Token = {"eth", "dai", "usd"}
  Interaction = {NoInteraction, permit}
  Auction <- MCAuction
  Amm <- MCAmm
  Holdings <- MCHoldings
  MaxFaults = 1
  SCALE = 100
  BASE = 2
  ClearingPrice <- MCClearingPrice
  ProposedFee = {0, 2}
SYMMETRY Symmetry
INVARIANTS
  WithinBalance
  SameForAllSolvers
  PaidFromAllocation
  FeesKeepLimit
  
\* The driver has nothing to do once every auction was answered.
CHECK_DEADLOCK FALSE
