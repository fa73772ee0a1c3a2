SPECIFICATION Spec
CONSTANTS
  alice = alice
  a = a
  b = b
  d = d
  c1 = c1
  c2 = c2
  Uid = {a, b, d}
  User = {alice}
  Client = {c1, c2}
  Books <- MCBooks
  MinPeriod = 0
  MaxPeriod = 1
  MaxLimitOrders = 1
  MinOrderValidity = 1
  MaxTime = 1
  MaxTasks = 1
  MaxBlock = 2
SYMMETRY Symmetry
INVARIANTS
  
  ReplacementIsAtomic
  LimitOrdersBounded
  
CHECK_DEADLOCK FALSE
