SPECIFICATION Spec
CONSTANTS
  a = a
  b = b
  Uid = {a, b}
  Estimate = {100}
  MAX_GAS_PRICE = 146
  START_PRIORITY_FEE_TIP = 140
  ValidTo <- MCValidTo
  QuoteExpiry <- MCQuoteExpiry
  MAX_NUMBER_OF_UIDS_PER_REFUND_TX = 1
  MaxTime = 1
  MaxEvents = 2
  MaxFaults = 1
INVARIANTS
  OfferedCanBeRefunded
  
PROPERTIES
  NeverUnderpriced
  
CHECK_DEADLOCK FALSE
