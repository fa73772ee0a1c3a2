SPECIFICATION FairSpec
CONSTANTS
  o1 = o1
  o2 = o2
  Order <- OneOrder
  Partial <- OneOrder
  Others = {}
  SubmissionDeadline = 1
  MaxBlock = 1
  MaxAuction = 2
PROPERTIES
  ImplementsLife
  IterationEnds
\* After the last auction id the model, not the program, stops.
CHECK_DEADLOCK FALSE
