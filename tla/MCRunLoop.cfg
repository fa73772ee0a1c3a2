SPECIFICATION Spec
CONSTANTS
  o1 = o1
  o2 = o2
  Order <- OneOrder
  Partial = {}
  Others = {0}
  SubmissionDeadline = 1
  MaxBlock = 1
  MaxAuction = 2
INVARIANTS
  TypeOK
  LastSettledNotOffered
  SavedBeforeSettled
\* After the last auction id the model, not the program, stops.
CHECK_DEADLOCK FALSE
