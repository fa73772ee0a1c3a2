SPECIFICATION FairSpec
CONSTANTS
  public = public
  private = private
  Auction <- TwoAuctions
  MaxAuction = 2
  MayRevert = {1, 2}
  Mempool = {public, private}
  Public = {public}
  MaxBlock = 2
  SubmissionDeadline = 2
INVARIANTS
  SettlesWhatWasSaved
  SuccessIsExecuted
  ExpiredIsCancelled
PROPERTIES
  VoidedNotExecuted
  ExecutionEnds
\* After the last auction the model, not the program, stops.
CHECK_DEADLOCK FALSE
