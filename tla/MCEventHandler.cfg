SPECIFICATION FairSpec
CONSTANTS
  Forks <- TrunkAndForks
  Heavy = {4, 9}
  Light = {1, 2, 6, 8, 11}
  Block <- MCBlock
  Number <- MCNumber
  Chain <- MCChain
  NumEvents <- MCNumEvents
  MAX_REORG_BLOCK_COUNT = 2
  MAX_PARALLEL_RPC_CALLS = 4
  INSERT_EVENT_BATCH_SIZE = 3
  SkipBlocksBefore <- Genesis
  MaxLag = 1
  CleanRestarts = TRUE
INVARIANTS TypeOK OneFork NoGaps HandledIsStored
PROPERTIES Converges
