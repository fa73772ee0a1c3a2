SPECIFICATION Spec
CONSTANTS
  MaxBlocks = 4
  MaxFailures = 1
  Key = {k1, k2}
  Client = {c1, c2}
  number_of_blocks_to_cache = 2
  number_of_entries_to_auto_update = 1
  maximum_recent_block_age = 1
  MaxRequests = 3
SYMMETRY Symmetry
INVARIANTS
  PinnedAnswers
  RecentIsRecent
  UpdatedKeysStayWarm
PROPERTIES
  RecentNeverGoesBack
CHECK_DEADLOCK FALSE
