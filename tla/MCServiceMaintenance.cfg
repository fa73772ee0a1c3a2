SPECIFICATION MaintenanceSpec
CONSTANTS
  MaxBlocks = 5
  MaxFailures = 3
  Maintainer = {m1, m2}
INVARIANTS
  UpdatedMeansMaintained
PROPERTIES
  PublishedIsMaintained
CHECK_DEADLOCK FALSE
