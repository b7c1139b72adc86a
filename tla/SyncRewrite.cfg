SPECIFICATION Spec

CONSTANTS
  MaxHeight = 3
  MaxSessions = 1
  Batch = 2
  Needs <- FirstUser
  DbFaults = FALSE

INVARIANT MasterNeverRewrites
CHECK_DEADLOCK FALSE
