SPECIFICATION FairSessionSpec

CONSTANTS
  MaxHeight = 2
  MaxSessions = 1
  Batch = 2
  Needs <- LateUser
  DbFaults = FALSE
  Stamp <- TwoSeconds
  Home <- SecondNode
  StatBatch = 1
  MaxLoad = 2
  MaxBreaks = 1

INVARIANT TypeOK
INVARIANT SessionTypeOK
INVARIANT SkippedOnlyLate
PROPERTY PolledIsSent
 
PROPERTY CallsReturn
CHECK_DEADLOCK FALSE
