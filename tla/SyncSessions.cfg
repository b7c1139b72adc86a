SPECIFICATION Spec

CONSTANTS
  MaxHeight = 1
  MaxSessions = 2
  Batch = 1
  Needs <- FirstUser
  DbFaults = TRUE

INVARIANT AppliedOnce
 
INVARIANT NewestAccepted
INVARIANT OneVoice
CHECK_DEADLOCK FALSE
