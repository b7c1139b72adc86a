SPECIFICATION Spec

CONSTANTS
  m1 = m1
  m2 = m2
  m3 = m3
  a = a
  b = b
  g = g
  GenesisBody = g
  Masters = {m1}
  Requests = {1, 2, 3}
  Home <- OneHome
  Body <- TwoAlike
  MaxRetries = 0
  Authentic = {TRUE}
  Valid = {TRUE}
  CacheOutlivesVote = TRUE
  DbFaults = TRUE
  MaxCrashes = 1
  MaxReceipts = 0

INVARIANT ChainLinked
INVARIANT AppliedOnce
 
CHECK_DEADLOCK FALSE
