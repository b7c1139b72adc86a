SPECIFICATION Spec

CONSTANTS
  m1 = m1
  m2 = m2
  m3 = m3
  a = a
  b = b
  g = g
  GenesisBody = g
  Masters = {m1}
  Requests = {1, 2}
  Home <- TwoHere
  Body <- Different
  MaxRetries = 0
  Authentic = {TRUE}
  Valid = {TRUE}
  CacheOutlivesVote = TRUE
  DbFaults = FALSE
  MaxCrashes = 0
  MaxReceipts = 0

INVARIANT AckedIsStored
CHECK_DEADLOCK FALSE
