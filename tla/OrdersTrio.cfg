SPECIFICATION Spec

CONSTANTS
  m1 = m1
  m2 = m2
  m3 = m3
  a = a
  b = b
  g = g
  GenesisBody = g
  Masters = {m1, m2, m3}
  Requests = {1}
  Home <- FirstHome
  Body <- Single
  MaxRetries = 0
  Authentic = {TRUE}
  Valid = {TRUE, FALSE}
  CacheOutlivesVote = TRUE
  DbFaults = FALSE
  MaxCrashes = 1
  MaxReceipts = 5

INVARIANT OnlyOwnOrders
 
 
CHECK_DEADLOCK FALSE
