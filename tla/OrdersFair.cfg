SPECIFICATION FairSpec

CONSTANTS
  m1 = m1
  m2 = m2
  m3 = m3
  a = a
  b = b
  g = g
  GenesisBody = g
  Masters = {m1, m2}
  Requests = {1, 2}
  Home <- TwoHere
  Body <- Different
  MaxRetries = 1
  Authentic = {TRUE}
  Valid = {TRUE, FALSE}
  CacheOutlivesVote = FALSE
  DbFaults = FALSE
  MaxCrashes = 0
  MaxReceipts = 2

INVARIANT InFlightLinked
INVARIANT SerialVotesOwnChain
INVARIANT TypeOK
PROPERTY EveryOrderSettles
PROPERTY VotersForget
CHECK_DEADLOCK FALSE
