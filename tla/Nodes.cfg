SPECIFICATION FairSpec
CONSTANTS
    n1 = n1
    m = m
    default = default
    fast = fast
    Nodes = {n1}
    Self = m
    Configs = {default, fast}
    DefaultName = default
    Stats = {1, 2, 3}
    Target <- Mixed
    MaxEvents = 2
    MaxFaults = 1
INVARIANTS
    TypeOK
    
    
    OwnStats
PROPERTIES
    StatsAnswered
CHECK_DEADLOCK FALSE
