SPECIFICATION FairSpec
CONSTANTS
    o1 = o1
    v1 = v1
    v2 = v2
    u1 = u1
    j1 = j1
    Orders = {o1}
    Voters = {v1, v2}
    Updates = {u1}
    Joins = {j1}
    QueueCap = 1
    CallCap = 1
    Workers = 2
    MaxGossip = 2
    MaxLoad = 3
INVARIANT TypeOK
 
PROPERTY WaitsEnd
CHECK_DEADLOCK FALSE
