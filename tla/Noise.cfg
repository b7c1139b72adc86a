SPECIFICATION FairSpec
CONSTANTS
    MaxBytes <- Few
    MaxFrame = 2
    Extra = 1
    Width = 4
    Room = 2
    Setups <- OneDeviation
    MayBreak = TRUE
INVARIANTS
    TypeOK
    NeverGarbled
    CloseDelivers
    
PROPERTIES
    RefinesSecureChannel
    NobodyHangs
    EndIsRead
CHECK_DEADLOCK FALSE
