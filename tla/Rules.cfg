SPECIFICATION Spec
CONSTANTS
    root = root
    ann = ann
    m0 = m0
    default = default
    fast = fast
    Keys <- MCKeys
    RootKey = root
    MasterKey = m0
    Configs <- MCConfigs
    DefaultName = default
    Menu <- MCMenu
    MaxRequests = 3
INVARIANTS
    TypeOK
    NodesConfigured
    DuplicatesOverlap
PROPERTIES
    RootFromRoot
CHECK_DEADLOCK FALSE
