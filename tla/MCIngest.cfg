SPECIFICATION Spec
CONSTANTS
    InitialApi <- MCInitialApi
    Incoming <- MCIncoming
    Statement <- MCStatement
    Page = 2
    ReconPage = 2
    Limit = 3
    MaxRuns = 2
INVARIANTS
    NoRefundIsLost
    NothingVanishes
    DiskOrder
PROPERTIES
    EveryRunEnds
CHECK_DEADLOCK FALSE
