SPECIFICATION ServingSpec
CONSTANTS
    Order = {o1}
    Server = {s1}
    Situations <- MCSituations
    NoRow = NoRow
    MaxCalls = 2
INVARIANT
    ActionTakenOnce
