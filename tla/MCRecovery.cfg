SPECIFICATION Spec
CONSTANTS
    Order = {o1}
    Server = {s1, s2}
    Situations <- MCSituations
    NoRow = NoRow
    MaxCalls = 1
INVARIANTS
    RowHasAction
    OneCallerIsFirst
    NothingBypassesPolicy
SYMMETRY ServerSymmetry
