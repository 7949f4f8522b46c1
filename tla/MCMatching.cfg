SPECIFICATION MCSpec
CONSTANTS
    Batches <- MCBatches
    TIE_MARGIN_POINTS = 5
    MAX_COMPONENT_EDGES = 6
    MatchPoints = 8
    YearEnd = 3
    LeapDay = 63
    Claims <- MCClaims
INVARIANTS
    FuzzyCreditProvesOnce
    AssignmentIsOptimal
    TiesAreExact
    UnpaidIsProven
    VerifierAgrees
    IdentityAgrees
CHECK_DEADLOCK FALSE
