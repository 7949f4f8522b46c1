SPECIFICATION Spec
CONSTANTS
    b1 = b1
    b2 = b2
    s1 = s1
    s2 = s2
    None = None
    Batch = {b1, b2}
    Setting = {s1, s2}
    OrdersOf <- MCOrdersOf
    Unbound <- MCUnbound
    Closes <- MCCloses
    Ambiguous <- MCAmbiguous
    Outcome <- MCOutcome
    Held <- MCHeld
    Facts <- MCFacts
    MATERIAL_OPEN_PAISE = 5
    STALE_CASE_DAYS = 30
    UI_VERIFY_SAMPLE = 2
INVARIANTS
    TypeOK
    SignedOnlyWhenProved
    HeldMoneyIsNamed
PROPERTIES
    ImplementsRegister
    ValidMeansIssued
