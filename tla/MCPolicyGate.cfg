SPECIFICATION GateSpec
CONSTANTS
    Situations <- MCSituations
    Action = {"CREATE_PAYMENT_LINK", "AUTO_CHARGE", "SEND_SMS"}
    Confidence <- MCConfidence
    MaxCount = 4
INVARIANTS
    AllowIsEarned
    RevocationHoldsFuzzy
PROPERTIES
    PressureNeverAllows
