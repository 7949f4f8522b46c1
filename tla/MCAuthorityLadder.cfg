SPECIFICATION Spec
CONSTANTS
    Window <- MCWindow
    Severity <- MCSeverity
    Calibration = {cal1, cal2}
    MaxWindows = 7
    MIN_WINDOW = 10
    MAX_DIGITS = 9
    Baseline <- MCBaseline
    Live <- MCLive
INVARIANTS
    LadderFollowsSevereRun
    HonestStreamKeepsAuthority
    ForeignStreamIsHalted
PROPERTIES
    RevokedOnlyByPattern
    RefitIsEarned
CHECK_DEADLOCK FALSE
