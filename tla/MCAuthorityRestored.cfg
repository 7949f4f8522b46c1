SPECIFICATION Spec
CONSTANTS
    Window <- MCWindow
    Severity <- MCSeverity
    Calibration = {cal1, cal2}
    MaxWindows = 5
    MIN_WINDOW = 10
    MAX_DIGITS = 9
    Baseline <- MCBaseline
    Live <- MCLive
PROPERTY
    RestoredOnlyByRefit
CHECK_DEADLOCK FALSE
