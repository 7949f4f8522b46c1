SPECIFICATION WorkbenchSpec
CONSTANTS
    Subject = {o1}
    Reason = {"POLICY_HOLD"}
    HoldReason = "POLICY_HOLD"
    Certificate = {k1}
    Note = {"paid", "unpaid"}
    NoNote = NoNote
    Analyst = {human, ann}
    Human = human
    Daemon = Daemon
    Tab = {t1, t2}
    MaxVersion = 3
INVARIANTS
    ReleasedOnlyIfRecorded
    OneWinner
PROPERTY
    RecordedAnswerTakesForce
