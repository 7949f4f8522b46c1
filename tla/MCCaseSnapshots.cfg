SPECIFICATION ReaderSpec
CONSTANTS
    Subject = {o1}
    Reason = {"AMBIGUOUS_MATCH"}
    Certificate = {k1, k2}
    Note = {paid}
    NoNote = NoNote
    Analyst = {ann}
    Daemon = Daemon
    MaxVersion = 6
INVARIANTS
    SnapshotTornOneWay
PROPERTIES
    VerifiedIsCurrent
