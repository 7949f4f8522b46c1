SPECIFICATION Spec
CONSTANTS
    Subject = {o1}
    Reason = {"POLICY_HOLD"}
    Certificate = {k1, k2}
    Note = {paid}
    NoNote = NoNote
    Analyst = {ann, bob}
    Daemon = Daemon
    MaxVersion = 8
INVARIANTS
    ProjectionMatchesHistory
PROPERTIES
    NoLostUpdate
    NoSilentEscalation
    ImplementsHistory
