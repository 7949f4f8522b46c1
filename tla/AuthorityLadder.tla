-------------------------- MODULE AuthorityLadder --------------------------
(***************************************************************************)
(* The drift kill switch of ledger_daemon/authority.py: a controller that  *)
(* applies drift windows, one at a time, to the ladder of authority states *)
(* and writes each decision to the append-only audit table.  The window's  *)
(* severity comes from drift.py; a window is identified by its content     *)
(* hash, so applying one window twice is a legal step.                     *)
(***************************************************************************)
EXTENDS Integers, Sequences, FiniteSets

CONSTANTS
    Window,       \* the drift windows a feed may produce, by content hash
    Severity,     \* Window -> the severity drift.py gives it
    Calibration,  \* calibration ids
    MaxWindows    \* bound on the windows applied, for model checking

SEVERITIES == {"UNDERSIZED", "HEALTHY", "WARNING", "SEVERE"}

ASSUME LadderConstants ==
    /\ Severity \in [Window -> SEVERITIES]
    /\ Calibration # {}
    /\ MaxWindows \in Nat

VARIABLES
    state,                \* the rung of the ladder in force
    calibration_id,       \* the calibration the authority is anchored to
    consecutive_severe,
    consecutive_healthy,
    history,              \* the decisions, oldest first
    audit                 \* event ids in the audit table

vars == <<state, calibration_id, consecutive_severe, consecutive_healthy,
          history, audit>>

HEALTHY_WINDOWS_FOR_RECOVERY == 2
SEVERE_WINDOWS_TO_DEGRADE == 2
SEVERE_WINDOWS_TO_HALT == 3

AuthorityState == {"CALIBRATED", "WARNING", "DEGRADED", "AUTOMATION_HALTED",
                   "RECALIBRATED"}

REVOKED_STATES == {"DEGRADED", "AUTOMATION_HALTED"}

LadderRule == {"A0_WINDOW_REFUSED", "A1_WATCH", "A1_WARN", "A2_DEGRADE", "A3_HALT",
               "A4_RECOVERY_PENDING", "A4_RECOVERY_NEEDS_NEW_CALIBRATION", "A5_CLEAR",
               "A6_RECALIBRATED"}

Decision == [window : Window, previous : AuthorityState, state : AuthorityState,
             rule : LadderRule, calibration : Calibration]

EventId(d) == <<"authority", d.calibration, d.window, d.previous, d.state, d.rule>>

Init ==
    /\ state = "CALIBRATED"
    /\ calibration_id \in Calibration
    /\ consecutive_severe = 0
    /\ consecutive_healthy = 0
    /\ history = <<>>
    /\ audit = {}

TypeOK ==
    /\ state \in AuthorityState
    /\ calibration_id \in Calibration
    /\ consecutive_severe \in Nat
    /\ consecutive_healthy \in Nat
    /\ history \in Seq(Decision)
    /\ audit = {EventId(history[i]) : i \in 1..Len(history)}

-----------------------------------------------------------------------------
\* _record, and audit_authority on the decision it returns: the insert fails on
\* an event id the table has, and the row stays the one first written.
Record(w, rule) ==
    LET d == [window |-> w, previous |-> state, state |-> state', rule |-> rule,
              calibration |-> calibration_id']
    IN  /\ history' = Append(history, d)
        /\ audit' = audit \cup {EventId(d)}

\* Too few rows to score: nothing moves, no counter either.
Refuse(w) ==
    /\ Severity[w] = "UNDERSIZED"
    /\ UNCHANGED <<state, calibration_id, consecutive_severe, consecutive_healthy>>
    /\ Record(w, "A0_WINDOW_REFUSED")

\* Fault variant: a merely-warning window clears the severe count.
WatchClears(w) ==
    /\ Severity[w] = "WARNING"
    /\ consecutive_severe' = 0
    /\ UNCHANGED <<state, calibration_id, consecutive_healthy>>
    /\ Record(w, "A1_WATCH")

\* Neither evidence of a shift nor of health: the severe count stands.
Watch(w) ==
    /\ Severity[w] = "WARNING"
    /\ UNCHANGED <<state, calibration_id, consecutive_severe, consecutive_healthy>>
    /\ Record(w, "A1_WATCH")

\* Fault variant: authority is revoked one window too early.
RungEager(severe) ==
    IF severe + 1 >= SEVERE_WINDOWS_TO_HALT THEN "AUTOMATION_HALTED"
    ELSE IF severe + 1 >= SEVERE_WINDOWS_TO_DEGRADE THEN "DEGRADED"
    ELSE "WARNING"

\* The rung so many consecutive severe windows lead to, whatever was in force.
Rung(severe) ==
    IF severe >= SEVERE_WINDOWS_TO_HALT THEN "AUTOMATION_HALTED"
    ELSE IF severe >= SEVERE_WINDOWS_TO_DEGRADE THEN "DEGRADED"
    ELSE "WARNING"

RungRule(severe) ==
    IF severe >= SEVERE_WINDOWS_TO_HALT THEN "A3_HALT"
    ELSE IF severe >= SEVERE_WINDOWS_TO_DEGRADE THEN "A2_DEGRADE"
    ELSE "A1_WARN"

Escalate(w) ==
    /\ Severity[w] = "SEVERE"
    /\ consecutive_severe' = consecutive_severe + 1
    /\ consecutive_healthy' = 0
    /\ state' = Rung(consecutive_severe')
    /\ UNCHANGED calibration_id
    /\ Record(w, RungRule(consecutive_severe'))

CountHealthy ==
    /\ consecutive_healthy' = consecutive_healthy + 1
    /\ consecutive_severe' = 0

\* A healthy window while authority is granted: a warning is cleared.
Clear(w) ==
    /\ Severity[w] = "HEALTHY"
    /\ state \notin REVOKED_STATES
    /\ CountHealthy
    /\ state' = IF state = "WARNING" THEN "CALIBRATED" ELSE state
    /\ UNCHANGED calibration_id
    /\ Record(w, "A5_CLEAR")

EnoughHealth == consecutive_healthy + 1 >= HEALTHY_WINDOWS_FOR_RECOVERY

\* A healthy window while authority is revoked, not enough of them yet or no
\* refit to go with them.
StayRevoked(w, calibration) ==
    /\ Severity[w] = "HEALTHY"
    /\ state \in REVOKED_STATES
    /\ ~EnoughHealth \/ calibration = calibration_id
    /\ CountHealthy
    /\ UNCHANGED <<state, calibration_id>>
    /\ Record(w, IF EnoughHealth THEN "A4_RECOVERY_NEEDS_NEW_CALIBRATION"
                 ELSE "A4_RECOVERY_PENDING")

\* Fault variant: a refit alone restores authority.
RecalibrateAtOnce(w, calibration) ==
    /\ Severity[w] = "HEALTHY"
    /\ state \in REVOKED_STATES
    /\ calibration # calibration_id
    /\ state' = "RECALIBRATED"
    /\ calibration_id' = calibration
    /\ consecutive_severe' = 0
    /\ consecutive_healthy' = 0
    /\ Record(w, "A6_RECALIBRATED")

Recalibrate(w, calibration) ==
    /\ Severity[w] = "HEALTHY"
    /\ state \in REVOKED_STATES
    /\ EnoughHealth
    /\ calibration # calibration_id
    /\ state' = "RECALIBRATED"
    /\ calibration_id' = calibration
    /\ consecutive_severe' = 0
    /\ consecutive_healthy' = 0
    /\ Record(w, "A6_RECALIBRATED")

\* apply: a drift report and the calibration id the caller runs with now.
Apply(w, calibration) ==
    /\ Len(history) < MaxWindows
    /\ \/ Refuse(w)
       \/ Watch(w)
       \/ Escalate(w)
       \/ Clear(w)
       \/ StayRevoked(w, calibration)
       \/ Recalibrate(w, calibration)

Next == \E w \in Window, calibration \in Calibration : Apply(w, calibration)

Spec == Init /\ [][Next]_vars

-----------------------------------------------------------------------------
SeverityAt(i) == Severity[history[i].window]

\* The severe windows with no healthy one since.
SevereSinceHealth ==
    {i \in 1..Len(history) :
        /\ SeverityAt(i) = "SEVERE"
        /\ \A j \in i..Len(history) : SeverityAt(j) # "HEALTHY"}

\* The healthy windows with neither a severe one nor a recovery since.
HealthySinceSevere ==
    {i \in 1..Len(history) :
        /\ SeverityAt(i) = "HEALTHY"
        /\ \A j \in i..Len(history) :
            SeverityAt(j) # "SEVERE" /\ history[j].rule # "A6_RECALIBRATED"}

(***************************************************************************)
(* The two counters are what the record of windows says they are: refused  *)
(* and merely-warning windows change neither, health ends a severe run, a  *)
(* severe window ends a healthy one, and a recovery starts over.           *)
(***************************************************************************)
CountersMatchHistory ==
    /\ consecutive_severe = Cardinality(SevereSinceHealth)
    /\ consecutive_healthy = Cardinality(HealthySinceSevere)

(***************************************************************************)
(* "Only health heals": however many warning or refused windows are mixed  *)
(* in, a run of severe windows puts the ladder on the rung of its length;  *)
(* a feed alternating severe and warning cannot stay off AUTOMATION_HALTED.*)
(***************************************************************************)
LadderFollowsSevereRun ==
    LET n == Cardinality(SevereSinceHealth) IN
    /\ n = 2 => state = "DEGRADED"
    /\ n >= 3 => state = "AUTOMATION_HALTED"

(***************************************************************************)
(* "One bad window is not a pattern": authority is only ever taken away on *)
(* a second severe window with no healthy one in between.                  *)
(***************************************************************************)
RevokedOnlyByPattern ==
    [][(state \notin REVOKED_STATES /\ state' \in REVOKED_STATES) =>
        /\ SeverityAt(Len(history))' = "SEVERE"
        /\ Cardinality(SevereSinceHealth') >= 2]_vars

(***************************************************************************)
(* The anchor moves only when revoked authority is given back on a healthy *)
(* window that follows another since the last severe one; a refit without  *)
(* health is ignored.                                                      *)
(***************************************************************************)
RefitIsEarned ==
    [][calibration_id' # calibration_id =>
        /\ state \in REVOKED_STATES /\ state' = "RECALIBRATED"
        /\ SeverityAt(Len(history))' = "HEALTHY"
        /\ HealthySinceSevere # {}]_vars

-----------------------------------------------------------------------------
(***************************************************************************)
(* "Healthy windows alone cannot restore revoked authority": whenever      *)
(* authority comes back there is a new calibration id.  The code breaks    *)
(* this: a healthy window resets the severe count while authority is still *)
(* revoked, and the next severe window then moves DEGRADED to WARNING.     *)
(***************************************************************************)
RestoredOnlyByRefit ==
    [][(state \in REVOKED_STATES /\ state' \notin REVOKED_STATES) =>
        calibration_id' # calibration_id]_vars

=============================================================================
