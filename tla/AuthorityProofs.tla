-------------------------- MODULE AuthorityProofs --------------------------
(***************************************************************************)
(* Drift authority from both ends: the ladder that revokes it              *)
(* (AuthorityLadder), for every set of windows and calibrations and every  *)
(* number of them, and the gate that obeys it (PolicyGate), for every      *)
(* amount, count and confidence.  The counters the controller keeps are    *)
(* shown to count windows of its record; what the ladder does with them is *)
(* then a statement about the windows themselves.                          *)
(***************************************************************************)
EXTENDS DriftLadder, PolicyGate, CollectionTheorems

(* The ladder.                                                              *)

IInv == TypeOK /\ CountersMatchHistory /\ LadderFollowsSevereRun

\* One more decision `d` has been recorded.
Recorded(d) ==
    /\ d \in Decision
    /\ history' = Append(history, d)

-----------------------------------------------------------------------------
\* _record appends one decision, about the window applied.
LEMMA RecordAppends ==
    ASSUME TypeOK, NEW w \in Window, NEW rule \in LadderRule, Record(w, rule),
           state' \in AuthorityState, calibration_id' \in Calibration
    PROVE  \E d \in Decision :
               /\ d.window = w /\ d.rule = rule
               /\ Recorded(d)
               /\ audit' = audit \cup {EventId(d)}
  <1> DEFINE d == [window |-> w, previous |-> state, state |-> state',
                   rule |-> rule, calibration |-> calibration_id']
  <1>1. d \in Decision
    BY DEF TypeOK, Decision
  <1>2. d.window = w /\ d.rule = rule
    OBVIOUS
  <1>3. history' = Append(history, d) /\ audit' = audit \cup {EventId(d)}
    BY DEF Record
  <1> HIDE DEF d
  <1> QED BY <1>1, <1>2, <1>3 DEF Recorded

\* The record grows by one position and keeps the ones it had.
LEMMA RecordedPositions ==
    ASSUME TypeOK, NEW d, Recorded(d)
    PROVE  /\ Len(history) \in Nat
           /\ history' \in Seq(Decision)
           /\ Len(history') = Len(history) + 1
           /\ \A i \in 1..Len(history) : history'[i] = history[i]
           /\ history'[Len(history) + 1] = d
  BY AppendProperties, LenProperties DEF TypeOK, Recorded

\* The audit holds exactly the event ids of the record.
LEMMA RecordedAudit ==
    ASSUME TypeOK, NEW d, Recorded(d), audit' = audit \cup {EventId(d)}
    PROVE  audit' = {EventId(history'[i]) : i \in 1..Len(history')}
  <1>1. 1..Len(history') = 1..Len(history) \cup {Len(history) + 1}
    BY RecordedPositions
  <1>2. {EventId(history'[i]) : i \in 1..Len(history')} =
            {EventId(history'[i]) : i \in 1..Len(history)}
            \cup {EventId(history'[Len(history) + 1])}
    BY <1>1
  <1>3. {EventId(history'[i]) : i \in 1..Len(history)} =
            {EventId(history[i]) : i \in 1..Len(history)}
    BY RecordedPositions
  <1> QED BY <1>2, <1>3, RecordedPositions DEF TypeOK

\* The severe run is a finite set of positions of the record.
LEMMA SevereRunFinite ==
    ASSUME TypeOK
    PROVE  /\ IsFiniteSet(SevereSinceHealth)
           /\ IsFiniteSet(HealthySinceSevere)
           /\ Len(history) + 1 \notin SevereSinceHealth
           /\ Len(history) + 1 \notin HealthySinceSevere
  <1>1. Len(history) \in Nat
    BY LenProperties DEF TypeOK
  <1>2. IsFiniteSet(1..Len(history))
    BY <1>1, FS_Interval
  <1>3. /\ SevereSinceHealth \subseteq 1..Len(history)
        /\ HealthySinceSevere \subseteq 1..Len(history)
    BY DEF SevereSinceHealth, HealthySinceSevere
  <1>4. IsFiniteSet(SevereSinceHealth) /\ IsFiniteSet(HealthySinceSevere)
    BY <1>2, <1>3, FS_Subset
  <1>5. Len(history) + 1 \notin 1..Len(history)
    BY <1>1
  <1> QED BY <1>3, <1>4, <1>5

\* What one more window does to the severe run.
LEMMA SevereRunStep ==
    ASSUME TypeOK, NEW d, Recorded(d)
    PROVE  SevereSinceHealth' =
               CASE Severity[d.window] = "HEALTHY" -> {}
                 [] Severity[d.window] = "SEVERE"  -> SevereSinceHealth \cup {Len(history) + 1}
                 [] OTHER                          -> SevereSinceHealth
  <1> DEFINE n == Len(history)
  <1>1. /\ n \in Nat /\ Len(history') = n + 1
        /\ \A i \in 1..n : history'[i] = history[i]
        /\ history'[n + 1] = d
    BY RecordedPositions
  <1>2. ASSUME NEW i \in 1..(n + 1)
        PROVE  i \in SevereSinceHealth' <=>
                   /\ Severity[d.window] # "HEALTHY"
                   /\ i \in SevereSinceHealth \/ (i = n + 1 /\ Severity[d.window] = "SEVERE")
    <2>1. CASE i = n + 1
      BY <1>1, <2>1 DEF SevereSinceHealth, SeverityAt
    <2>2. CASE i \in 1..n
      <3>1. i..(n + 1) = i..n \cup {n + 1}
        BY <1>1, <2>2
      <3>2. \A j \in i..n : j \in 1..n
        BY <1>1, <2>2
      <3> QED BY <1>1, <2>2, <3>1, <3>2 DEF SevereSinceHealth, SeverityAt
    <2> QED BY <1>1, <2>1, <2>2
  <1>3. SevereSinceHealth' \subseteq 1..(n + 1) /\ SevereSinceHealth \subseteq 1..n
    BY <1>1 DEF SevereSinceHealth
  <1>4. n + 1 \in 1..(n + 1) /\ 1..n \subseteq 1..(n + 1)
    BY <1>1
  <1>5. CASE Severity[d.window] = "HEALTHY"
    BY <1>2, <1>3, <1>5
  <1>6. CASE Severity[d.window] = "SEVERE"
    BY <1>2, <1>3, <1>4, <1>6
  <1>7. CASE Severity[d.window] \notin {"HEALTHY", "SEVERE"}
    BY <1>2, <1>3, <1>4, <1>7
  <1> QED BY <1>5, <1>6, <1>7

\* What one more window does to the healthy run.
LEMMA HealthyRunStep ==
    ASSUME TypeOK, NEW d, Recorded(d)
    PROVE  HealthySinceSevere' =
               CASE Severity[d.window] = "SEVERE" \/ d.rule = "A6_RECALIBRATED" -> {}
                 [] Severity[d.window] = "HEALTHY" /\ d.rule # "A6_RECALIBRATED"
                       -> HealthySinceSevere \cup {Len(history) + 1}
                 [] OTHER -> HealthySinceSevere
  <1> DEFINE n == Len(history)
  <1>1. /\ n \in Nat /\ Len(history') = n + 1
        /\ \A i \in 1..n : history'[i] = history[i]
        /\ history'[n + 1] = d
    BY RecordedPositions
  <1>2. ASSUME NEW i \in 1..(n + 1)
        PROVE  i \in HealthySinceSevere' <=>
                   /\ Severity[d.window] # "SEVERE" /\ d.rule # "A6_RECALIBRATED"
                   /\ i \in HealthySinceSevere \/ (i = n + 1 /\ Severity[d.window] = "HEALTHY")
    <2>1. CASE i = n + 1
      BY <1>1, <2>1 DEF HealthySinceSevere, SeverityAt
    <2>2. CASE i \in 1..n
      <3>1. i..(n + 1) = i..n \cup {n + 1}
        BY <1>1, <2>2
      <3>2. \A j \in i..n : j \in 1..n
        BY <1>1, <2>2
      <3> QED BY <1>1, <2>2, <3>1, <3>2 DEF HealthySinceSevere, SeverityAt
    <2> QED BY <1>1, <2>1, <2>2
  <1>3. HealthySinceSevere' \subseteq 1..(n + 1) /\ HealthySinceSevere \subseteq 1..n
    BY <1>1 DEF HealthySinceSevere
  <1>4. n + 1 \in 1..(n + 1) /\ 1..n \subseteq 1..(n + 1)
    BY <1>1
  <1>5. CASE Severity[d.window] = "SEVERE" \/ d.rule = "A6_RECALIBRATED"
    BY <1>2, <1>3, <1>5
  <1>6. CASE Severity[d.window] = "HEALTHY" /\ d.rule # "A6_RECALIBRATED"
    BY <1>2, <1>3, <1>4, <1>6
  <1>7. CASE Severity[d.window] \notin {"HEALTHY", "SEVERE"} /\ d.rule # "A6_RECALIBRATED"
    BY <1>2, <1>3, <1>4, <1>7
  <1> QED BY <1>5, <1>6, <1>7

\* So does each run's size.
LEMMA RunSizesStep ==
    ASSUME TypeOK, NEW d, Recorded(d)
    PROVE  /\ Severity[d.window] = "HEALTHY" => Cardinality(SevereSinceHealth') = 0
           /\ Severity[d.window] = "SEVERE" =>
                  /\ Cardinality(SevereSinceHealth') = Cardinality(SevereSinceHealth) + 1
                  /\ Cardinality(HealthySinceSevere') = 0
           /\ Severity[d.window] \in {"WARNING", "UNDERSIZED"} =>
                  /\ Cardinality(SevereSinceHealth') = Cardinality(SevereSinceHealth)
                  /\ d.rule # "A6_RECALIBRATED" =>
                        Cardinality(HealthySinceSevere') = Cardinality(HealthySinceSevere)
           /\ d.rule = "A6_RECALIBRATED" => Cardinality(HealthySinceSevere') = 0
           /\ (Severity[d.window] = "HEALTHY" /\ d.rule # "A6_RECALIBRATED") =>
                  Cardinality(HealthySinceSevere') = Cardinality(HealthySinceSevere) + 1
  <1>1. Cardinality({}) = 0
    BY FS_EmptySet
  <1>2. /\ Cardinality(SevereSinceHealth \cup {Len(history) + 1}) = Cardinality(SevereSinceHealth) + 1
        /\ Cardinality(HealthySinceSevere \cup {Len(history) + 1}) = Cardinality(HealthySinceSevere) + 1
    BY SevereRunFinite, FS_AddElement
  <1> DEFINE S == SevereSinceHealth'
             H == HealthySinceSevere'
  <1>3. /\ Severity[d.window] = "HEALTHY" => S = {}
        /\ Severity[d.window] = "SEVERE" => S = SevereSinceHealth \cup {Len(history) + 1}
        /\ Severity[d.window] \notin {"HEALTHY", "SEVERE"} => S = SevereSinceHealth
    BY SevereRunStep
  <1>4. /\ Severity[d.window] = "SEVERE" \/ d.rule = "A6_RECALIBRATED" => H = {}
        /\ (Severity[d.window] = "HEALTHY" /\ d.rule # "A6_RECALIBRATED") =>
              H = HealthySinceSevere \cup {Len(history) + 1}
        /\ (Severity[d.window] \notin {"HEALTHY", "SEVERE"} /\ d.rule # "A6_RECALIBRATED") =>
              H = HealthySinceSevere
    BY HealthyRunStep
  <1> HIDE DEF S, H
  <1>5. /\ Severity[d.window] = "HEALTHY" => Cardinality(S) = 0
        /\ Severity[d.window] = "SEVERE" =>
              Cardinality(S) = Cardinality(SevereSinceHealth) + 1 /\ Cardinality(H) = 0
        /\ Severity[d.window] \in {"WARNING", "UNDERSIZED"} =>
              /\ Cardinality(S) = Cardinality(SevereSinceHealth)
              /\ d.rule # "A6_RECALIBRATED" => Cardinality(H) = Cardinality(HealthySinceSevere)
        /\ d.rule = "A6_RECALIBRATED" => Cardinality(H) = 0
        /\ (Severity[d.window] = "HEALTHY" /\ d.rule # "A6_RECALIBRATED") =>
              Cardinality(H) = Cardinality(HealthySinceSevere) + 1
    BY <1>1, <1>2, <1>3, <1>4
  <1> QED BY <1>5 DEF S, H

-----------------------------------------------------------------------------
LEMMA InitEstablishesIInv == Init => IInv
  <1> SUFFICES ASSUME Init PROVE IInv
    OBVIOUS
  <1>1. Len(history) = 0 /\ 1..Len(history) = {} /\ history \in Seq(Decision)
    BY EmptySeq DEF Init
  <1>2. SevereSinceHealth = {} /\ HealthySinceSevere = {}
    BY <1>1 DEF SevereSinceHealth, HealthySinceSevere
  <1>3. Cardinality({}) = 0
    BY FS_EmptySet
  <1>4. TypeOK
    BY <1>1 DEF Init, TypeOK, AuthorityState
  <1>5. CountersMatchHistory
    BY <1>2, <1>3 DEF Init, CountersMatchHistory
  <1>6. LadderFollowsSevereRun
    BY <1>2, <1>3 DEF LadderFollowsSevereRun
  <1> QED BY <1>4, <1>5, <1>6 DEF IInv

\* An applied window leaves every variable but the record typed, and the record
\* ends with a decision about it.
LEMMA ApplyRecords ==
    ASSUME TypeOK, NEW w \in Window, NEW calibration \in Calibration,
           Apply(w, calibration)
    PROVE  \E d \in Decision :
               /\ d.window = w
               /\ d.rule = "A6_RECALIBRATED" <=> Recalibrate(w, calibration)
               /\ Recorded(d)
               /\ TypeOK'
  <1>1. ASSUME NEW rule \in LadderRule, Record(w, rule), state' \in AuthorityState,
               calibration_id' \in Calibration,
               consecutive_severe' \in Nat, consecutive_healthy' \in Nat,
               rule = "A6_RECALIBRATED" <=> Recalibrate(w, calibration)
        PROVE  \E d \in Decision :
                   /\ d.window = w
                   /\ d.rule = "A6_RECALIBRATED" <=> Recalibrate(w, calibration)
                   /\ Recorded(d)
                   /\ TypeOK'
    <2>1. PICK d \in Decision : /\ d.window = w /\ d.rule = rule
                                /\ Recorded(d)
                                /\ audit' = audit \cup {EventId(d)}
      BY <1>1, RecordAppends
    <2>2. history' \in Seq(Decision)
      BY <2>1, RecordedPositions
    <2>3. audit' = {EventId(history'[i]) : i \in 1..Len(history')}
      BY <2>1, RecordedAudit
    <2>4. TypeOK'
      BY <1>1, <2>2, <2>3 DEF TypeOK, EventId
    <2> QED BY <1>1, <2>1, <2>4
  <1>2. \E rule \in LadderRule :
            /\ Record(w, rule)
            /\ state' \in AuthorityState /\ calibration_id' \in Calibration
            /\ consecutive_severe' \in Nat /\ consecutive_healthy' \in Nat
            /\ rule = "A6_RECALIBRATED" <=> Recalibrate(w, calibration)
    <2>1. CASE Refuse(w)
      BY <2>1 DEF Refuse, TypeOK, Recalibrate, LadderRule
    <2>2. CASE Watch(w)
      BY <2>2 DEF Watch, TypeOK, Recalibrate, LadderRule
    <2>3. CASE Escalate(w)
      BY <2>3 DEF Escalate, TypeOK, Recalibrate, LadderRule, Rung, RungRule, AuthorityState
    <2>4. CASE Clear(w)
      BY <2>4 DEF Clear, TypeOK, Recalibrate, LadderRule, CountHealthy, AuthorityState
    <2>5. CASE StayRevoked(w, calibration)
      BY <2>5 DEF StayRevoked, TypeOK, Recalibrate, LadderRule, CountHealthy
    <2>6. CASE Recalibrate(w, calibration)
      BY <2>6 DEF Recalibrate, TypeOK, LadderRule, AuthorityState
    <2> QED BY <2>1, <2>2, <2>3, <2>4, <2>5, <2>6 DEF Apply
  <1> QED BY <1>1, <1>2

\* Where a severe run of length n leads.
LEMMA RungOfRun ==
    ASSUME NEW n \in Nat
    PROVE  /\ n = 2 => Rung(n) = "DEGRADED"
           /\ n >= 3 => Rung(n) = "AUTOMATION_HALTED"
           /\ n < 2 => Rung(n) = "WARNING"
  BY DEF Rung, SEVERE_WINDOWS_TO_HALT, SEVERE_WINDOWS_TO_DEGRADE

LEMMA ApplyKeepsIInv ==
    ASSUME IInv, NEW w \in Window, NEW calibration \in Calibration,
           Apply(w, calibration)
    PROVE  IInv'
  <1>1. PICK d \in Decision : /\ d.window = w
                              /\ d.rule = "A6_RECALIBRATED" <=> Recalibrate(w, calibration)
                              /\ Recorded(d)
                              /\ TypeOK'
    BY ApplyRecords DEF IInv
  <1> DEFINE S == Cardinality(SevereSinceHealth)
             H == Cardinality(HealthySinceSevere)
  <1>2. /\ Severity[w] = "HEALTHY" => S' = 0
        /\ Severity[w] = "SEVERE" => S' = S + 1 /\ H' = 0
        /\ Severity[w] \in {"WARNING", "UNDERSIZED"} =>
              S' = S /\ (d.rule # "A6_RECALIBRATED" => H' = H)
        /\ d.rule = "A6_RECALIBRATED" => H' = 0
        /\ (Severity[w] = "HEALTHY" /\ d.rule # "A6_RECALIBRATED") => H' = H + 1
    BY <1>1, RunSizesStep DEF IInv
  <1>3. /\ consecutive_severe = S /\ consecutive_healthy = H
        /\ S \in Nat /\ H \in Nat
        /\ S = 2 => state = "DEGRADED"
        /\ S >= 3 => state = "AUTOMATION_HALTED"
    BY DEF IInv, TypeOK, CountersMatchHistory, LadderFollowsSevereRun
  <1> HIDE DEF S, H
  <1>4. /\ consecutive_severe' = S' /\ consecutive_healthy' = H'
        /\ S' = 2 => state' = "DEGRADED"
        /\ S' >= 3 => state' = "AUTOMATION_HALTED"
    <2>1. CASE Refuse(w)
      BY <1>1, <1>2, <1>3, <2>1 DEF Refuse, Recalibrate
    <2>2. CASE Watch(w)
      BY <1>1, <1>2, <1>3, <2>2 DEF Watch, Recalibrate
    <2>3. CASE Escalate(w)
      <3>1. consecutive_severe' = S + 1 /\ consecutive_healthy' = 0 /\ state' = Rung(S + 1)
        BY <1>3, <2>3 DEF Escalate
      <3>2. S' = S + 1 /\ H' = 0
        BY <1>2, <2>3 DEF Escalate
      <3> QED BY <1>3, <3>1, <3>2, RungOfRun
    <2>4. CASE Clear(w)
      BY <1>1, <1>2, <1>3, <2>4 DEF Clear, CountHealthy, Recalibrate
    <2>5. CASE StayRevoked(w, calibration)
      BY <1>1, <1>2, <1>3, <2>5 DEF StayRevoked, CountHealthy, Recalibrate
    <2>6. CASE Recalibrate(w, calibration)
      BY <1>1, <1>2, <1>3, <2>6 DEF Recalibrate
    <2> QED BY <2>1, <2>2, <2>3, <2>4, <2>5, <2>6 DEF Apply
  <1> QED BY <1>1, <1>4 DEF IInv, CountersMatchHistory, LadderFollowsSevereRun, S, H

LEMMA NextKeepsIInv == IInv /\ [Next]_vars => IInv'
  <1> SUFFICES ASSUME IInv, [Next]_vars PROVE IInv'
    OBVIOUS
  <1>1. CASE Next
    BY <1>1, ApplyKeepsIInv DEF Next
  <1>2. CASE UNCHANGED vars
    BY <1>2 DEF vars, IInv, TypeOK, CountersMatchHistory, LadderFollowsSevereRun,
                SevereSinceHealth, HealthySinceSevere, SeverityAt, EventId
  <1> QED BY <1>1, <1>2

(***************************************************************************)
(* For every feed: the counters count what the record shows, and a run of  *)
(* severe windows without a healthy one leads to DEGRADED and then to      *)
(* AUTOMATION_HALTED whatever warnings and refusals it is mixed with       *)
(* (AuthorityController.apply).                                            *)
(***************************************************************************)
THEOREM LadderIsSound ==
    Spec => [](TypeOK /\ CountersMatchHistory /\ LadderFollowsSevereRun)
  <1>1. Spec => []IInv
    BY InitEstablishesIInv, NextKeepsIInv, PTL DEF Spec
  <1>2. IInv => TypeOK /\ CountersMatchHistory /\ LadderFollowsSevereRun
    BY DEF IInv
  <1> QED BY <1>1, <1>2, PTL

-----------------------------------------------------------------------------
LEMMA RevokingStep ==
    ASSUME IInv, IInv', [Next]_vars,
           state \notin REVOKED_STATES, state' \in REVOKED_STATES
    PROVE  /\ SeverityAt(Len(history))' = "SEVERE"
           /\ Cardinality(SevereSinceHealth') >= 2
  <1>1. PICK w \in Window, calibration \in Calibration : Apply(w, calibration)
    BY DEF Next, vars
  <1>2. Escalate(w)
    BY <1>1 DEF Apply, Refuse, Watch, Clear, StayRevoked, Recalibrate, REVOKED_STATES
  <1>3. consecutive_severe' >= 2
    BY <1>2, RungOfRun DEF Escalate, REVOKED_STATES, IInv, TypeOK
  <1>4. PICK d \in Decision : d.window = w /\ Recorded(d)
    BY <1>1, ApplyRecords DEF IInv
  <1>5. history'[Len(history')] = d
    BY <1>4, RecordedPositions DEF IInv
  <1> QED BY <1>2, <1>3, <1>4, <1>5 DEF Escalate, IInv, CountersMatchHistory, SeverityAt

(***************************************************************************)
(* For every feed: authority is only taken away by a second severe window  *)
(* with no healthy one between.                                            *)
(***************************************************************************)
THEOREM RevocationIsAPattern == Spec => RevokedOnlyByPattern
  <1>1. Spec => []IInv
    BY InitEstablishesIInv, NextKeepsIInv, PTL DEF Spec
  <1>2. IInv /\ IInv' /\ [Next]_vars =>
            [(state \notin REVOKED_STATES /\ state' \in REVOKED_STATES) =>
                /\ SeverityAt(Len(history))' = "SEVERE"
                /\ Cardinality(SevereSinceHealth') >= 2]_vars
    BY RevokingStep
  <1> QED BY <1>1, <1>2, PTL DEF Spec, RevokedOnlyByPattern

LEMMA RefittingStep ==
    ASSUME IInv, [Next]_vars, calibration_id' # calibration_id
    PROVE  /\ state \in REVOKED_STATES /\ state' = "RECALIBRATED"
           /\ SeverityAt(Len(history))' = "HEALTHY"
           /\ HealthySinceSevere # {}
  <1>1. PICK w \in Window, calibration \in Calibration : Apply(w, calibration)
    BY DEF Next, vars
  <1>2. Recalibrate(w, calibration)
    BY <1>1 DEF Apply, Refuse, Watch, Escalate, Clear, StayRevoked
  <1>3. Cardinality(HealthySinceSevere) # 0
    BY <1>2 DEF Recalibrate, EnoughHealth, HEALTHY_WINDOWS_FOR_RECOVERY, IInv,
                TypeOK, CountersMatchHistory
  <1>4. HealthySinceSevere # {}
    BY <1>3, FS_EmptySet
  <1>5. PICK d \in Decision : d.window = w /\ Recorded(d)
    BY <1>1, ApplyRecords DEF IInv
  <1>6. history'[Len(history')] = d
    BY <1>5, RecordedPositions DEF IInv
  <1> QED BY <1>2, <1>4, <1>5, <1>6 DEF Recalibrate, SeverityAt

(***************************************************************************)
(* For every feed: the calibration in force changes only as revoked        *)
(* authority comes back, on a healthy window that is not the first since   *)
(* the last severe one.                                                    *)
(***************************************************************************)
THEOREM RecalibrationIsEarned == Spec => RefitIsEarned
  <1>1. Spec => []IInv
    BY InitEstablishesIInv, NextKeepsIInv, PTL DEF Spec
  <1>2. IInv /\ [Next]_vars =>
            [calibration_id' # calibration_id =>
                /\ state \in REVOKED_STATES /\ state' = "RECALIBRATED"
                /\ SeverityAt(Len(history))' = "HEALTHY"
                /\ HealthySinceSevere # {}]_vars
    BY RefittingStep
  <1> QED BY <1>1, <1>2, PTL DEF Spec, RefitIsEarned


-----------------------------------------------------------------------------
(* The monitor.                                                             *)

HasRank(values, k, v) ==
    /\ Cardinality({i \in DOMAIN values : values[i] < v}) < k
    /\ k =< Cardinality({i \in DOMAIN values : values[i] =< v})

\* Of the i-th smallest of a list there is exactly one.
LEMMA RankExists ==
    ASSUME NEW values, IsSequence(values), \A i \in 1..Len(values) : values[i] \in Int,
           NEW k \in 1..Len(values)
    PROVE  /\ Ranked(values, k) \in ToSet(values)
           /\ HasRank(values, k, Ranked(values, k))
           /\ \A v \in ToSet(values) : HasRank(values, k, v) => v = Ranked(values, k)
<1> DEFINE n == Len(values)
           under(v) == {i \in DOMAIN values : values[i] < v}
           upto(v) == {i \in DOMAIN values : values[i] =< v}
<1>1. /\ n \in Nat /\ DOMAIN values = 1..n /\ k \in Nat /\ k =< n /\ 1 =< k
      /\ \A v \in ToSet(values) : v \in Int /\ \E i \in 1..n : values[i] = v
      /\ \A i \in 1..n : values[i] \in ToSet(values)
  BY SequenceHas
<1>2. IsFiniteSet(1..n) /\ Cardinality(1..n) = n
  <2>1. 1 \in Int /\ n \in Int /\ ~(1 > n) /\ n - 1 + 1 = n
    BY <1>1
  <2> HIDE DEF n
  <2> QED
    BY <2>1, FS_Interval
<1>3. ASSUME NEW v \in Int
      PROVE  /\ under(v) \in SUBSET (1..n) /\ upto(v) \in SUBSET (1..n)
             /\ under(v) \in SUBSET upto(v)
             /\ IsFiniteSet(under(v)) /\ IsFiniteSet(upto(v))
             /\ Cardinality(under(v)) \in Nat /\ Cardinality(upto(v)) \in Nat
  <2>1. /\ under(v) \in SUBSET (1..n) /\ upto(v) \in SUBSET (1..n)
        /\ under(v) \in SUBSET upto(v)
    BY <1>1
  <2> HIDE DEF under, upto, n
  <2> QED
    BY <1>2, <2>1, FS_Subset, FS_CardinalityType
<1>4. ToSet(values) \in SUBSET Int /\ IsFiniteSet(ToSet(values)) /\ ToSet(values) # {}
  <2>1. ToSet(values) = {values[i] : i \in 1..n}
    BY <1>1 DEF ToSet
  <2>2. IsFiniteSet(ToSet(values))
    <3>1. values \in Surjection(1..n, ToSet(values))
      <4>1. values \in [1..n -> ToSet(values)]
        BY <1>1 DEF IsSequence
      <4> QED
        BY <1>1, <4>1 DEF Surjection
    <3> HIDE DEF n
    <3> QED
      BY <1>2, <3>1, FS_Surjection
  <2> QED
    BY <1>1, <2>1, <2>2
<1> DEFINE C == {Cardinality(upto(v)) : v \in {u \in ToSet(values) : k =< Cardinality(upto(u))}}
<1>5. C \in SUBSET Nat /\ C # {}
  <2>1. PICK top \in ToSet(values) : \A v \in ToSet(values) : v =< top
    BY <1>4, GreatestInteger
  <2>2. upto(top) = 1..n
    BY <1>1, <2>1
  <2>3. k =< Cardinality(upto(top))
    BY <1>1, <1>2, <2>2
  <2> HIDE DEF upto
  <2> QED
    BY <1>1, <1>3, <2>3
<1>6. PICK v \in ToSet(values) :
          /\ k =< Cardinality(upto(v))
          /\ \A u \in ToSet(values) : k =< Cardinality(upto(u)) =>
                Cardinality(upto(v)) =< Cardinality(upto(u))
  <2>1. Min(C) \in C /\ \A c \in C : Min(C) =< c
    <3> HIDE DEF C
    <3> QED
      BY <1>5, LeastNatural
  <2> HIDE DEF upto
  <2> QED
    BY <2>1
<1>7. Cardinality(under(v)) < k
  <2>0. v \in Int
    BY <1>1
  <2> SUFFICES ASSUME k =< Cardinality(under(v)) PROVE FALSE
    <3> HIDE DEF under, upto, n
    <3> QED
      BY <1>1, <1>3, <2>0
  <2> DEFINE U == {u \in ToSet(values) : u < v}
  <2>1. U \in SUBSET Int /\ IsFiniteSet(U) /\ U \in SUBSET ToSet(values)
    BY <1>4, FS_Subset
  <2>2. U # {}
    <3>1. under(v) # {}
      <4>1. IsFiniteSet(under(v)) /\ Cardinality(under(v)) \in Nat
        BY <1>3, <2>0
      <4> HIDE DEF under, n
      <4>2. Cardinality(under(v)) # 0
        BY <1>1, <4>1
      <4> QED
        BY <4>1, <4>2, FS_EmptySet
    <3> QED
      BY <1>1, <3>1
  <2>3. PICK u \in U : \A w \in U : w =< u
    <3> HIDE DEF U
    <3> QED
      BY <2>1, <2>2, GreatestInteger
  <2>4. upto(u) = under(v)
    <3>1. \A i \in 1..n : values[i] < v => values[i] \in U
      BY <1>1
    <3>2. u < v /\ u \in Int /\ v \in Int
      BY <1>1
    <3>3. \A i \in 1..n : values[i] =< u <=> values[i] < v
      <4> HIDE DEF U
      <4> QED
        BY <1>1, <2>3, <3>1, <3>2
    <3> QED
      BY <1>1, <3>3
  <2>5. Cardinality(upto(v)) =< Cardinality(under(v))
    BY <1>6, <2>1, <2>4
  <2>6. PICK i \in 1..n : values[i] = v
    BY <1>1
  <2>7. i \in upto(v) /\ i \notin under(v) /\ v \in Int
    BY <1>1, <2>6
  <2> HIDE DEF under, upto, U
  <2>8. /\ Cardinality(under(v)) =< Cardinality(upto(v))
        /\ Cardinality(upto(v)) = Cardinality(under(v)) => upto(v) = under(v)
        /\ Cardinality(under(v)) \in Nat /\ Cardinality(upto(v)) \in Nat
    BY <1>3, <2>0, FS_Subset
  <2>9. under(v) = upto(v)
    BY <2>5, <2>8
  <2> QED
    BY <2>7, <2>9
<1>8. HasRank(values, k, v)
  BY <1>6, <1>7 DEF HasRank
<1>9. Ranked(values, k) \in ToSet(values) /\ HasRank(values, k, Ranked(values, k))
  BY <1>8 DEF Ranked, HasRank
<1>10. ASSUME NEW a \in ToSet(values), NEW b \in ToSet(values), a < b,
              HasRank(values, k, a), HasRank(values, k, b)
       PROVE  FALSE
  <2>1. a \in Int /\ b \in Int
    BY <1>1
  <2>2. upto(a) \in SUBSET under(b)
    BY <1>1, <1>10, <2>1
  <2>3. k =< Cardinality(upto(a)) /\ Cardinality(under(b)) < k
    BY <1>10 DEF HasRank
  <2> HIDE DEF under, upto
  <2>4. /\ Cardinality(upto(a)) =< Cardinality(under(b))
        /\ Cardinality(upto(a)) \in Nat /\ Cardinality(under(b)) \in Nat
    BY <1>3, <2>1, <2>2, FS_Subset
  <2> QED
    BY <1>1, <2>3, <2>4
<1>11. ASSUME NEW a \in ToSet(values), NEW b \in ToSet(values),
              HasRank(values, k, a), HasRank(values, k, b)
       PROVE  a = b
  <2>1. a \in Int /\ b \in Int
    BY <1>1
  <2>2. ~(a < b) /\ ~(b < a)
    BY <1>10, <1>11
  <2> QED
    BY <2>1, <2>2
<1> QED
  BY <1>9, <1>11

\* Two windows that have every row as often, in proportion.
Alike(live, ref) ==
    \A row \in ToSet(ref) \cup ToSet(live) :
        CountOf(row, live) * Len(ref) = CountOf(row, ref) * Len(live)

SumAt(s, h, A) == SumOf([i \in DOMAIN s |-> h[s[i]]], Where(s, A))

\* One more row.
LEMMA SumAtStep ==
    ASSUME NEW s, IsSequence(s), NEW A, NEW h, \A x \in A : h[x] \in Int, NEW x \in A
    PROVE  /\ SumAt(s, h, A) \in Int /\ SumAt(s, h, A \ {x}) \in Int /\ CountOf(x, s) \in Nat
           /\ SumAt(s, h, A) = SumAt(s, h, A \ {x}) + h[x] * CountOf(x, s)
<1> DEFINE f == [i \in DOMAIN s |-> h[s[i]]]
           P == Where(s, A \ {x})
           Q == Where(s, {x})
<1>1. P \cap Q = {} /\ P \cup Q = Where(s, A) /\ Q = {i \in DOMAIN s : s[i] = x}
  BY DEF Where
<1>2. IsFiniteSet(P) /\ IsFiniteSet(Q) /\ Cardinality(Q) \in Nat /\ CountOf(x, s) = Cardinality(Q)
  BY <1>1, CountedPositions DEF CountOf
<1>3. (\A i \in P \cup Q : f[i] \in Int) /\ \A i \in Q : f[i] = h[x]
  BY DEF Where
<1> HIDE DEF P, Q, f
<1>4. SumOf(f, P \cup Q) = SumOf(f, P) + SumOf(f, Q)
  BY <1>1, <1>2, <1>3, SumSplit
<1>5. SumOf(f, Q) = h[x] * Cardinality(Q) /\ SumOf(f, P) \in Int
  BY <1>2, <1>3, SumConstant, SumIntSteps
<1>6. SumAt(s, h, A) = SumOf(f, P \cup Q) /\ SumAt(s, h, A \ {x}) = SumOf(f, P)
  BY <1>1 DEF SumAt, f, P
<1>7. h[x] \in Int
  OBVIOUS
<1> QED
  BY <1>2, <1>4, <1>5, <1>6, <1>7

LEMMA Distributes ==
    ASSUME NEW n \in Int, NEW sum \in Int, NEW c \in Int, NEW k \in Int
    PROVE  n * (sum + c * k) = n * sum + c * (k * n)
<1>1. n * (sum + c * k) = n * sum + n * (c * k)
  OBVIOUS
<1>2. n * (c * k) = c * (k * n)
  OBVIOUS
<1> QED
  BY <1>1, <1>2

LEMMA SumsAlike ==
    ASSUME NEW live, IsSequence(live), NEW ref, IsSequence(ref), Alike(live, ref),
           NEW A \in SUBSET (ToSet(ref) \cup ToSet(live)), NEW h, \A x \in A : h[x] \in Int
    PROVE  /\ SumAt(live, h, A) \in Int /\ SumAt(ref, h, A) \in Int
           /\ Len(ref) * SumAt(live, h, A) = Len(live) * SumAt(ref, h, A)
<1> DEFINE Good(B) == /\ SumAt(live, h, B) \in Int /\ SumAt(ref, h, B) \in Int
                      /\ Len(ref) * SumAt(live, h, B) = Len(live) * SumAt(ref, h, B)
           F == {B \in SUBSET A : ~Good(B)}
<1>1. Len(live) \in Nat /\ Len(ref) \in Nat
  BY SequenceHas
<1>2. \A B \in SUBSET A : IsFiniteSet(B) /\ Cardinality(B) \in Nat
  <2>1. IsFiniteSet(A)
    BY FiniteElements, FS_Union, FS_Subset
  <2> QED
    BY <2>1, FS_Subset, FS_CardinalityType
<1>3. SUFFICES ASSUME F # {} PROVE FALSE
  OBVIOUS
<1>4. PICK B \in F : \A D \in F : Cardinality(B) =< Cardinality(D)
  <2>1. \A D \in F : IsFiniteSet(D)
    BY <1>2
  <2> HIDE DEF F
  <2> QED
    BY <1>3, <2>1, SmallestSet
<1>5. B \in SUBSET A /\ ~Good(B)
  OBVIOUS
<1>6. B # {}
  <2>1. SumAt(live, h, {}) = 0 /\ SumAt(ref, h, {}) = 0
    <3>1. Where(live, {}) = {} /\ Where(ref, {}) = {}
      BY DEF Where
    <3> QED
      BY <3>1, SumOfNone DEF SumAt
  <2>2. Good({})
    BY <1>1, <2>1
  <2> QED
    BY <1>5, <2>2
<1>7. PICK x \in B : TRUE
  BY <1>6
<1> DEFINE D == B \ {x}
<1>8. D \in SUBSET A /\ Cardinality(D) < Cardinality(B)
  <2>1. D \in SUBSET A
    BY <1>5
  <2> HIDE DEF F
  <2> QED
    BY <1>2, <1>5, <1>7, <2>1, FS_RemoveElement
<1>9. Good(D)
  <2>1. Cardinality(B) \in Nat /\ Cardinality(D) \in Nat
    BY <1>2, <1>5, <1>8
  <2>2. D \notin F
    <3> HIDE DEF F, D
    <3> QED
      BY <1>4, <1>8, <2>1
  <2> QED
    BY <1>8, <2>2
<1> DEFINE l == CountOf(x, live)
           r == CountOf(x, ref)
<1>10. /\ h[x] \in Int /\ l \in Nat /\ r \in Nat
       /\ SumAt(live, h, B) \in Int /\ SumAt(ref, h, B) \in Int
       /\ SumAt(live, h, B) = SumAt(live, h, D) + h[x] * l
       /\ SumAt(ref, h, B) = SumAt(ref, h, D) + h[x] * r
  <2>1. \A y \in B : h[y] \in Int
    BY <1>5
  <2> HIDE DEF F
  <2> QED
    BY <1>5, <1>7, <2>1, SumAtStep
<1>11. l * Len(ref) = r * Len(live)
  BY <1>5, <1>7 DEF Alike
<1>12. /\ SumAt(live, h, D) \in Int /\ SumAt(ref, h, D) \in Int
       /\ Len(ref) * SumAt(live, h, D) = Len(live) * SumAt(ref, h, D)
  BY <1>9
<1>13. ~(Len(ref) * SumAt(live, h, B) = Len(live) * SumAt(ref, h, B))
  BY <1>5, <1>10
<1> HIDE DEF Good, F, D, l, r
<1> DEFINE M == Len(live)
           N == Len(ref)
           p == SumAt(live, h, D)
           q == SumAt(ref, h, D)
           c == h[x]
<1>14. /\ M \in Int /\ N \in Int /\ p \in Int /\ q \in Int /\ c \in Int /\ l \in Int /\ r \in Int
       /\ l * N = r * M /\ N * p = M * q
  BY <1>1, <1>10, <1>11, <1>12
<1>15. SumAt(live, h, B) = p + c * l /\ SumAt(ref, h, B) = q + c * r
  BY <1>10
<1> HIDE DEF M, N, p, q, c
<1>16. N * (p + c * l) = N * p + c * (l * N) /\ M * (q + c * r) = M * q + c * (r * M)
  BY <1>14, Distributes
<1>17. ~(N * (p + c * l) = M * (q + c * r))
  BY <1>13, <1>15 DEF M, N
<1> QED
  BY <1>14, <1>16, <1>17

LEMMA CountsAlike ==
    ASSUME NEW live, IsSequence(live), NEW ref, IsSequence(ref), Alike(live, ref),
           NEW A \in SUBSET (ToSet(ref) \cup ToSet(live))
    PROVE  Len(ref) * Cardinality(Where(live, A)) = Len(live) * Cardinality(Where(ref, A))
<1> DEFINE h == [x \in A |-> 1]
<1>1. \A x \in A : h[x] \in Int
  OBVIOUS
<1>2. ASSUME NEW s, IsSequence(s) PROVE SumAt(s, h, A) = Cardinality(Where(s, A))
  <2> DEFINE f == [i \in DOMAIN s |-> h[s[i]]]
  <2>1. \A i \in Where(s, A) : f[i] = 1
    BY DEF Where
  <2>2. IsFiniteSet(Where(s, A)) /\ Cardinality(Where(s, A)) \in Nat
    BY <1>2, CountedPositions
  <2>3. SumAt(s, h, A) = SumOf(f, Where(s, A))
    BY DEF SumAt
  <2> HIDE DEF f, h
  <2>4. SumOf(f, Where(s, A)) = 1 * Cardinality(Where(s, A))
    BY <2>1, <2>2, SumConstant
  <2> QED
    BY <2>2, <2>3, <2>4
<1> HIDE DEF h
<1> QED
  BY <1>1, <1>2, SumsAlike

LEMMA SameRows ==
    ASSUME NEW live, IsSequence(live), NEW ref, IsSequence(ref), Alike(live, ref),
           Len(live) > 0
    PROVE  ToSet(ref) \subseteq ToSet(live)
<1> SUFFICES ASSUME NEW x \in ToSet(ref) PROVE x \in ToSet(live)
  OBVIOUS
<1>1. Len(live) \in Nat /\ Len(ref) \in Nat
  BY SequenceHas
<1>2. x \in ToSet(ref) \cup ToSet(live)
  OBVIOUS
<1>3. CountOf(x, live) * Len(ref) = CountOf(x, ref) * Len(live)
  BY <1>2 DEF Alike
<1>4. /\ CountOf(x, ref) \in Nat /\ CountOf(x, live) \in Nat
      /\ CountOf(x, ref) = 0 <=> Where(ref, {x}) = {}
      /\ CountOf(x, live) = 0 <=> Where(live, {x}) = {}
  <2>1. /\ CountOf(x, ref) = Cardinality(Where(ref, {x}))
        /\ CountOf(x, live) = Cardinality(Where(live, {x}))
    BY DEF CountOf, Where
  <2> QED
    BY <2>1, CountedPositions, FS_EmptySet
<1>5. CountOf(x, ref) # 0
  BY <1>4, SequenceHas DEF Where
<1>6. CountOf(x, ref) * Len(live) # 0
  BY <1>1, <1>4, <1>5
<1>7. CountOf(x, live) # 0
  BY <1>1, <1>3, <1>6
<1> QED
  BY <1>4, <1>7 DEF Where, ToSet

\* The rows that observations() returns.
Row == [score : Int, bucket : 0..MAX_DIGITS, lag : Int, fee : Int, reference : Int]

Names == {"score", "bucket", "lag", "fee", "reference"}

IsWindow(rows) == IsSequence(rows) /\ ToSet(rows) \subseteq Row

LEMMA FieldOf ==
    ASSUME NEW rows, IsWindow(rows), NEW name \in Names
    PROVE  /\ IsSequence(Field(rows, name)) /\ Len(Field(rows, name)) = Len(rows)
           /\ DOMAIN Field(rows, name) = DOMAIN rows /\ DOMAIN rows = 1..Len(rows)
           /\ Len(rows) \in Nat
           /\ \A i \in 1..Len(rows) : /\ Field(rows, name)[i] = rows[i][name]
                                     /\ rows[i] \in ToSet(rows) /\ rows[i] \in Row
                                     /\ Field(rows, name)[i] \in Int
<1>1. /\ Len(rows) \in Nat /\ DOMAIN rows = 1..Len(rows)
      /\ \A i \in 1..Len(rows) : rows[i] \in ToSet(rows) /\ rows[i] \in Row
  BY SequenceHas DEF IsWindow
<1>2. \A row \in Row : row[name] \in Int
  <2> SUFFICES ASSUME NEW row \in Row PROVE row[name] \in Int
    OBVIOUS
  <2>1. row.bucket \in Int
    BY MonitorConstants DEF Row
  <2> QED
    BY <2>1 DEF Row, Names
<1>3. /\ DOMAIN Field(rows, name) = 1..Len(rows)
      /\ Field(rows, name) = [i \in 1..Len(rows) |-> Field(rows, name)[i]]
      /\ \A i \in 1..Len(rows) : Field(rows, name)[i] = rows[i][name]
  BY <1>1 DEF Field
<1>4. IsSequence(Field(rows, name)) /\ Len(Field(rows, name)) = Len(rows)
  BY <1>1, <1>3, SequenceUpTo
<1> QED
  BY <1>1, <1>2, <1>3, <1>4

\* The rows whose value is under a limit, or up to it.
Under(live, ref, name, v) == {row \in ToSet(ref) \cup ToSet(live) : row[name] < v}

UpTo(live, ref, name, v) == {row \in ToSet(ref) \cup ToSet(live) : row[name] =< v}

LEMMA FieldCounts ==
    ASSUME NEW live, IsWindow(live), NEW ref, IsWindow(ref), NEW name \in Names, NEW v,
           NEW rows \in {live, ref}
    PROVE  /\ {i \in DOMAIN Field(rows, name) : Field(rows, name)[i] < v}
                  = Where(rows, Under(live, ref, name, v))
           /\ {i \in DOMAIN Field(rows, name) : Field(rows, name)[i] =< v}
                  = Where(rows, UpTo(live, ref, name, v))
           /\ Cardinality(Where(rows, Under(live, ref, name, v))) \in Nat
           /\ Cardinality(Where(rows, UpTo(live, ref, name, v))) \in Nat
<1>1. IsWindow(rows)
  OBVIOUS
<1>2. /\ DOMAIN Field(rows, name) = DOMAIN rows
      /\ \A i \in DOMAIN rows : Field(rows, name)[i] = rows[i][name] /\ rows[i] \in ToSet(rows)
  BY <1>1, FieldOf
<1>3. \A i \in DOMAIN rows : rows[i] \in ToSet(ref) \cup ToSet(live)
  BY <1>2
<1>4. IsSequence(rows)
  BY <1>1 DEF IsWindow
<1> QED
  BY <1>2, <1>3, <1>4, CountedPositions DEF Where, Under, UpTo

\* Half of the window is where half of the other is.
LEMMA HalfOf ==
    ASSUME NEW m \in Nat \ {0}, NEW n \in Nat \ {0}, NEW a \in Nat, NEW b \in Nat,
           n * a = m * b
    PROVE  /\ b < ((n - 1) \div 2) + 1 => a < ((m - 1) \div 2) + 1
           /\ ((n - 1) \div 2) + 1 =< b => ((m - 1) \div 2) + 1 =< a
<1>1. n * (2 * a) = m * (2 * b)
  OBVIOUS
<1>2. b < ((n - 1) \div 2) + 1 => 2 * b < n
  OBVIOUS
<1>3. ((n - 1) \div 2) + 1 =< b => n =< 2 * b
  OBVIOUS
<1>4. 2 * b < n => 2 * a < m
  <2> SUFFICES ASSUME 2 * b < n PROVE 2 * a < m
    OBVIOUS
  <2>1. m * (2 * b) < m * n
    BY Scales
  <2>2. n * (2 * a) < n * m
    BY <1>1, <2>1
  <2> QED
    BY <2>2, Scales
<1>5. n =< 2 * b => m =< 2 * a
  <2> SUFFICES ASSUME n =< 2 * b PROVE m =< 2 * a
    OBVIOUS
  <2>1. m * n =< m * (2 * b)
    BY Scales
  <2>2. n * m =< n * (2 * a)
    BY <1>1, <2>1
  <2> QED
    BY <2>2, Scales
<1>6. 2 * a < m => a < ((m - 1) \div 2) + 1
  OBVIOUS
<1>7. m =< 2 * a => ((m - 1) \div 2) + 1 =< a
  OBVIOUS
<1> QED
  BY <1>2, <1>3, <1>4, <1>5, <1>6, <1>7

LEMMA MediansAlike ==
    ASSUME NEW live, IsWindow(live), NEW ref, IsWindow(ref), Alike(live, ref),
           Len(live) > 0, Len(ref) > 0, NEW name \in Names
    PROVE  Moved(ref, live, name) = 0
<1> DEFINE L == Field(live, name)
           R == Field(ref, name)
           m == Len(live)
           n == Len(ref)
           j == ((m - 1) \div 2) + 1
           k == ((n - 1) \div 2) + 1
           v == Ranked(R, k)
<1>1. /\ m \in Nat \ {0} /\ n \in Nat \ {0} /\ j \in 1..m /\ k \in 1..n
      /\ IsSequence(L) /\ Len(L) = m /\ IsSequence(R) /\ Len(R) = n
      /\ DOMAIN L = DOMAIN live /\ DOMAIN R = DOMAIN ref
      /\ \A i \in 1..m : L[i] \in Int /\ L[i] = live[i][name]
      /\ \A i \in 1..n : R[i] \in Int /\ R[i] = ref[i][name]
  <2>1. m \in Nat \ {0} /\ n \in Nat \ {0}
    BY FieldOf
  <2>2. j \in 1..m /\ k \in 1..n
    BY <2>1
  <2> QED
    BY <2>1, <2>2, FieldOf
<1> DEFINE a == Cardinality({i \in DOMAIN L : L[i] < v})
           b == Cardinality({i \in DOMAIN R : R[i] < v})
           c == Cardinality({i \in DOMAIN L : L[i] =< v})
           d == Cardinality({i \in DOMAIN R : R[i] =< v})
<1>2. /\ v \in ToSet(R) /\ HasRank(R, k, v)
  <2> HIDE DEF L, R, k, v
  <2> QED
    BY <1>1, RankExists DEF v
<1>3. /\ a \in Nat /\ b \in Nat /\ c \in Nat /\ d \in Nat
      /\ n * a = m * b /\ n * c = m * d
  <2> DEFINE U == Under(live, ref, name, v)
             V == UpTo(live, ref, name, v)
  <2>1. /\ a = Cardinality(Where(live, U)) /\ b = Cardinality(Where(ref, U))
        /\ c = Cardinality(Where(live, V)) /\ d = Cardinality(Where(ref, V))
        /\ a \in Nat /\ b \in Nat /\ c \in Nat /\ d \in Nat
    <3> HIDE DEF v
    <3>1. live \in {live, ref} /\ ref \in {live, ref}
      OBVIOUS
    <3>2. /\ {i \in DOMAIN L : L[i] < v} = Where(live, U)
          /\ {i \in DOMAIN L : L[i] =< v} = Where(live, V)
          /\ Cardinality(Where(live, U)) \in Nat /\ Cardinality(Where(live, V)) \in Nat
      <4> HIDE DEF v
      <4> QED
        BY <3>1, FieldCounts
    <3>3. /\ {i \in DOMAIN R : R[i] < v} = Where(ref, U)
          /\ {i \in DOMAIN R : R[i] =< v} = Where(ref, V)
          /\ Cardinality(Where(ref, U)) \in Nat /\ Cardinality(Where(ref, V)) \in Nat
      <4> HIDE DEF v
      <4> QED
        BY <3>1, FieldCounts
    <3> HIDE DEF L, R, U, V
    <3> QED
      BY <3>2, <3>3
  <2>2. U \in SUBSET (ToSet(ref) \cup ToSet(live)) /\ V \in SUBSET (ToSet(ref) \cup ToSet(live))
    BY DEF Under, UpTo
  <2>3. IsSequence(live) /\ IsSequence(ref)
    BY DEF IsWindow
  <2> HIDE DEF U, V, a, b, c, d
  <2> QED
    BY <2>1, <2>2, <2>3, CountsAlike
<1>4. b < k /\ k =< d
  BY <1>2 DEF HasRank
<1>5. a < j /\ j =< c
  <2> HIDE DEF a, b, c, d, m, n
  <2> QED
    BY <1>1, <1>3, <1>4, HalfOf
<1>6. v \in ToSet(L)
  <2>1. PICK i \in 1..n : R[i] = v
    BY <1>1, <1>2, SequenceHas
  <2>2. ref[i] \in ToSet(ref) /\ ref[i][name] = v
    BY <1>1, <2>1, FieldOf
  <2>3. ref[i] \in ToSet(live)
    BY <2>2, SameRows DEF IsWindow
  <2>4. PICK l \in 1..m : live[l] = ref[i]
    BY <2>3, SequenceHas DEF IsWindow
  <2>5. L[l] = v
    BY <1>1, <2>2, <2>4
  <2> HIDE DEF L, v, m
  <2> QED
    BY <1>1, <2>4, <2>5, SequenceHas
<1>7. HasRank(L, j, v)
  BY <1>5 DEF HasRank
<1>8. Ranked(L, j) = v
  <2> HIDE DEF L, j, v, m
  <2> QED
    BY <1>1, <1>6, <1>7, RankExists
<1>9. Median(L) = v /\ Median(R) = v /\ v \in Int
  <2>1. L # <<>> /\ R # <<>>
    <3>1. Len(<<>>) = 0
      OBVIOUS
    <3> HIDE DEF L, R
    <3> QED
      BY <1>1, <3>1
  <2>2. v \in Int
    <3> HIDE DEF R, v, n
    <3> QED
      BY <1>1, <1>2, SequenceHas
  <2> HIDE DEF L, R
  <2> QED
    BY <1>1, <1>8, <2>1, <2>2 DEF Median
<1>10. Moved(ref, live, name) = Abs(v - v)
  BY <1>9 DEF Moved
<1>11. v - v = 0
  BY <1>9
<1> QED
  BY <1>10, <1>11 DEF Abs

LEMMA TailAlike ==
    ASSUME NEW live, IsWindow(live), NEW ref, IsWindow(ref), Alike(live, ref),
           Len(live) > 0, Len(ref) > 0
    PROVE  TailBp(ref, live) \in Int /\ TailBp(ref, live) =< NOMINAL_TAIL_BP
<1> DEFINE R == Field(ref, "score")
           m == Len(live)
           n == Len(ref)
           k == (((n - 1) * 10) \div 100) + 1
           v == Ranked(R, k)
           U == Under(live, ref, "score", v)
           a == Cardinality(Where(live, U))
           b == Cardinality(Where(ref, U))
<1>1. /\ m \in Nat \ {0} /\ n \in Nat \ {0} /\ k \in 1..n
      /\ IsSequence(R) /\ Len(R) = n /\ \A i \in 1..n : R[i] \in Int
  <2>1. m \in Nat \ {0} /\ n \in Nat \ {0}
    BY FieldOf DEF Names
  <2>2. k \in 1..n
    BY <2>1
  <2> QED
    BY <2>1, <2>2, FieldOf DEF Names
<1>2. HasRank(R, k, v)
  <2> HIDE DEF R, k, n
  <2> QED
    BY <1>1, RankExists
<1>3. /\ {i \in DOMAIN R : R[i] < v} = Where(ref, U)
      /\ {i \in DOMAIN Field(live, "score") : Field(live, "score")[i] < v} = Where(live, U)
      /\ a \in Nat /\ b \in Nat
  <2>1. live \in {live, ref} /\ ref \in {live, ref} /\ "score" \in Names
    BY DEF Names
  <2> HIDE DEF v
  <2> QED
    BY <2>1, FieldCounts
<1>4. n * a = m * b
  <2>1. U \in SUBSET (ToSet(ref) \cup ToSet(live)) /\ IsSequence(live) /\ IsSequence(ref)
    BY DEF Under, IsWindow
  <2> HIDE DEF U
  <2> QED
    BY <2>1, CountsAlike
<1>5. b < k
  <2> HIDE DEF R, k, v, U
  <2> QED
    BY <1>2, <1>3 DEF HasRank, b
<1>6. TailBp(ref, live) = (a * BP) \div m
  <2>1. {i \in DOMAIN live : live[i].score < v} = Where(live, U)
    <3>1. /\ DOMAIN Field(live, "score") = DOMAIN live
          /\ \A i \in DOMAIN live : Field(live, "score")[i] = live[i].score
      BY DEF Field
    <3> HIDE DEF U, v
    <3> QED
      BY <1>3, <3>1
  <2>2. R # <<>>
    <3>1. Len(<<>>) = 0
      OBVIOUS
    <3> HIDE DEF R
    <3> QED
      BY <1>1, <3>1
  <2>3. Percentile(R, 10) = v
    <3> HIDE DEF R
    <3> QED
      BY <1>1, <2>2 DEF Percentile
  <2> HIDE DEF v, U
  <2> QED
    BY <2>1, <2>3 DEF TailBp
<1> HIDE DEF R, v, U, a, b, m
<1>7. 10 * b =< n
  <2> HIDE DEF n
  <2> QED
    BY <1>1, <1>3, <1>5
<1> HIDE DEF n, k
<1>8. 10 * a =< m
  <2>1. m * (10 * b) =< m * n
    BY <1>1, <1>3, <1>7, Scales
  <2>2. n * (10 * a) = m * (10 * b)
    BY <1>1, <1>3, <1>4
  <2>3. n * (10 * a) =< n * m
    BY <1>1, <2>1, <2>2
  <2> QED
    BY <1>1, <1>3, <2>3, Scales
<1>9. /\ (a * BP) \div m \in Int /\ m * ((a * BP) \div m) =< a * BP
  BY <1>1, <1>3, Quotient DEF BP
<1>10. m * ((a * BP) \div m) =< m * 1000
  BY <1>1, <1>3, <1>8, <1>9 DEF BP
<1>11. (a * BP) \div m =< 1000
  BY <1>1, <1>9, <1>10, Scales
<1> QED
  BY <1>6, <1>9, <1>11 DEF NOMINAL_TAIL_BP

LEMMA MeansAlike ==
    ASSUME NEW live, IsWindow(live), NEW ref, IsWindow(ref), Alike(live, ref),
           Len(live) > 0, Len(ref) > 0
    PROVE  /\ MeanPpm(Field(live, "reference")) = MeanPpm(Field(ref, "reference"))
           /\ MeanPpm(Field(live, "reference")) \in Int
<1> DEFINE A == ToSet(ref) \cup ToSet(live)
           h == [x \in A |-> x["reference"]]
<1>1. ASSUME NEW rows \in {live, ref}
      PROVE  /\ SumAt(rows, h, A) = SumOf(Field(rows, "reference"), DOMAIN Field(rows, "reference"))
             /\ MeanPpm(Field(rows, "reference")) = SumAt(rows, h, A) \div Len(rows)
             /\ Len(rows) \in Nat \ {0}
  <2>0. IsWindow(rows) /\ "reference" \in Names /\ Len(rows) > 0
    BY DEF Names
  <2>1. /\ Len(Field(rows, "reference")) = Len(rows)
        /\ DOMAIN Field(rows, "reference") = DOMAIN rows
        /\ DOMAIN rows = 1..Len(rows) /\ Len(rows) \in Nat
        /\ \A i \in 1..Len(rows) : rows[i] \in ToSet(rows)
    BY <2>0, FieldOf
  <2>2. \A i \in DOMAIN rows : rows[i] \in A /\ h[rows[i]] = rows[i]["reference"]
    BY <2>1
  <2>3. Where(rows, A) = DOMAIN rows /\ [i \in DOMAIN rows |-> h[rows[i]]] = Field(rows, "reference")
    BY <2>2 DEF Where, Field
  <2>4. SumAt(rows, h, A) = SumOf(Field(rows, "reference"), DOMAIN Field(rows, "reference"))
    BY <2>1, <2>3 DEF SumAt
  <2> DEFINE F == Field(rows, "reference")
  <2>5. F # <<>>
    <3>1. Len(<<>>) = 0
      OBVIOUS
    <3> HIDE DEF F
    <3> QED
      BY <2>0, <2>1, <3>1 DEF F
  <2>6. MeanPpm(F) = SumOf(F, DOMAIN F) \div Len(F)
    <3> HIDE DEF F
    <3> QED
      BY <2>5 DEF MeanPpm, SumOf
  <2> QED
    BY <2>0, <2>1, <2>4, <2>6
<1>2. /\ SumAt(live, h, A) \in Int /\ SumAt(ref, h, A) \in Int
      /\ Len(ref) * SumAt(live, h, A) = Len(live) * SumAt(ref, h, A)
  <2>1. \A x \in A : h[x] \in Int
    BY DEF IsWindow, Row
  <2>2. A \in SUBSET (ToSet(ref) \cup ToSet(live))
    OBVIOUS
  <2> HIDE DEF A, h
  <2> QED
    BY <2>1, <2>2, SumsAlike DEF IsWindow
<1> HIDE DEF A, h
<1>3. live \in {live, ref} /\ ref \in {live, ref}
  OBVIOUS
<1>4. /\ MeanPpm(Field(live, "reference")) = SumAt(live, h, A) \div Len(live)
      /\ MeanPpm(Field(ref, "reference")) = SumAt(ref, h, A) \div Len(ref)
      /\ Len(live) \in Nat \ {0} /\ Len(ref) \in Nat \ {0}
  BY <1>1, <1>3
<1> QED
  BY <1>2, <1>4, SameQuotient, Quotient

LEMMA BucketCounts ==
    ASSUME NEW rows, IsWindow(rows), NEW b, NEW A, ToSet(rows) \subseteq A
    PROVE  /\ CountOf(b, Field(rows, "bucket")) =
                  Cardinality(Where(rows, {row \in A : row["bucket"] = b}))
           /\ CountOf(b, Field(rows, "bucket")) \in Nat
<1>1. "bucket" \in Names /\ IsSequence(rows)
  BY DEF Names, IsWindow
<1>2. /\ DOMAIN Field(rows, "bucket") = DOMAIN rows
      /\ \A i \in DOMAIN rows : /\ Field(rows, "bucket")[i] = rows[i]["bucket"]
                                /\ rows[i] \in ToSet(rows)
  BY <1>1, FieldOf
<1>3. \A i \in DOMAIN rows : rows[i] \in A
  BY <1>2
<1>4. {i \in DOMAIN Field(rows, "bucket") : Field(rows, "bucket")[i] = b}
          = Where(rows, {row \in A : row["bucket"] = b})
  BY <1>2, <1>3 DEF Where
<1> QED
  BY <1>1, <1>4, CountedPositions DEF CountOf

LEMMA SharesAlike ==
    ASSUME NEW live, IsWindow(live), NEW ref, IsWindow(ref), Alike(live, ref),
           Len(live) > 0, Len(ref) > 0, NEW b
    PROVE  /\ ShareBp(b, Field(live, "bucket")) = ShareBp(b, Field(ref, "bucket"))
           /\ ShareBp(b, Field(live, "bucket")) \in Int
<1> DEFINE A == ToSet(ref) \cup ToSet(live)
           B == {row \in A : row["bucket"] = b}
           l == CountOf(b, Field(live, "bucket"))
           r == CountOf(b, Field(ref, "bucket"))
<1>1. /\ l = Cardinality(Where(live, B)) /\ l \in Nat
      /\ r = Cardinality(Where(ref, B)) /\ r \in Nat
  <2>1. ToSet(live) \subseteq A /\ ToSet(ref) \subseteq A
    OBVIOUS
  <2> HIDE DEF A
  <2> QED
    BY <2>1, BucketCounts
<1>2. Len(ref) * l = Len(live) * r
  <2>1. B \in SUBSET (ToSet(ref) \cup ToSet(live)) /\ IsSequence(live) /\ IsSequence(ref)
    BY DEF IsWindow
  <2> HIDE DEF B
  <2> QED
    BY <1>1, <2>1, CountsAlike
<1>3. /\ Len(ref) \in Nat \ {0} /\ Len(live) \in Nat \ {0}
      /\ Len(Field(live, "bucket")) = Len(live) /\ Len(Field(ref, "bucket")) = Len(ref)
  BY FieldOf DEF Names
<1> DEFINE m == Len(live)
           n == Len(ref)
<1>4. m \in Nat \ {0} /\ n \in Nat \ {0} /\ n * l = m * r
  BY <1>2, <1>3
<1> HIDE DEF l, r, m, n
<1>5. n * (l * 10000) = m * (r * 10000)
  <2>1. n * (l * 10000) = 10000 * (n * l) /\ m * (r * 10000) = 10000 * (m * r)
    BY <1>1, <1>4
  <2> QED
    BY <1>4, <2>1
<1> DEFINE a == l * 10000
           b1 == r * 10000
<1>6. a \in Int /\ b1 \in Int /\ n * a = m * b1
  BY <1>1, <1>5
<1> HIDE DEF a, b1
<1>7. a \div m = b1 \div n /\ a \div m \in Int
  BY <1>4, <1>6, SameQuotient, Quotient
<1> QED
  BY <1>3, <1>7 DEF ShareBp, BP, l, r, m, n, a, b1

LEMMA NothingApart ==
    ASSUME NEW live, IsWindow(live), NEW ref, IsWindow(ref), Alike(live, ref),
           Len(live) > 0, Len(ref) > 0
    PROVE  TotalVariationBp(Field(ref, "bucket"), Field(live, "bucket")) = 0
<1> DEFINE L == Field(live, "bucket")
           R == Field(ref, "bucket")
           B == ToSet(R) \cup ToSet(L)
           apart == [b \in B |-> Abs(ShareBp(b, R) - ShareBp(b, L))]
<1>1. IsFiniteSet(B)
  <2>1. IsSequence(L) /\ IsSequence(R)
    BY FieldOf DEF Names
  <2> HIDE DEF L, R
  <2> QED
    BY <2>1, FiniteElements, FS_Union
<1>2. \A b \in B : apart[b] = 0
  <2> SUFFICES ASSUME NEW b \in B PROVE apart[b] = 0
    OBVIOUS
  <2>1. ShareBp(b, L) = ShareBp(b, R) /\ ShareBp(b, L) \in Int
    BY SharesAlike
  <2>2. ShareBp(b, R) - ShareBp(b, L) = 0
    BY <2>1
  <2> HIDE DEF B, L, R
  <2> QED
    BY <2>2 DEF Abs
<1>3. SumFunction(apart) = SumOf(apart, B)
  BY SumsAgree
<1> HIDE DEF B, apart
<1>4. SumOf(apart, B) = 0
  BY <1>1, <1>2, SumOfNoughts
<1>5. TotalVariationBp(R, L) = SumFunction(apart) \div 2
  BY DEF TotalVariationBp, apart, B
<1> QED
  BY <1>3, <1>4, <1>5

LEMMA MaxOfNought ==
    ASSUME NEW x \in Int, x =< 0
    PROVE  Max({0, x}) = 0
<1>1. 0 \in {0, x} /\ \A y \in {0, x} : 0 >= y
  OBVIOUS
<1>2. \A z \in {0, x} : (\A y \in {0, x} : z >= y) => z = 0
  OBVIOUS
<1> QED
  BY <1>1, <1>2 DEF Max

(***************************************************************************)
(* A window with every row as often as the calibration batch, in           *)
(* proportion, has no signal that is even a warning.                       *)
(***************************************************************************)
LEMMA AlikeIsHealthy ==
    ASSUME NEW live, IsWindow(live), NEW ref, IsWindow(ref), Alike(live, ref),
           Len(live) >= MIN_WINDOW, Len(ref) >= MIN_WINDOW
    PROVE  Observe(ref, live) = "HEALTHY"
<1>1. Len(live) \in Nat /\ Len(ref) \in Nat /\ Len(live) > 0 /\ Len(ref) > 0
  BY SequenceHas, MonitorConstants DEF IsWindow
<1> DEFINE d == Deltas(ref, live)
<1>2. d.parse_rate = 0
  <2> DEFINE x == MeanPpm(Field(live, "reference"))
             y == MeanPpm(Field(ref, "reference"))
  <2>1. x = y /\ x \in Int
    BY <1>1, MeansAlike
  <2>2. d.parse_rate = Max({0, y - x})
    BY DEF Deltas
  <2> HIDE DEF x, y, d
  <2>3. y - x = 0
    BY <2>1
  <2> QED
    BY <2>2, <2>3, MaxOfNought
<1>3. d.nonconformity = 0
  <2>1. TailBp(ref, live) \in Int /\ TailBp(ref, live) =< NOMINAL_TAIL_BP
    BY <1>1, TailAlike
  <2> DEFINE x == TailBp(ref, live) - NOMINAL_TAIL_BP
  <2>2. x \in Int /\ x =< 0
    BY <2>1 DEF NOMINAL_TAIL_BP
  <2>3. d.nonconformity = Max({0, x})
    BY DEF Deltas
  <2> HIDE DEF x, d
  <2> QED
    BY <2>2, <2>3, MaxOfNought
<1>4. d.amount_bucket = 0
  BY <1>1, NothingApart DEF Deltas
<1>5. d.date_lag = 0 /\ d.fee_rate = 0
  BY <1>1, MediansAlike DEF Deltas, Names
<1> HIDE DEF d
<1>6. \A s \in SIGNALS : Grade(s, d[s]) = "HEALTHY"
  BY <1>2, <1>3, <1>4, <1>5 DEF SIGNALS, THRESHOLDS, Grade
<1>7. Grades(ref, live) \subseteq {"HEALTHY"}
  BY <1>6 DEF Grades, d
<1>8. "SEVERE" \notin Grades(ref, live) /\ "WARNING" \notin Grades(ref, live)
  BY <1>7
<1>9. ~(Len(live) < MIN_WINDOW)
  BY <1>1, MonitorConstants
<1> QED
  BY <1>8, <1>9 DEF Observe

\* The shares of the buckets of a list, each rounded down by less than one.
LEMMA SharesAddUp ==
    ASSUME NEW values, IsSequence(values), Len(values) > 0,
           NEW h, \A b \in ToSet(values) : h[b] = ShareBp(b, values)
    PROVE  /\ \A b \in ToSet(values) : h[b] \in Nat
           /\ SumOf(h, ToSet(values)) \in Int
           /\ BP =< SumOf(h, ToSet(values)) + Cardinality(ToSet(values))
<1> DEFINE S == ToSet(values)
           n == Len(values)
           here(A) == Cardinality(Where(values, A))
           Good(A) == 10000 * here(A) =< n * (SumOf(h, A) + Cardinality(A))
           F == {A \in SUBSET S : ~Good(A)}
<1>1. n \in Nat \ {0} /\ DOMAIN values = 1..n
  BY SequenceHas
<1>2. IsFiniteSet(S)
  BY FiniteElements
<1> HIDE DEF n
<1>30. ASSUME NEW b \in S PROVE h[b] \in Nat
  <2>1. CountOf(b, values) \in Nat
    <3>1. Where(values, {b}) = {i \in DOMAIN values : values[i] = b}
      BY DEF Where
    <3> QED
      BY <3>1, CountedPositions DEF CountOf
  <2>2. h[b] = (CountOf(b, values) * 10000) \div n
    BY DEF ShareBp, BP, n
  <2> QED
    BY <1>1, <2>1, <2>2
<1>3. ASSUME NEW b \in S
      PROVE  /\ h[b] \in Nat
             /\ here({b}) \in Nat
             /\ 10000 * here({b}) =< n * h[b] + n
  <2> DEFINE c == here({b})
  <2>1. c = CountOf(b, values) /\ c \in Nat
    <3>1. Where(values, {b}) = {i \in DOMAIN values : values[i] = b}
      BY DEF Where
    <3> QED
      BY <3>1, CountedPositions DEF CountOf
  <2>2. h[b] = (c * 10000) \div n
    BY <2>1 DEF ShareBp, BP, n
  <2> HIDE DEF c
  <2> DEFINE a == c * 10000
  <2>3. a \in Nat /\ a = 10000 * c
    BY <2>1
  <2> HIDE DEF a
  <2>4. a \div n \in Int /\ n * (a \div n) =< a /\ a < n * (a \div n) + n
    <3>1. a \in Int
      BY <2>3
    <3> QED
      BY <1>1, <3>1, Quotient
  <2>5. a \div n \in Nat
    BY <1>1, <2>3
  <2>6. h[b] = a \div n
    BY <2>2 DEF a
  <2> QED
    BY <2>1, <2>3, <2>4, <2>5, <2>6, <1>1 DEF c
<1> HIDE DEF here
<1>31. /\ \A b \in S : h[b] \in Nat /\ h[b] \in Int
       /\ \A A : IsFiniteSet(Where(values, A)) /\ here(A) \in Nat
       /\ here({}) = 0
  <2>1. Where(values, {}) = {}
    BY DEF Where
  <2>2. \A b \in S : h[b] \in Nat
    BY <1>30
  <2>3. \A A : IsFiniteSet(Where(values, A)) /\ here(A) \in Nat
    BY CountedPositions DEF here
  <2> QED
    BY <2>1, <2>2, <2>3, FS_EmptySet DEF here
<1>32. ASSUME NEW A, NEW x \in A PROVE here(A) = here(A \ {x}) + here({x})
  <2>1. /\ Where(values, A) = Where(values, A \ {x}) \cup Where(values, {x})
        /\ Where(values, A \ {x}) \cap Where(values, {x}) = {}
    BY DEF Where
  <2> DEFINE P == Where(values, A \ {x})
             Q == Where(values, {x})
  <2>2. IsFiniteSet(P) /\ IsFiniteSet(Q) /\ P \cap Q = {} /\ Where(values, A) = P \cup Q
    BY <1>31, <2>1
  <2>3. Cardinality(P) \in Nat /\ Cardinality(Q) \in Nat
    BY <2>2, FS_CardinalityType
  <2> HIDE DEF P, Q
  <2>4. Cardinality(P \cup Q) = Cardinality(P) + Cardinality(Q) - Cardinality(P \cap Q)
    BY <2>2, FS_Union
  <2>5. Cardinality(P \cap Q) = 0
    BY <2>2, FS_EmptySet
  <2> QED
    BY <2>2, <2>3, <2>4, <2>5 DEF here, P, Q
<1> HIDE DEF S
<1>4. \A A \in SUBSET S : /\ IsFiniteSet(A) /\ Cardinality(A) \in Nat
                          /\ here(A) \in Nat /\ SumOf(h, A) \in Int
  <2> SUFFICES ASSUME NEW A \in SUBSET S
               PROVE  /\ IsFiniteSet(A) /\ Cardinality(A) \in Nat
                      /\ here(A) \in Nat /\ SumOf(h, A) \in Int
    OBVIOUS
  <2>1. IsFiniteSet(A) /\ Cardinality(A) \in Nat
    BY <1>2, FS_Subset, FS_CardinalityType
  <2>2. \A b \in A : h[b] \in Int
    BY <1>31
  <2> QED
    BY <1>31, <2>1, <2>2, SumIntSteps
<1>5. Good(S)
  <2> SUFFICES ASSUME F # {} PROVE FALSE
    OBVIOUS
  <2>1. PICK A \in F : \A B \in F : Cardinality(A) =< Cardinality(B)
    <3>1. \A B \in F : IsFiniteSet(B)
      BY <1>4
    <3> HIDE DEF F
    <3> QED
      BY <3>1, SmallestSet
  <2>2. A \in SUBSET S /\ ~Good(A)
    BY <2>1
  <2>3. A # {}
    <3>1. SumOf(h, {}) = 0 /\ Cardinality({}) = 0 /\ here({}) = 0
      BY <1>31, SumOfNone, FS_EmptySet
    <3> SUFFICES ASSUME A = {} PROVE FALSE
      OBVIOUS
    <3>2. Good({})
      BY <1>1, <3>1
    <3> HIDE DEF Good
    <3> QED
      BY <2>2, <3>2
  <2>4. PICK x \in A : TRUE
    BY <2>3
  <2> DEFINE D == A \ {x}
  <2>5. /\ D \in SUBSET S /\ x \in S /\ Cardinality(A) \in Nat
        /\ Cardinality(D) = Cardinality(A) - 1
    <3>1. D \in SUBSET S /\ x \in S /\ x \in A
      BY <2>2, <2>4
    <3>2. IsFiniteSet(A) /\ Cardinality(A) \in Nat
      BY <1>4, <2>2
    <3> HIDE DEF F
    <3> QED
      BY <3>1, <3>2, FS_RemoveElement
  <2>6. Good(D)
    <3>1. D \notin F
      <4> HIDE DEF F, D
      <4> QED
        BY <2>1, <2>5
    <3> QED
      BY <2>5, <3>1
  <2>7. here(A) = here(D) + here({x})
    BY <1>32, <2>4
  <2>8. SumOf(h, A) = h[x] + SumOf(h, D)
    <3>1. \A b \in A : h[b] \in Int
      BY <1>31, <2>2
    <3> HIDE DEF F
    <3> QED
      BY <1>4, <2>2, <2>4, <3>1, SumIntSteps
  <2> DEFINE p == SumOf(h, D) + Cardinality(D)
             q == SumOf(h, A) + Cardinality(A)
  <2>9. p \in Int /\ h[x] \in Int /\ q = p + (h[x] + 1)
    <3> HIDE DEF D, F
    <3>1. SumOf(h, D) \in Int /\ Cardinality(D) \in Nat /\ h[x] \in Int
      BY <1>31, <1>4, <2>5
    <3> QED
      BY <2>5, <2>8, <3>1
  <2>10. /\ 10000 * here(D) =< n * p /\ 10000 * here({x}) =< n * h[x] + n
         /\ here(D) \in Nat /\ here({x}) \in Nat
    <3> HIDE DEF D, F
    <3> QED
      BY <1>3, <1>4, <2>5, <2>6
  <2>11. ~(10000 * (here(D) + here({x})) =< n * q)
    BY <2>2, <2>7
  <2> HIDE DEF p, q, D, F, here, Good
  <2>12. n * q = n * p + (n * h[x] + n)
    <3>1. n * (p + (h[x] + 1)) = n * p + n * (h[x] + 1)
      BY <1>1, <2>9
    <3>2. n * (h[x] + 1) = n * h[x] + n
      BY <1>1, <2>9
    <3> QED
      BY <2>9, <3>1, <3>2
  <2>13. n * p \in Int /\ n * h[x] \in Int /\ n \in Int
    BY <1>1, <2>9
  <2> QED
    BY <2>10, <2>11, <2>12, <2>13
<1>6. here(S) = n
  <2>1. Where(values, S) = 1..n
    BY <1>1 DEF Where, ToSet, S
  <2>2. Cardinality(1..n) = n
    BY <1>1, FS_Interval
  <2> QED
    BY <2>1, <2>2 DEF here
<1>7. SumOf(h, S) \in Int /\ Cardinality(S) \in Nat
  BY <1>4
<1> DEFINE t == SumOf(h, S) + Cardinality(S)
<1>8. t \in Int /\ n * 10000 =< n * t
  BY <1>1, <1>5, <1>6, <1>7
<1> HIDE DEF t
<1>9. 10000 =< t
  BY <1>1, <1>8, Scales
<1> QED
  BY <1>31, <1>7, <1>9 DEF t, BP, S

\* The shares of two lists with nothing in common.
LEMMA ForeignIsApart ==
    ASSUME NEW live, IsWindow(live), NEW ref, IsWindow(ref), Len(live) > 0, Len(ref) > 0,
           ToSet(Field(live, "bucket")) \cap ToSet(Field(ref, "bucket")) = {}
    PROVE  /\ TotalVariationBp(Field(ref, "bucket"), Field(live, "bucket")) \in Int
           /\ TotalVariationBp(Field(ref, "bucket"), Field(live, "bucket")) >= 4000
<1> DEFINE L == Field(live, "bucket")
           R == Field(ref, "bucket")
           B == ToSet(R) \cup ToSet(L)
           apart == [b \in B |-> Abs(ShareBp(b, R) - ShareBp(b, L))]
<1>1. /\ IsSequence(L) /\ IsSequence(R) /\ Len(L) > 0 /\ Len(R) > 0
      /\ Len(L) \in Nat /\ Len(R) \in Nat
  BY FieldOf DEF Names
<1>2. /\ IsFiniteSet(ToSet(L)) /\ Cardinality(ToSet(L)) \in Nat /\ Cardinality(ToSet(L)) =< 1001
      /\ IsFiniteSet(ToSet(R)) /\ Cardinality(ToSet(R)) \in Nat /\ Cardinality(ToSet(R)) =< 1001
  <2>1. ToSet(L) \subseteq 0..MAX_DIGITS /\ ToSet(R) \subseteq 0..MAX_DIGITS
    <3>1. \A row \in Row : row["bucket"] \in 0..MAX_DIGITS
      BY DEF Row
    <3>2. ASSUME NEW rows, IsWindow(rows) PROVE ToSet(Field(rows, "bucket")) \subseteq 0..MAX_DIGITS
      <4>1. /\ DOMAIN Field(rows, "bucket") = 1..Len(rows)
            /\ \A i \in 1..Len(rows) : /\ Field(rows, "bucket")[i] = rows[i]["bucket"]
                                      /\ rows[i] \in Row
        BY <3>2, FieldOf DEF Names
      <4> QED
        BY <3>1, <4>1 DEF ToSet
    <3> QED
      BY <3>2
  <2>2. /\ IsFiniteSet(0..MAX_DIGITS) /\ Cardinality(0..MAX_DIGITS) \in Nat
        /\ Cardinality(0..MAX_DIGITS) =< 1001
    <3>1. 0 \in Int /\ MAX_DIGITS \in Int /\ ~(0 > MAX_DIGITS) /\ MAX_DIGITS - 0 + 1 \in 1..1001
      BY MonitorConstants
    <3>2. IsFiniteSet(0..MAX_DIGITS) /\ Cardinality(0..MAX_DIGITS) = MAX_DIGITS - 0 + 1
      BY <3>1, FS_Interval
    <3> QED
      BY <3>1, <3>2
  <2> HIDE DEF L, R
  <2>3. \A S \in SUBSET (0..MAX_DIGITS) :
            IsFiniteSet(S) /\ Cardinality(S) \in Nat /\ Cardinality(S) =< Cardinality(0..MAX_DIGITS)
    BY <2>2, FS_Subset, FS_CardinalityType
  <2>4. \A S \in SUBSET (0..MAX_DIGITS) :
            IsFiniteSet(S) /\ Cardinality(S) \in Nat /\ Cardinality(S) =< 1001
    BY <2>2, <2>3
  <2> QED
    BY <2>1, <2>4
<1>3. \A b : b \notin ToSet(L) => ShareBp(b, L) = 0
  <2> HIDE DEF L
  <2> SUFFICES ASSUME NEW b, b \notin ToSet(L) PROVE ShareBp(b, L) = 0
    OBVIOUS
  <2>1. {i \in DOMAIN L : L[i] = b} = {}
    BY DEF ToSet
  <2>2. CountOf(b, L) = 0
    BY <2>1, FS_EmptySet DEF CountOf
  <2> QED
    BY <1>1, <2>2 DEF ShareBp, BP
<1>4. \A b : b \notin ToSet(R) => ShareBp(b, R) = 0
  <2> HIDE DEF R
  <2> SUFFICES ASSUME NEW b, b \notin ToSet(R) PROVE ShareBp(b, R) = 0
    OBVIOUS
  <2>1. {i \in DOMAIN R : R[i] = b} = {}
    BY DEF ToSet
  <2>2. CountOf(b, R) = 0
    BY <2>1, FS_EmptySet DEF CountOf
  <2> QED
    BY <1>1, <2>2 DEF ShareBp, BP
<1>5. \A b \in B : apart[b] = Abs(ShareBp(b, R) - ShareBp(b, L))
  OBVIOUS
<1>6. ToSet(L) \cap ToSet(R) = {}
  OBVIOUS
<1>7. SumFunction(apart) = SumOf(apart, B)
  BY SumsAgree
<1>8. TotalVariationBp(R, L) = SumFunction(apart) \div 2
  BY DEF TotalVariationBp
<1> DEFINE shareL == [b \in ToSet(L) |-> ShareBp(b, L)]
           shareR == [b \in ToSet(R) |-> ShareBp(b, R)]
<1>9. /\ \A b \in ToSet(L) : shareL[b] = ShareBp(b, L)
      /\ \A b \in ToSet(R) : shareR[b] = ShareBp(b, R)
      /\ ToSet(L) \in SUBSET B /\ ToSet(R) \in SUBSET B /\ B = ToSet(R) \cup ToSet(L)
  OBVIOUS
<1> HIDE DEF L, R, B, apart, shareL, shareR
<1>10. /\ \A b \in ToSet(L) : shareL[b] \in Nat
       /\ SumOf(shareL, ToSet(L)) \in Int
       /\ BP =< SumOf(shareL, ToSet(L)) + Cardinality(ToSet(L))
  BY <1>1, <1>9, SharesAddUp
<1>11. /\ \A b \in ToSet(R) : shareR[b] \in Nat
       /\ SumOf(shareR, ToSet(R)) \in Int
       /\ BP =< SumOf(shareR, ToSet(R)) + Cardinality(ToSet(R))
  BY <1>1, <1>9, SharesAddUp
<1>12. \A b \in ToSet(L) : apart[b] = shareL[b] /\ apart[b] \in Int
  <2> SUFFICES ASSUME NEW b \in ToSet(L) PROVE apart[b] = shareL[b] /\ apart[b] \in Int
    OBVIOUS
  <2>1. ShareBp(b, R) = 0 /\ ShareBp(b, L) = shareL[b] /\ shareL[b] \in Nat
    BY <1>4, <1>6, <1>9, <1>10
  <2>2. apart[b] = Abs(0 - shareL[b])
    BY <1>5, <1>9, <2>1
  <2>3. Abs(0 - shareL[b]) = shareL[b]
    BY <2>1 DEF Abs
  <2> QED
    BY <2>1, <2>2, <2>3
<1>13. \A b \in ToSet(R) : apart[b] = shareR[b] /\ apart[b] \in Int
  <2> SUFFICES ASSUME NEW b \in ToSet(R) PROVE apart[b] = shareR[b] /\ apart[b] \in Int
    OBVIOUS
  <2>1. ShareBp(b, L) = 0 /\ ShareBp(b, R) = shareR[b] /\ shareR[b] \in Nat
    BY <1>3, <1>6, <1>9, <1>11
  <2>2. apart[b] = Abs(shareR[b] - 0)
    BY <1>5, <1>9, <2>1
  <2>3. Abs(shareR[b] - 0) = shareR[b]
    BY <2>1 DEF Abs
  <2> QED
    BY <2>1, <2>2, <2>3
<1>14. SumOf(apart, ToSet(L)) = SumOf(shareL, ToSet(L))
  <2>1. \A b \in ToSet(L) : shareL[b] \in Int
    BY <1>10
  <2> QED
    BY <1>2, <1>12, <2>1, SumSame
<1>15. SumOf(apart, ToSet(R)) = SumOf(shareR, ToSet(R))
  <2>1. \A b \in ToSet(R) : shareR[b] \in Int
    BY <1>11
  <2> QED
    BY <1>2, <1>13, <2>1, SumSame
<1>16. SumOf(apart, B) = SumOf(apart, ToSet(R)) + SumOf(apart, ToSet(L))
  BY <1>2, <1>6, <1>9, <1>12, <1>13, SumSplit
<1> DEFINE s == SumFunction(apart)
<1>17. s \in Int /\ s >= 17998
  BY <1>2, <1>7, <1>10, <1>11, <1>14, <1>15, <1>16 DEF BP
<1> HIDE DEF s
<1>18. s \div 2 \in Int /\ s \div 2 >= 4000
  BY <1>17
<1> QED
  BY <1>8, <1>18 DEF s, L, R

(***************************************************************************)
(* A window whose amounts are of sizes that the calibration batch has none *)
(* of is severe, whatever its other signals say.                           *)
(***************************************************************************)
LEMMA ForeignIsSevere ==
    ASSUME NEW live, IsWindow(live), NEW ref, IsWindow(ref),
           Len(live) >= MIN_WINDOW, Len(ref) >= MIN_WINDOW,
           ToSet(Field(live, "bucket")) \cap ToSet(Field(ref, "bucket")) = {}
    PROVE  Observe(ref, live) = "SEVERE"
<1>1. Len(live) \in Nat /\ Len(ref) \in Nat /\ Len(live) > 0 /\ Len(ref) > 0
  BY SequenceHas, MonitorConstants DEF IsWindow
<1>2. Deltas(ref, live).amount_bucket >= 4000
  BY <1>1, ForeignIsApart DEF Deltas
<1>3. Grade("amount_bucket", Deltas(ref, live)["amount_bucket"]) = "SEVERE"
  BY <1>2 DEF Grade, THRESHOLDS
<1>4. "SEVERE" \in Grades(ref, live)
  BY <1>3 DEF Grades, SIGNALS, THRESHOLDS
<1>5. ~(Len(live) < MIN_WINDOW)
  BY <1>1, MonitorConstants
<1> QED
  BY <1>4, <1>5 DEF Observe

\* The median of a list of integers is an integer.
LEMMA MedianIsInteger ==
    ASSUME NEW s, IsSequence(s), \A i \in 1..Len(s) : s[i] \in Int
    PROVE  Median(s) \in Int
<1> DEFINE k == ((Len(s) - 1) \div 2) + 1
<1>1. CASE s = <<>>
  BY <1>1 DEF Median
<1>2. CASE s # <<>>
  <2>1. Len(s) \in Nat
    BY SequenceHas
  <2>2. Len(s) # 0
    BY <1>2, EmptySeq DEF IsSequence
  <2>3. k \in 1..Len(s)
    BY <2>1, <2>2
  <2> HIDE DEF k
  <2>4. Ranked(s, k) \in ToSet(s)
    BY <2>3, RankExists
  <2>5. Ranked(s, k) \in Int
    BY <2>4, SequenceHas
  <2> QED
    BY <1>2, <2>5 DEF Median, k
<1> QED
  BY <1>1, <1>2

LEMMA MeanIsInteger ==
    ASSUME NEW s, IsSequence(s), \A i \in 1..Len(s) : s[i] \in Int
    PROVE  MeanPpm(s) \in Int
<1>1. CASE s = <<>>
  BY <1>1 DEF MeanPpm
<1>2. CASE s # <<>>
  <2>1. Len(s) \in Nat \ {0} /\ DOMAIN s = 1..Len(s)
    BY <1>2, SequenceHas, EmptySeq DEF IsSequence
  <2>2. IsFiniteSet(DOMAIN s)
    BY <2>1, FS_Interval
  <2>3. SumOf(s, DOMAIN s) \in Int
    BY <2>1, <2>2, SumIntSteps
  <2>4. MeanPpm(s) = SumOf(s, DOMAIN s) \div Len(s)
    BY <1>2 DEF MeanPpm, SumOf
  <2> HIDE DEF MeanPpm
  <2> QED
    BY <2>1, <2>3, <2>4, Quotient
<1> QED
  BY <1>1, <1>2

LEMMA BucketOfAmount ==
    ASSUME NEW paise
    PROVE  AmountBucket(paise) \in 0..MAX_DIGITS
<1> DEFINE S == {k \in 1..MAX_DIGITS : paise >= 10 ^ k}
<1>1. /\ 1 \in Int /\ MAX_DIGITS \in Nat
      /\ IF 1 > MAX_DIGITS THEN MAX_DIGITS = 0 ELSE MAX_DIGITS - 1 + 1 = MAX_DIGITS
  BY MonitorConstants
<1>2. IsFiniteSet(1..MAX_DIGITS) /\ Cardinality(1..MAX_DIGITS) = MAX_DIGITS
  BY <1>1, FS_Interval
<1>3. S \in SUBSET (1..MAX_DIGITS)
  OBVIOUS
<1> HIDE DEF S
<1>4. Cardinality(S) \in Nat /\ Cardinality(S) =< MAX_DIGITS
  BY <1>2, <1>3, FS_Subset, FS_CardinalityType
<1> QED
  BY <1>1, <1>4 DEF AmountBucket, S

LEMMA LagsAreIntegers ==
    ASSUME NEW batch, IsBatch(batch)
    PROVE  Median(Lags(batch.captures, batch.bank)) \in Int
<1> DEFINE captures == batch.captures
           bank == batch.bank
           here == {i \in DOMAIN bank :
                      bank[i].kind = "credit" /\ Carrying(captures, bank[i].utr) # {}}
           joined == Pick(bank, here)
           lags == Lags(captures, bank)
<1>1. /\ IsSequence(captures) /\ IsSequence(bank)
      /\ \A c \in ToSet(captures) : c.day \in Int
      /\ \A t \in ToSet(bank) : t.day \in Int
  BY DEF IsBatch
<1> HIDE DEF captures, bank
<1>2. /\ Len(bank) \in Nat /\ DOMAIN bank = 1..Len(bank)
      /\ \A i \in 1..Len(bank) : bank[i] \in ToSet(bank)
      /\ Len(captures) \in Nat /\ DOMAIN captures = 1..Len(captures)
      /\ \A i \in 1..Len(captures) : captures[i] \in ToSet(captures)
  BY <1>1, SequenceHas
<1>3. here \in SUBSET (1..Len(bank))
  BY <1>2
<1>4. \A k \in here : Carrying(captures, bank[k].utr) # {}
  OBVIOUS
<1> HIDE DEF here
<1>5. /\ IsSequence(joined) /\ Len(joined) = Cardinality(here) /\ Cardinality(here) \in Nat
      /\ DOMAIN joined = 1..Len(joined)
      /\ \A i \in 1..Cardinality(here) : Nth(here, i) \in here /\ joined[i] = bank[Nth(here, i)]
  <2>1. /\ IsSequence(joined) /\ Len(joined) = Cardinality(here) /\ Cardinality(here) \in Nat
        /\ \A i \in 1..Cardinality(here) :
              Nth(here, i) \in here /\ joined[i] = bank[Nth(here, i)]
    BY <1>2, <1>3, PickedRows
  <2> HIDE DEF joined
  <2> QED
    BY <2>1, SequenceHas
<1>6. /\ DOMAIN lags = 1..Len(joined)
      /\ lags = [i \in 1..Len(joined) |-> lags[i]]
      /\ \A i \in 1..Len(joined) :
            lags[i] = joined[i].day - captures[Max(Carrying(captures, joined[i].utr))].day
  BY <1>5 DEF Lags, here
<1> HIDE DEF joined, lags
<1>7. ASSUME NEW i \in 1..Len(joined) PROVE lags[i] \in Int
  <2>1. PICK k \in here : joined[i] = bank[k]
    BY <1>5
  <2> DEFINE C == Carrying(captures, joined[i].utr)
  <2>2. C # {}
    BY <1>4, <2>1
  <2>3. C \in SUBSET (1..Len(captures))
    BY <1>2 DEF Carrying
  <2> HIDE DEF C
  <2>4. Max(C) \in C
    BY <1>2, <2>2, <2>3, GreatestNatural
  <2>5. captures[Max(C)] \in ToSet(captures)
    BY <1>2, <2>3, <2>4
  <2>6. joined[i] \in ToSet(bank)
    BY <1>2, <1>3, <2>1
  <2>7. captures[Max(C)].day \in Int /\ joined[i].day \in Int
    BY <1>1, <2>5, <2>6
  <2> QED
    BY <1>6, <2>7 DEF C
<1>8. IsSequence(lags) /\ Len(lags) = Len(joined)
  BY <1>5, <1>6, SequenceUpTo
<1>9. Median(lags) \in Int
  BY <1>7, <1>8, MedianIsInteger
<1> QED
  BY <1>9 DEF lags, captures, bank

LEMMA FeesAreIntegers ==
    ASSUME NEW batch, IsBatch(batch)
    PROVE  Median(FeeRates(batch.captures)) \in Int
<1> DEFINE captures == batch.captures
           here == {i \in DOMAIN captures : captures[i].amount > 0}
           priced == Pick(captures, here)
           rates == FeeRates(captures)
<1>1. /\ IsSequence(captures)
      /\ \A c \in ToSet(captures) : c.amount \in Int /\ c.fee \in Int /\ c.tax \in Int
  BY DEF IsBatch
<1> HIDE DEF captures
<1>2. /\ Len(captures) \in Nat /\ DOMAIN captures = 1..Len(captures)
      /\ \A i \in 1..Len(captures) : captures[i] \in ToSet(captures)
  BY <1>1, SequenceHas
<1>3. here \in SUBSET (1..Len(captures)) /\ \A k \in here : captures[k].amount > 0
  BY <1>2
<1> HIDE DEF here
<1>4. /\ IsSequence(priced) /\ Len(priced) = Cardinality(here) /\ Cardinality(here) \in Nat
      /\ DOMAIN priced = 1..Len(priced)
      /\ \A i \in 1..Cardinality(here) : Nth(here, i) \in here /\ priced[i] = captures[Nth(here, i)]
  <2>1. /\ IsSequence(priced) /\ Len(priced) = Cardinality(here) /\ Cardinality(here) \in Nat
        /\ \A i \in 1..Cardinality(here) :
              Nth(here, i) \in here /\ priced[i] = captures[Nth(here, i)]
    BY <1>2, <1>3, PickedRows
  <2> HIDE DEF priced
  <2> QED
    BY <2>1, SequenceHas
<1>5. /\ DOMAIN rates = 1..Len(priced)
      /\ rates = [i \in 1..Len(priced) |-> rates[i]]
      /\ \A i \in 1..Len(priced) :
            rates[i] = ((priced[i].fee + priced[i].tax) * BP) \div priced[i].amount
  BY <1>4 DEF FeeRates, here
<1> HIDE DEF priced, rates
<1>6. ASSUME NEW i \in 1..Len(priced) PROVE rates[i] \in Int
  <2>1. PICK k \in here : priced[i] = captures[k]
    BY <1>4
  <2>2. /\ priced[i].amount \in Int /\ priced[i].fee \in Int /\ priced[i].tax \in Int
        /\ priced[i].amount > 0
    BY <1>1, <1>2, <1>3, <2>1
  <2> DEFINE a == (priced[i].fee + priced[i].tax) * BP
             m == priced[i].amount
  <2>3. a \in Int /\ m \in Nat \ {0}
    BY <2>2 DEF BP
  <2> HIDE DEF a, m
  <2>4. a \div m \in Int
    BY <2>3, Quotient
  <2> QED
    BY <1>5, <2>4 DEF a, m
<1>7. IsSequence(rates) /\ Len(rates) = Len(priced)
  BY <1>4, <1>5, SequenceUpTo
<1>8. Median(rates) \in Int
  BY <1>6, <1>7, MedianIsInteger
<1> QED
  BY <1>8 DEF rates, captures

LEMMA ReferencesAreIntegers ==
    ASSUME NEW batch, IsBatch(batch), NEW id \in DOMAIN batch.verdicts
    PROVE  LET cited == Cited(batch.verdicts[id].refs, batch.bank)
           IN  MeanPpm([i \in DOMAIN cited |-> NarrationScorePpm(cited[i])]) \in Int
<1> DEFINE refs == batch.verdicts[id].refs
           bank == batch.bank
           credit(x) == {i \in DOMAIN bank : bank[i].id = x /\ bank[i].kind = "credit"}
           here == {i \in DOMAIN refs : credit(refs[i]) # {}}
           known == Pick(refs, here)
           cited == Cited(refs, bank)
           scores == [i \in DOMAIN cited |-> NarrationScorePpm(cited[i])]
<1>1. Len(refs) \in Nat /\ DOMAIN refs = 1..Len(refs)
  <2>1. IsSequence(refs)
    BY DEF IsBatch
  <2> HIDE DEF refs
  <2> QED
    BY <2>1, SequenceHas
<1>2. DOMAIN cited = DOMAIN known
  BY DEF Cited
<1> HIDE DEF refs, credit
<1>3. here \in SUBSET (1..Len(refs))
  BY <1>1
<1> HIDE DEF here
<1>4. IsSequence(known) /\ Len(known) \in Nat /\ DOMAIN known = 1..Len(known)
  BY <1>1, <1>3, PickedRows, SequenceHas
<1> HIDE DEF known, cited
<1>5. /\ DOMAIN scores = 1..Len(known) /\ scores = [i \in 1..Len(known) |-> scores[i]]
      /\ \A i \in 1..Len(known) : scores[i] \in Int
  BY <1>2, <1>4 DEF NarrationScorePpm, SCORE_PPM
<1> HIDE DEF scores
<1>6. IsSequence(scores) /\ Len(scores) = Len(known)
  BY <1>4, <1>5, SequenceUpTo
<1>7. MeanPpm(scores) \in Int
  BY <1>5, <1>6, MeanIsInteger
<1> QED
  BY <1>7 DEF scores, cited, refs

\* observations() returns one row of integers per order it judged.
LEMMA ObservationsAreRows ==
    ASSUME NEW batch, IsBatch(batch)
    PROVE  /\ IsWindow(Observations(batch))
           /\ Len(Observations(batch)) \in Nat
<1> DEFINE J == Judged(batch)
           n == Cardinality(J)
           rows == Observations(batch)
           order(k) == CHOOSE o \in ToSet(batch.orders) : o.id = Nth(J, k)
<1>1. J \in SUBSET Nat /\ IsFiniteSet(J)
  <2>1. J \in SUBSET {o.id : o \in ToSet(batch.orders)}
    BY DEF Judged
  <2>2. {o.id : o \in ToSet(batch.orders)} \in SUBSET Nat
    BY DEF IsBatch
  <2>3. IsFiniteSet(ToSet(batch.orders))
    BY FiniteElements DEF IsBatch
  <2>4. IsFiniteSet({o.id : o \in ToSet(batch.orders)})
    <3> DEFINE orders == ToSet(batch.orders)
               ids == {o.id : o \in orders}
               f == [o \in orders |-> o.id]
    <3>1. f \in Surjection(orders, ids)
      BY DEF Surjection
    <3> HIDE DEF f, ids
    <3>2. IsFiniteSet(ids)
      BY <2>3, <3>1, FS_Surjection
    <3> QED
      BY <3>2 DEF ids
  <2> HIDE DEF J
  <2> QED
    BY <2>1, <2>2, <2>4, FS_Subset
<1>2. \A id \in J : id \in DOMAIN batch.verdicts /\ \E o \in ToSet(batch.orders) : o.id = id
  BY DEF Judged
<1>3. /\ DOMAIN rows = 1..n /\ rows = [k \in 1..n |-> rows[k]]
      /\ \A k \in 1..n : rows[k] = RowOf(batch, order(k))
  BY DEF Observations
<1> HIDE DEF J, rows
<1>4. n \in Nat /\ \A k \in 1..n : Nth(J, k) \in J
  BY <1>1, NthOfNaturals
<1>5. ASSUME NEW k \in 1..n PROVE rows[k] \in Row
  <2>1. /\ Nth(J, k) \in DOMAIN batch.verdicts
        /\ \E o \in ToSet(batch.orders) : o.id = Nth(J, k)
    BY <1>2, <1>4
  <2> DEFINE o == order(k)
             cited == Cited(batch.verdicts[o.id].refs, batch.bank)
  <2>2. o.id \in DOMAIN batch.verdicts
    BY <2>1
  <2> HIDE DEF o
  <2>3. /\ batch.verdicts[o.id].score \in Int
        /\ AmountBucket(o.amount) \in 0..MAX_DIGITS
        /\ Median(Lags(batch.captures, batch.bank)) \in Int
        /\ Median(FeeRates(batch.captures)) \in Int
        /\ MeanPpm([i \in DOMAIN cited |-> NarrationScorePpm(cited[i])]) \in Int
    BY <2>2, BucketOfAmount, LagsAreIntegers, FeesAreIntegers, ReferencesAreIntegers DEF IsBatch
  <2>4. RowOf(batch, o) \in Row
    BY <2>3 DEF RowOf, Row
  <2> QED
    BY <1>3, <2>4 DEF o
<1> HIDE DEF n
<1>6. IsSequence(rows) /\ Len(rows) = n
  BY <1>3, <1>4, SequenceUpTo
<1>7. ToSet(rows) \subseteq Row
  BY <1>5, <1>6, SequenceHas
<1> QED
  BY <1>4, <1>6, <1>7 DEF IsWindow, rows

\* The calibration batch and the live ones are rows of integers.
LEMMA WindowsAreRows ==
    /\ IsWindow(Reference) /\ Len(Reference) \in Nat /\ Len(Reference) >= MIN_WINDOW
    /\ \A w \in Window : /\ IsWindow(Rows[w]) /\ Len(Rows[w]) \in Nat
                         /\ Severity[w] = Observe(Reference, Rows[w])
<1>1. IsWindow(Reference) /\ Len(Reference) \in Nat /\ Len(Reference) >= MIN_WINDOW
  BY WatchConstants, ObservationsAreRows DEF Reference
<1>2. ASSUME NEW w \in Window
      PROVE  /\ IsWindow(Rows[w]) /\ Len(Rows[w]) \in Nat
             /\ Severity[w] = Observe(Reference, Rows[w])
  <2>1. Rows[w] = Observations(Live[w]) /\ IsBatch(Live[w])
    BY WatchConstants DEF Rows
  <2>2. IsWindow(Rows[w]) /\ Len(Rows[w]) \in Nat
    BY <2>1, ObservationsAreRows
  <2>3. Severity[w] = Observe(Reference, Rows[w])
    BY WatchConstants DEF Reports
  <2> QED
    BY <2>2, <2>3
<1> QED
  BY <1>1, <1>2

LEMMA HonestIsNotSevere ==
    ASSUME NEW w \in Honest
    PROVE  Severity[w] # "SEVERE"
<1>1. w \in Window /\ Alike(Rows[w], Reference)
  BY DEF Honest, Alike
<1>2. CASE Len(Rows[w]) >= MIN_WINDOW
  <2>1. Observe(Reference, Rows[w]) = "HEALTHY"
    BY <1>1, <1>2, WindowsAreRows, AlikeIsHealthy
  <2> QED
    BY <1>1, <2>1, WindowsAreRows
<1>3. CASE Len(Rows[w]) < MIN_WINDOW
  <2>1. Observe(Reference, Rows[w]) = "UNDERSIZED"
    BY <1>3 DEF Observe
  <2> QED
    BY <1>1, <2>1, WindowsAreRows
<1> QED
  BY <1>1, <1>2, <1>3, WindowsAreRows, MonitorConstants

LEMMA ForeignOrShort ==
    /\ \A w \in Foreign : w \in Window /\ Severity[w] = "SEVERE"
    /\ \A w \in Short : w \in Window /\ Severity[w] = "UNDERSIZED"
<1>1. ASSUME NEW w \in Foreign PROVE w \in Window /\ Severity[w] = "SEVERE"
  <2>1. /\ w \in Window /\ ~(Len(Rows[w]) < MIN_WINDOW)
        /\ ToSet(Field(Rows[w], "bucket")) \cap ToSet(Field(Reference, "bucket")) = {}
    BY DEF Foreign, Short
  <2>2. Len(Rows[w]) >= MIN_WINDOW
    BY <2>1, WindowsAreRows, MonitorConstants
  <2> QED
    BY <2>1, <2>2, WindowsAreRows, ForeignIsSevere
<1>2. ASSUME NEW w \in Short PROVE w \in Window /\ Severity[w] = "UNDERSIZED"
  <2>1. w \in Window /\ Len(Rows[w]) < MIN_WINDOW
    BY DEF Short
  <2>2. Observe(Reference, Rows[w]) = "UNDERSIZED"
    BY <2>1 DEF Observe
  <2> QED
    BY <2>1, <2>2, WindowsAreRows
<1> QED
  BY <1>1, <1>2

\* The severe windows of the record.
SevereEver == {i \in 1..Len(history) : SeverityAt(i) = "SEVERE"}

\* Authority is away only where two of them are on record.
RevokedAfterTwo == state \in REVOKED_STATES => Cardinality(SevereEver) >= 2

LEMMA SevereEverCounts ==
    ASSUME TypeOK
    PROVE  /\ IsFiniteSet(SevereEver) /\ Cardinality(SevereEver) \in Nat
           /\ IsFiniteSet(SevereSinceHealth) /\ Cardinality(SevereSinceHealth) \in Nat
           /\ Cardinality(SevereSinceHealth) =< Cardinality(SevereEver)
<1>1. Len(history) \in Nat
  BY LenProperties DEF TypeOK
<1>2. IsFiniteSet(1..Len(history))
  BY <1>1, FS_Interval
<1>3. SevereEver \subseteq 1..Len(history) /\ SevereSinceHealth \subseteq SevereEver
  BY DEF SevereEver, SevereSinceHealth
<1> QED
  BY <1>2, <1>3, FS_Subset, FS_CardinalityType

LEMMA SevereEverGrows ==
    ASSUME TypeOK, TypeOK', NEW d, Recorded(d)
    PROVE  /\ IsFiniteSet(SevereEver') /\ SevereEver \subseteq SevereEver'
           /\ Cardinality(SevereEver') \in Nat
           /\ Cardinality(SevereSinceHealth') =< Cardinality(SevereEver')
<1>1. /\ Len(history) \in Nat /\ Len(history') = Len(history) + 1
      /\ \A i \in 1..Len(history) : history'[i] = history[i]
  BY RecordedPositions
<1>2. SevereEver \subseteq SevereEver'
  BY <1>1 DEF SevereEver, SeverityAt
<1>3. (TypeOK => /\ IsFiniteSet(SevereEver) /\ Cardinality(SevereEver) \in Nat
                 /\ Cardinality(SevereSinceHealth) =< Cardinality(SevereEver))'
  BY SevereEverCounts, PTL
<1> QED
  BY <1>2, <1>3

LEMMA NextKeepsRevokedAfterTwo ==
    ASSUME IInv, IInv', RevokedAfterTwo, [Next]_vars
    PROVE  RevokedAfterTwo'
<1>1. CASE UNCHANGED vars
  BY <1>1 DEF vars, RevokedAfterTwo, SevereEver, SeverityAt
<1>2. CASE Next
  <2>1. PICK d : Recorded(d)
    BY <1>2, ApplyRecords DEF Next, IInv
  <2>2. /\ IsFiniteSet(SevereEver') /\ SevereEver \subseteq SevereEver'
        /\ Cardinality(SevereEver') \in Nat
        /\ Cardinality(SevereSinceHealth') =< Cardinality(SevereEver')
    BY <2>1, SevereEverGrows DEF IInv
  <2>3. Cardinality(SevereEver) =< Cardinality(SevereEver') /\ Cardinality(SevereEver) \in Nat
    BY <2>2, SevereEverCounts, FS_Subset DEF IInv
  <2> SUFFICES ASSUME state' \in REVOKED_STATES PROVE Cardinality(SevereEver') >= 2
    BY DEF RevokedAfterTwo
  <2>4. CASE state \in REVOKED_STATES
    BY <2>2, <2>3, <2>4 DEF RevokedAfterTwo
  <2>5. CASE state \notin REVOKED_STATES
    <3>1. Cardinality(SevereSinceHealth') >= 2
      BY <2>5, RevokingStep
    <3>2. Cardinality(SevereSinceHealth') \in Nat
      <4>1. (TypeOK => Cardinality(SevereSinceHealth) \in Nat)'
        BY SevereEverCounts, PTL
      <4> QED
        BY <4>1 DEF IInv
    <3> QED
      BY <2>2, <3>1, <3>2
  <2> QED
    BY <2>4, <2>5
<1> QED
  BY <1>1, <1>2

(***************************************************************************)
(* For every calibration batch and every feed: no stream loses its         *)
(* authority before two windows of it have differed from the calibration   *)
(* batch in how often they hold a row (drift.observe, apply).              *)
(***************************************************************************)
THEOREM HonestyIsSafe == Spec => []HonestStreamKeepsAuthority
<1>1. Spec => []IInv
  BY InitEstablishesIInv, NextKeepsIInv, PTL DEF Spec
<1>2. Init => RevokedAfterTwo
  BY DEF Init, RevokedAfterTwo, REVOKED_STATES
<1>3. IInv /\ IInv' /\ RevokedAfterTwo /\ [Next]_vars => RevokedAfterTwo'
  BY NextKeepsRevokedAfterTwo
<1>4. Spec => []RevokedAfterTwo
  BY <1>1, <1>2, <1>3, PTL DEF Spec
<1>5. ASSUME IInv, RevokedAfterTwo PROVE HonestStreamKeepsAuthority
  <2> SUFFICES ASSUME state \in REVOKED_STATES
               PROVE  Cardinality({i \in 1..Len(history) : history[i].window \notin Honest}) >= 2
    BY DEF HonestStreamKeepsAuthority
  <2> DEFINE D == {i \in 1..Len(history) : history[i].window \notin Honest}
  <2>1. SevereEver \subseteq D
    BY HonestIsNotSevere DEF SevereEver, SeverityAt
  <2>2. Len(history) \in Nat
    BY <1>5, LenProperties DEF IInv, TypeOK
  <2>3. IsFiniteSet(1..Len(history)) /\ D \subseteq 1..Len(history)
    BY <2>2, FS_Interval
  <2> HIDE DEF D
  <2>4. IsFiniteSet(D) /\ Cardinality(D) \in Nat
    BY <2>3, FS_Subset, FS_CardinalityType
  <2>5. Cardinality(SevereEver) =< Cardinality(D) /\ Cardinality(SevereEver) \in Nat
    BY <1>5, <2>1, <2>4, SevereEverCounts, FS_Subset DEF IInv
  <2>6. Cardinality(SevereEver) >= 2
    BY <1>5 DEF RevokedAfterTwo
  <2>7. Cardinality(D) >= 2
    BY <2>4, <2>5, <2>6
  <2> QED
    BY <2>7 DEF D
<1> QED
  BY <1>1, <1>4, <1>5, PTL

(***************************************************************************)
(* For every calibration batch and every feed: three windows with nothing  *)
(* of its sizes halt the ladder, whatever else they hold and however many  *)
(* windows too small to score come in between.                             *)
(***************************************************************************)
THEOREM ForeignHalts == Spec => []ForeignStreamIsHalted
<1>1. Spec => []IInv
  BY InitEstablishesIInv, NextKeepsIInv, PTL DEF Spec
<1>2. ASSUME IInv PROVE ForeignStreamIsHalted
  <2> SUFFICES ASSUME NEW i \in 1..Len(history),
                      \A j \in i..Len(history) : history[j].window \in Foreign \cup Short,
                      Cardinality({j \in i..Len(history) : history[j].window \in Foreign})
                          >= SEVERE_WINDOWS_TO_HALT
               PROVE  state = "AUTOMATION_HALTED"
    BY DEF ForeignStreamIsHalted
  <2> DEFINE F == {j \in i..Len(history) : history[j].window \in Foreign}
  <2>1. Len(history) \in Nat
    BY <1>2, LenProperties DEF IInv, TypeOK
  <2>2. \A j \in i..Len(history) : SeverityAt(j) # "HEALTHY"
    BY ForeignOrShort DEF SeverityAt
  <2>3. ASSUME NEW j \in F PROVE j \in SevereSinceHealth
    <3>1. j \in 1..Len(history) /\ \A k \in j..Len(history) : k \in i..Len(history)
      BY <2>1
    <3>2. SeverityAt(j) = "SEVERE"
      BY ForeignOrShort DEF SeverityAt
    <3> QED
      BY <2>2, <3>1, <3>2 DEF SevereSinceHealth
  <2>4. F \subseteq SevereSinceHealth
    BY <2>3
  <2>5. Cardinality(F) >= 3
    BY DEF SEVERE_WINDOWS_TO_HALT
  <2> HIDE DEF F
  <2>6. /\ Cardinality(F) \in Nat /\ Cardinality(F) =< Cardinality(SevereSinceHealth)
        /\ Cardinality(SevereSinceHealth) \in Nat
    <3>1. IsFiniteSet(SevereSinceHealth) /\ Cardinality(SevereSinceHealth) \in Nat
      BY <1>2, SevereEverCounts DEF IInv
    <3> QED
      BY <2>4, <3>1, FS_Subset, FS_CardinalityType
  <2>7. Cardinality(SevereSinceHealth) >= 3
    BY <2>5, <2>6
  <2> QED
    BY <1>2, <2>7 DEF IInv, LadderFollowsSevereRun
<1> QED
  BY <1>1, <1>2, PTL


-----------------------------------------------------------------------------
(* The gate.                                                                *)

(***************************************************************************)
(* Another authority changes nothing that a situation says but the         *)
(* authority, and that only in fuzzy evidence.                             *)
(***************************************************************************)
LEMMA UnderAuthorityChangesOnly ==
    ASSUME NEW s \in Situation, NEW stated \in AuthorityStated
    PROVE  LET r == UnderAuthority(s, stated) IN
           /\ r \in Situation
           /\ r.verdict = s.verdict
           /\ r.amount = s.amount
           /\ r.delta_due = s.delta_due
           /\ r.mandate = s.mandate
           /\ r.bank_coverage_ok = s.bank_coverage_ok
           /\ r.path = s.path
           /\ r.risk_authorized = s.risk_authorized
           /\ r.calibrated = s.calibrated
           /\ s.path = "probabilistic" => r.authority = stated
           /\ s.path # "probabilistic" => r.authority = ""
<1>1. "" \in AuthorityStated
  BY DEF AuthorityStated
<1>2. CASE s.path = "probabilistic"
  BY <1>2 DEF Situation, UnderAuthority
<1>3. CASE s.path # "probabilistic"
  BY <1>1, <1>3 DEF Situation, UnderAuthority
<1>4. QED
  BY <1>2, <1>3

\* The types survive every action.
LEMMA TypePreserved == GateTypeOK /\ [GateNext]_gateVars => GateTypeOK'
<1> SUFFICES ASSUME GateTypeOK, [GateNext]_gateVars PROVE GateTypeOK'
  OBVIOUS
<1>1. CASE AuthorityMoves
  <2>1. authority' \in AuthorityStated /\ situation' = UnderAuthority(situation, authority')
    BY <1>1 DEF AuthorityMoves
  <2>2. situation' \in Situation
    BY <2>1, UnderAuthorityChangesOnly DEF GateTypeOK
  <2>3. QED
    BY <1>1, <2>2 DEF AuthorityMoves, GateTypeOK
<1>2. CASE FeedCatchesUp
  <2>1. situation' \in Situation
    BY <1>2 DEF FeedCatchesUp, GateTypeOK, Situation
  <2>2. QED
    BY <1>2, <2>1 DEF FeedCatchesUp, GateTypeOK
<1>3. CASE AnotherAttempt
  BY <1>3 DEF AnotherAttempt, GateTypeOK
<1>4. CASE AnotherContact
  BY <1>4 DEF AnotherContact, GateTypeOK
<1>5. CASE LessConfident
  BY <1>5, PolicyGateConstants DEF LessConfident, GateTypeOK
<1>6. CASE UNCHANGED gateVars
  BY <1>6 DEF gateVars, GateTypeOK
<1>7. QED
  BY <1>1, <1>2, <1>3, <1>4, <1>5, <1>6 DEF GateNext

LEMMA TypeInvariant == GateSpec => []GateTypeOK
<1>1. ASSUME GateInit PROVE GateTypeOK
  <2>1. authority \in AuthorityStated
    BY <1>1 DEF GateInit, AuthorityStated
  <2>2. Situations \subseteq Situation /\ Confidence \subseteq Nat \cup {NoConfidence}
    BY PolicyGateConstants
  <2>3. QED
    BY <1>1, <2>1, <2>2 DEF GateInit, GateTypeOK
<1>2. QED
  BY <1>1, TypePreserved, PTL DEF GateSpec

(***************************************************************************)
(* What an ALLOW means: the conjunction of the gates passed.               *)
(***************************************************************************)
LEMMA AllowMeans ==
    ASSUME NEW s \in Situation, NEW a, NEW m \in Nat, NEW n \in Nat, NEW c \in Int
    PROVE  Allows(s, a, m, n, c) <=>
             /\ ~DriftHalts(s)
             /\ s.verdict \in CHASEABLE_VERDICTS
             /\ s.bank_coverage_ok
             /\ ~AttemptCapReached(m)
             /\ ~(n >= CONTACT_BUDGET_7D)
             /\ ~(ExpectedValue(s) <= COST_WRONG_CHASE_PAISE)
             /\ ~NeedsHumanForCharge(s, a)
             /\ ~(c # NoConfidence /\ c < LLM_MIN_CONFIDENCE)
             /\ a \in ActionType
             /\ HasProof(s)
<1>1. CASE DriftHalts(s)
  BY <1>1 DEF Allows, Evaluate, Rule
<1>2. CASE ~DriftHalts(s) /\ s.verdict \notin CHASEABLE_VERDICTS
  <2>1. s.verdict \in Verdict
    BY DEF Situation
  <2>2. Disposition(s.verdict).outcome # "ALLOW"
    BY <2>1, <1>2 DEF Disposition, Rule, Verdict, PROVABLY_PAID
  <2>3. QED
    BY <1>2, <2>2 DEF Allows, Evaluate
<1>3. CASE ~DriftHalts(s) /\ s.verdict \in CHASEABLE_VERDICTS
  BY <1>3 DEF Allows, Evaluate, EvaluateChaseable, Rule
<1>4. QED
  BY <1>1, <1>2, <1>3

(***************************************************************************)
(* No order is ever allowed on less than a chaseable verdict, a covering   *)
(* bank feed, an amount worth the risk and an unrevoked proof, whatever    *)
(* the amounts and the counts (policy.evaluate).                           *)
(***************************************************************************)
THEOREM GateIsEarned == GateSpec => []AllowIsEarned
<1>1. GateTypeOK => AllowIsEarned
  <2> SUFFICES ASSUME GateTypeOK, Allowed PROVE AllowIsEarned
    BY DEF AllowIsEarned
  <2>1. /\ situation \in Situation
        /\ attempts \in Nat /\ contacts \in Nat /\ confidence \in Int
    BY DEF GateTypeOK, NoConfidence
  <2>2. /\ ~DriftHalts(situation)
        /\ situation.verdict \in CHASEABLE_VERDICTS
        /\ situation.bank_coverage_ok
        /\ ~(ExpectedValue(situation) <= COST_WRONG_CHASE_PAISE)
        /\ HasProof(situation)
    BY <2>1, AllowMeans DEF Allowed
  <2>3. ChaseAmount(situation) \in Nat
    BY <2>1 DEF ChaseAmount, Situation
  <2>4. 3 * ChaseAmount(situation) > 5 * COST_WRONG_CHASE_PAISE
    BY <2>2, <2>3 DEF ExpectedValue, COST_WRONG_CHASE_PAISE, RECOVERY_RATE_NUM, RECOVERY_RATE_DEN
  <2>5. QED
    BY <2>2, <2>4 DEF AllowIsEarned, HasProof, DriftHalts
<1>2. QED
  BY <1>1, TypeInvariant, PTL

(***************************************************************************)
(* Attempts, contacts, doubt and a revoked authority only remove actions   *)
(* (policy.py: "revoking authority can only ever remove actions").         *)
(***************************************************************************)
THEOREM PressureOnlyRemoves == GateSpec => PressureNeverAllows
<1>1. GateTypeOK /\ GateTypeOK' /\ [GateNext]_gateVars => [(Pressed /\ Allowed') => Allowed]_gateVars
  <2> SUFFICES ASSUME GateTypeOK, GateTypeOK', [GateNext]_gateVars, Pressed, Allowed' PROVE Allowed
    OBVIOUS
  <2>1. /\ situation \in Situation /\ situation' \in Situation
        /\ attempts \in Nat /\ contacts \in Nat /\ confidence \in Int
        /\ attempts' \in Nat /\ contacts' \in Nat /\ confidence' \in Int
    BY DEF GateTypeOK, NoConfidence
  <2>2. action' = action /\ (confidence' = confidence \/ confidence' \in Nat)
    BY PolicyGateConstants DEF GateNext, gateVars, AuthorityMoves, FeedCatchesUp,
       AnotherAttempt, AnotherContact, LessConfident
  <2>3. /\ ~DriftHalts(situation')
        /\ situation'.verdict \in CHASEABLE_VERDICTS
        /\ situation'.bank_coverage_ok
        /\ ~AttemptCapReached(attempts')
        /\ ~(contacts' >= CONTACT_BUDGET_7D)
        /\ ~(ExpectedValue(situation') <= COST_WRONG_CHASE_PAISE)
        /\ ~NeedsHumanForCharge(situation', action)
        /\ ~(confidence' # NoConfidence /\ confidence' < LLM_MIN_CONFIDENCE)
        /\ action \in ActionType
        /\ HasProof(situation')
    BY <2>1, <2>2, AllowMeans DEF Allowed
  <2>4. /\ ~AttemptCapReached(attempts)
        /\ ~(contacts >= CONTACT_BUDGET_7D)
    BY <2>1, <2>3 DEF Pressed, AttemptCapReached, MAX_ATTEMPTS, CONTACT_BUDGET_7D
  <2>5. ~(confidence # NoConfidence /\ confidence < LLM_MIN_CONFIDENCE)
    BY <2>1, <2>2, <2>3 DEF Pressed, NoConfidence, LLM_MIN_CONFIDENCE
  <2>6. CASE UNCHANGED <<authority, situation>>
    BY <2>1, <2>3, <2>4, <2>5, <2>6, AllowMeans DEF Allowed
  <2>7. CASE /\ authority' \in REVOKED_AUTHORITY_STATES
             /\ situation' = UnderAuthority(situation, authority')
    <3>1. /\ situation'.verdict = situation.verdict
          /\ situation'.amount = situation.amount
          /\ situation'.delta_due = situation.delta_due
          /\ situation'.mandate = situation.mandate
          /\ situation'.bank_coverage_ok = situation.bank_coverage_ok
          /\ situation'.path = situation.path
          /\ situation'.risk_authorized = situation.risk_authorized
          /\ situation'.calibrated = situation.calibrated
          /\ situation.path = "probabilistic" => situation'.authority = authority'
      <4>1. authority' \in AuthorityStated
        BY DEF GateTypeOK
      <4>2. QED
        BY <2>1, <2>7, <4>1, UnderAuthorityChangesOnly
    <3>2. ChaseAmount(situation') = ChaseAmount(situation)
      BY <3>1 DEF ChaseAmount
    <3>3. ~DriftHalts(situation) /\ HasProof(situation)
      BY <2>3, <2>7, <3>1 DEF DriftHalts, HasProof
    <3>4. /\ ~(ExpectedValue(situation) <= COST_WRONG_CHASE_PAISE)
          /\ ~NeedsHumanForCharge(situation, action)
      BY <2>3, <3>1, <3>2 DEF ExpectedValue, NeedsHumanForCharge
    <3>5. QED
      BY <2>1, <2>3, <2>4, <2>5, <3>1, <3>3, <3>4, AllowMeans DEF Allowed
  <2>8. QED
    BY <2>6, <2>7 DEF Pressed
<1>2. QED
  BY <1>1, TypePreserved, TypeInvariant, PTL DEF GateSpec, PressureNeverAllows

\* What the evidence states is the authority of the run, where it is fuzzy.
AuthorityIsStated ==
    situation.path = "probabilistic" => situation.authority = authority

LEMMA AuthorityStaysStated ==
    GateTypeOK /\ AuthorityIsStated /\ [GateNext]_gateVars => AuthorityIsStated'
<1> SUFFICES ASSUME GateTypeOK, AuthorityIsStated, [GateNext]_gateVars PROVE AuthorityIsStated'
  OBVIOUS
<1>1. CASE AuthorityMoves
  <2>1. authority' \in AuthorityStated /\ situation' = UnderAuthority(situation, authority')
    BY <1>1 DEF AuthorityMoves
  <2>2. /\ situation'.path = situation.path
        /\ situation.path = "probabilistic" => situation'.authority = authority'
    BY <2>1, UnderAuthorityChangesOnly DEF GateTypeOK
  <2>3. QED
    BY <2>2 DEF AuthorityIsStated
<1>2. CASE FeedCatchesUp
  <2>1. situation'.path = situation.path /\ situation'.authority = situation.authority
    BY <1>2 DEF FeedCatchesUp, GateTypeOK, Situation
  <2>2. QED
    BY <1>2, <2>1 DEF FeedCatchesUp, AuthorityIsStated
<1>3. CASE UNCHANGED <<authority, situation>>
  BY <1>3 DEF AuthorityIsStated
<1>4. QED
  BY <1>1, <1>2, <1>3 DEF GateNext, gateVars, AnotherAttempt, AnotherContact, LessConfident

(***************************************************************************)
(* Under a revoked authority every fuzzy verdict is held for a human,      *)
(* whatever it says and whatever is asked (policy.evaluate's R0, on the    *)
(* evidence recon.py's _resolve builds).                                   *)
(***************************************************************************)
THEOREM RevocationReachesFuzzy == GateSpec => []RevocationHoldsFuzzy
<1>1. GateInit => AuthorityIsStated
  BY PolicyGateConstants DEF GateInit, AuthorityIsStated
<1>2. AuthorityIsStated => RevocationHoldsFuzzy
  BY DEF AuthorityIsStated, RevocationHoldsFuzzy, Decided, Evaluate, DriftHalts
<1>3. QED
  BY <1>1, <1>2, TypeInvariant, AuthorityStaysStated, PTL DEF GateSpec

(***************************************************************************)
(* Drift cannot touch an exact proof: the decision, outcome and rule, is   *)
(* the same under every authority (policy.py, R0).                         *)
(***************************************************************************)
THEOREM DriftSparesExactProofs == GateSpec => ExactUntouchedByDrift
<1>1. GateTypeOK /\ GateTypeOK' /\ [GateNext]_gateVars =>
        [(situation.path = "exact" /\ authority' # authority) => Decided' = Decided]_gateVars
  <2> SUFFICES ASSUME GateTypeOK, GateTypeOK', [GateNext]_gateVars, situation.path = "exact",
                      authority' # authority
               PROVE  Decided' = Decided
    OBVIOUS
  <2>1. situation \in Situation /\ authority' \in AuthorityStated
    BY DEF GateTypeOK
  <2>2. /\ situation' = UnderAuthority(situation, authority')
        /\ UNCHANGED <<action, attempts, contacts, confidence>>
    BY DEF GateNext, gateVars, AuthorityMoves, FeedCatchesUp,
       AnotherAttempt, AnotherContact, LessConfident
  <2>3. /\ situation'.verdict = situation.verdict
        /\ situation'.amount = situation.amount
        /\ situation'.delta_due = situation.delta_due
        /\ situation'.mandate = situation.mandate
        /\ situation'.bank_coverage_ok = situation.bank_coverage_ok
        /\ situation'.path = "exact"
    BY <2>1, <2>2, UnderAuthorityChangesOnly
  <2>4. ~DriftHalts(situation) /\ ~DriftHalts(situation')
    BY <2>3 DEF DriftHalts
  <2>5. /\ ExpectedValue(situation') = ExpectedValue(situation)
        /\ NeedsHumanForCharge(situation', action) = NeedsHumanForCharge(situation, action)
    BY <2>3 DEF ExpectedValue, ChaseAmount, NeedsHumanForCharge
  <2>6. HasProof(situation) /\ HasProof(situation')
    BY <2>3 DEF HasProof
  <2>7. EvaluateChaseable(situation', action, attempts, contacts, confidence)
          = EvaluateChaseable(situation, action, attempts, contacts, confidence)
    BY <2>3, <2>5, <2>6 DEF EvaluateChaseable
  <2>8. Evaluate(situation', action, attempts, contacts, confidence)
          = Evaluate(situation, action, attempts, contacts, confidence)
    BY <2>3, <2>4, <2>7 DEF Evaluate
  <2>9. QED
    BY <2>2, <2>8 DEF Decided
<1>2. QED
  BY <1>1, TypePreserved, TypeInvariant, PTL DEF GateSpec, ExactUntouchedByDrift

=============================================================================
