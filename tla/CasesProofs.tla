---------------------------- MODULE CasesProofs ----------------------------
(***************************************************************************)
(* The case store and who works on it, for any set of subjects, analysts   *)
(* and certificates and any bound on versions: what the operations of the  *)
(* store preserve, whoever calls them; the analysts of Cases; what a       *)
(* history that verify() accepts is worth (CaseSnapshots); and the server  *)
(* of the chase list for any orders and browser tabs (Workbench).          *)
(***************************************************************************)
EXTENDS Cases, CaseSnapshots, Workbench, SequenceTheorems, TLAPS

-----------------------------------------------------------------------------
(* The graph.                                                               *)

\* Every edge of the graph leads to a case state.
LEMMA EdgesStayInGraph ==
    \A s \in CaseState : LEGAL_TRANSITIONS[s] \subseteq CaseState
  BY DEF LEGAL_TRANSITIONS, DeclaredEdges, CaseState, TERMINAL_STATES

\* A terminal state has no edge out.
LEMMA TerminalHasNoEdge ==
    \A s \in TERMINAL_STATES : s \in CaseState /\ LEGAL_TRANSITIONS[s] = {}
  BY DEF LEGAL_TRANSITIONS, DeclaredEdges, CaseState, TERMINAL_STATES

\* Where path_to finds a route to RESOLVED, it is one of those it searches.
LEMMA RouteIsFound ==
    ASSUME NEW s \in CaseState, s # "RESOLVED", HasRoute(s)
    PROVE  PathToResolved(s) \in Routes(s, "RESOLVED")
<1>1. Routes(s, "RESOLVED") # {}
  BY DEF HasRoute, RouteToResolved
<1>2. \A r \in Routes(s, "RESOLVED") : Len(r) \in 1..5
  BY DEF Routes, MaxRoute
<1> DEFINE Long(k) == \E r \in Routes(s, "RESOLVED") : Len(r) = k
<1>3. Long(1) \/ Long(2) \/ Long(3) \/ Long(4) \/ Long(5)
  BY <1>1, <1>2
<1>4. \E k \in 1..5 : Long(k) /\ \A j \in 1..5 : Long(j) => k <= j
  <2> HIDE DEF Long
  <2>1. \A j \in 1..5 : j = 1 \/ j = 2 \/ j = 3 \/ j = 4 \/ j = 5
    OBVIOUS
  <2> QED
    BY <1>3, <2>1
<1>5. \E r \in Routes(s, "RESOLVED") : \A q \in Routes(s, "RESOLVED") : Len(r) <= Len(q)
  BY <1>2, <1>4
<1>6. ShortestRoute(s, "RESOLVED") \in Routes(s, "RESOLVED")
  BY <1>5 DEF ShortestRoute
<1> QED
  BY <1>1, <1>6 DEF PathToResolved, RouteToResolved

\* The route is a sequence of case states, and escalation is not on it.
LEMMA RouteType ==
    ASSUME NEW s \in CaseState, HasRoute(s)
    PROVE  /\ PathToResolved(s) \in Seq(CaseState)
           /\ \A i \in 1..Len(PathToResolved(s)) : PathToResolved(s)[i] # "ESCALATED"
<1> DEFINE r == PathToResolved(s)
<1>1. CASE s = "RESOLVED"
  BY <1>1 DEF PathToResolved
<1>2. CASE s # "RESOLVED"
  <2>1. r \in Routes(s, "RESOLVED")
    BY <1>2, RouteIsFound
  <2> HIDE DEF r
  <2>2. PICK n \in 1..MaxRoute : r \in [1..n -> CaseState]
    BY <2>1 DEF Routes
  <2>3. r \in Seq(CaseState) /\ Len(r) = n /\ n \in Nat \ {0}
    BY <2>2, SeqDef DEF MaxRoute
  <2>4. r[n] = "RESOLVED" /\ \A i \in 1..(n - 1) : r[i] # "ESCALATED"
    BY <2>1, <2>3 DEF Routes
  <2>5. \A i \in 1..n : i = n \/ i \in 1..(n - 1)
    BY <2>3
  <2> QED
    BY <2>3, <2>4, <2>5 DEF r
<1> QED
  BY <1>1, <1>2

-----------------------------------------------------------------------------
(* The two operations of the store.                                         *)

StoreInv == StoreTypeOK /\ ProjectionMatchesHistory

\* An existing case has a row, a case that does not exist has none.
LEMMA RowOfExistingCase ==
    ASSUME StoreTypeOK, NEW c \in CaseId
    PROVE  /\ Exists(c) => cases[c] \in CaseRow
           /\ ~Exists(c) => cases[c] = AbsentRow
           /\ Exists(c) <=> cases[c] # AbsentRow
  BY DEF StoreTypeOK, Exists, CaseRow, AbsentRow

\* What advance appends is a sequence of well-formed events.
LEMMA NewEventsType ==
    ASSUME StoreTypeOK, NEW c \in CaseId, Exists(c),
           NEW path \in Seq(CaseState), path # <<>>,
           NEW actor \in Analyst, NEW note \in Note \cup {NoNote}
    PROVE  /\ NewEvents(c, path, actor, note) \in Seq(EventRow)
           /\ Len(NewEvents(c, path, actor, note)) = Len(path)
           /\ Len(path) \in Nat \ {0}
           /\ path[Len(path)] \in CaseState
           /\ NewRow(c, path) \in CaseRow
<1>1. Len(path) \in Nat \ {0} /\ path \in [1..Len(path) -> CaseState]
  BY EmptySeq, LenProperties
<1>2. cases[c] \in CaseRow
  BY RowOfExistingCase
<1> DEFINE e(i) == NewEvents(c, path, actor, note)[i]
<1>3. ASSUME NEW i \in 1..Len(path)
      PROVE  NewEvents(c, path, actor, note)[i] \in EventRow
  <2>1. StateBefore(cases[c].state, path, i) \in CaseState
    BY <1>1, <1>2 DEF StateBefore, CaseRow
  <2>2. cases[c].version + i \in Nat \ {0}
    BY <1>1, <1>2 DEF CaseRow
  <2> QED
    BY <1>1, <2>1, <2>2 DEF NewEvents, EventRow
<1>4. NewEvents(c, path, actor, note) \in [1..Len(path) -> EventRow]
  BY <1>3 DEF NewEvents
<1>5. /\ NewEvents(c, path, actor, note) \in Seq(EventRow)
      /\ Len(NewEvents(c, path, actor, note)) = Len(path)
  BY <1>1, <1>4, SeqDef
<1>6. NewRow(c, path) \in CaseRow
  BY <1>1, <1>2 DEF NewRow, CaseRow
<1> QED
  BY <1>1, <1>5, <1>6

\* The tables stay well-formed under open_case.
LEMMA OpenCaseKeepsInv ==
    ASSUME StoreInv, NEW c \in CaseId, NEW cert \in Certificate, OpenCase(c, cert)
    PROVE  StoreInv'
<1>1. CASE Exists(c)
  BY <1>1 DEF OpenCase, storeVars, StoreInv, StoreTypeOK,
              ProjectionMatchesHistory, RowIsProjection, Exists, Chained
<1>2. CASE ~Exists(c)
  <2>1. /\ cases' = [cases EXCEPT ![c] =
                        [state |-> "OPEN", version |-> 1, certificate |-> cert]]
        /\ events' = [events EXCEPT ![c] = <<OpeningEvent>>]
    BY <1>2 DEF OpenCase, InsertCase
  <2>2. OpeningEvent \in EventRow
    BY DEF OpeningEvent, EventRow, CaseState
  <2>3. StoreTypeOK'
    BY <2>1, <2>2 DEF StoreInv, StoreTypeOK, CaseRow, CaseState
  <2>4. ASSUME NEW d \in CaseId
        PROVE  (RowIsProjection(d) /\ Chained(events[d]))'
    <3>1. CASE d = c
      <4>1. events'[d] = <<OpeningEvent>> /\ Len(events'[d]) = 1
        BY <2>1, <3>1 DEF StoreInv, StoreTypeOK
      <4>2. cases'[d] = [state |-> "OPEN", version |-> 1, certificate |-> cert]
        BY <2>1, <3>1 DEF StoreInv, StoreTypeOK
      <4> QED
        BY <4>1, <4>2 DEF RowIsProjection, Chained, Exists, OpeningEvent
    <3>2. CASE d # c
      <4>1. events'[d] = events[d] /\ cases'[d] = cases[d]
        BY <2>1, <3>2 DEF StoreInv, StoreTypeOK
      <4> QED
        BY <4>1 DEF StoreInv, ProjectionMatchesHistory, RowIsProjection, Chained, Exists
    <3> QED
      BY <3>1, <3>2
  <2> QED
    BY <2>3, <2>4 DEF StoreInv, ProjectionMatchesHistory
<1> QED
  BY <1>1, <1>2

\* What a move does to the case it moves, in the terms later proofs need.
LEMMA MoveEffect ==
    ASSUME StoreInv, NEW c \in CaseId, NEW expected,
           NEW path \in Seq(CaseState),
           NEW actor \in Analyst, NEW note \in Note \cup {NoNote},
           AdvanceOutcome(c, expected, path) = "moved",
           Advance(c, expected, path, actor, note)
    PROVE  /\ Exists(c) /\ cases[c].version = expected
           /\ path # <<>> /\ LegalWalk(cases[c].state, path)
           /\ cases' = [cases EXCEPT ![c] = NewRow(c, path)]
           /\ NewRow(c, path) \in CaseRow
           /\ \A d \in CaseId \ {c} : cases'[d] = cases[d] /\ events'[d] = events[d]
           /\ events' \in [CaseId -> Seq(EventRow)]
           /\ Len(events'[c]) = Len(events[c]) + Len(path)
           /\ \A i \in 1..Len(events[c]) : events'[c][i] = events[c][i]
           /\ \A i \in 1..Len(path) :
                events'[c][Len(events[c]) + i] = NewEvents(c, path, actor, note)[i]
<1> DEFINE new == NewEvents(c, path, actor, note)
<1>1. Exists(c) /\ cases[c].version = expected /\ path # <<>>
         /\ LegalWalk(cases[c].state, path)
  BY DEF AdvanceOutcome
<1>2. /\ cases' = [cases EXCEPT ![c] = NewRow(c, path)]
      /\ events' = [events EXCEPT ![c] = events[c] \o new]
  BY DEF Advance
<1>3. /\ new \in Seq(EventRow) /\ Len(new) = Len(path)
      /\ NewRow(c, path) \in CaseRow
  BY <1>1, NewEventsType DEF StoreInv
<1>4. events[c] \in Seq(EventRow)
  BY DEF StoreInv, StoreTypeOK
<1> HIDE DEF new
<1>5. events'[c] = events[c] \o new
  BY <1>2 DEF StoreInv, StoreTypeOK
<1>6. /\ events[c] \o new \in Seq(EventRow)
      /\ Len(events[c] \o new) = Len(events[c]) + Len(new)
      /\ \A i \in 1 .. Len(events[c]) + Len(new) :
            (events[c] \o new)[i] = IF i <= Len(events[c]) THEN events[c][i]
                                    ELSE new[i - Len(events[c])]
  BY <1>3, <1>4, ConcatProperties
<1>7. Len(events[c]) \in Nat /\ Len(path) \in Nat
  BY <1>3, <1>4, LenProperties
<1>8. /\ Len(events'[c]) = Len(events[c]) + Len(path)
      /\ \A i \in 1..Len(events[c]) : events'[c][i] = events[c][i]
  BY <1>3, <1>5, <1>6, <1>7
<1>9. ASSUME NEW i \in 1..Len(path)
      PROVE  events'[c][Len(events[c]) + i] = new[i]
  <2>1. Len(events[c]) + i \in 1 .. Len(events[c]) + Len(new)
    BY <1>3, <1>7
  <2>2. ~(Len(events[c]) + i <= Len(events[c])) /\ (Len(events[c]) + i) - Len(events[c]) = i
    BY <1>7
  <2> QED
    BY <1>5, <1>6, <2>1, <2>2
<1>10. events' \in [CaseId -> Seq(EventRow)]
  BY <1>2, <1>6 DEF StoreInv, StoreTypeOK
<1>11. \A d \in CaseId \ {c} : cases'[d] = cases[d] /\ events'[d] = events[d]
  BY <1>2 DEF StoreInv, StoreTypeOK
<1> QED
  BY <1>1, <1>2, <1>3, <1>8, <1>9, <1>10, <1>11 DEF new

\* The tables stay well-formed, and the row a projection, under advance.
LEMMA AdvanceKeepsInv ==
    ASSUME StoreInv, NEW c \in CaseId, NEW expected,
           NEW path \in Seq(CaseState),
           NEW actor \in Analyst, NEW note \in Note \cup {NoNote},
           Advance(c, expected, path, actor, note)
    PROVE  StoreInv'
<1>1. CASE AdvanceOutcome(c, expected, path) # "moved"
  BY <1>1 DEF Advance, storeVars, StoreInv, StoreTypeOK,
              ProjectionMatchesHistory, RowIsProjection, Exists, Chained
<1>2. CASE AdvanceOutcome(c, expected, path) = "moved"
  <2> DEFINE old == events[c]
             n   == Len(events[c])
             new == NewEvents(c, path, actor, note)
  <2>1. /\ Exists(c) /\ path # <<>> /\ LegalWalk(cases[c].state, path)
        /\ cases' = [cases EXCEPT ![c] = NewRow(c, path)]
        /\ NewRow(c, path) \in CaseRow
        /\ \A d \in CaseId \ {c} : cases'[d] = cases[d] /\ events'[d] = events[d]
        /\ events' \in [CaseId -> Seq(EventRow)]
        /\ Len(events'[c]) = n + Len(path)
        /\ \A i \in 1..n : events'[c][i] = old[i]
        /\ \A i \in 1..Len(path) : events'[c][n + i] = new[i]
    BY <1>2, MoveEffect
  <2>2. StoreTypeOK'
    BY <2>1 DEF StoreInv, StoreTypeOK
  <2>3. Len(path) \in Nat \ {0} /\ n \in Nat /\ old \in Seq(EventRow)
    BY <2>1, EmptySeq, LenProperties DEF StoreInv, StoreTypeOK
  <2>4. cases[c] \in CaseRow
    BY <2>1, RowOfExistingCase DEF StoreInv
  <2>5. cases[c].version = n /\ n >= 1 /\ cases[c].state = old[n].to /\ Chained(old)
    BY <2>1, <2>3, <2>4 DEF StoreInv, ProjectionMatchesHistory, RowIsProjection, CaseRow
  <2>6. cases'[c] = NewRow(c, path)
    BY <2>1 DEF StoreInv, StoreTypeOK
  <2>7. RowIsProjection(c)'
    <3>1. cases'[c].version = n + Len(path) /\ cases'[c].state = path[Len(path)]
      BY <2>4, <2>5, <2>6 DEF NewRow, CaseRow
    <3>2. Len(path) \in 1..Len(path)
      BY <2>3
    <3>3. events'[c][n + Len(path)] = new[Len(path)]
      BY <2>1, <3>2
    <3>4. new[Len(path)].to = path[Len(path)]
      BY <3>2 DEF NewEvents
    <3> QED
      BY <2>1, <2>3, <3>1, <3>3, <3>4 DEF RowIsProjection, Exists
  <2>8. Chained(events'[c])
    <3> SUFFICES ASSUME NEW i \in 1..(n + Len(path))
                 PROVE  /\ events'[c][i].seq = i
                        /\ IF i = 1
                           THEN events'[c][i].from = "OPEN" /\ events'[c][i].to = "OPEN"
                           ELSE /\ events'[c][i].from = events'[c][i - 1].to
                                /\ events'[c][i].to \in LEGAL_TRANSITIONS[events'[c][i].from]
      BY <2>1 DEF Chained
    <3>1. CASE i <= n
      <4>1. i \in 1..n /\ (i # 1 => i - 1 \in 1..n)
        BY <2>3, <3>1
      <4> QED
        BY <2>1, <2>5, <4>1 DEF Chained
    <3>2. CASE i > n
      <4> DEFINE k == i - n
      <4>1. k \in 1..Len(path) /\ i = n + k /\ i # 1 /\ (k # 1 => k - 1 \in 1..Len(path))
        <5>1. n \in Nat /\ Len(path) \in Nat /\ i \in Nat /\ n >= 1
          BY <2>3, <2>5
        <5> HIDE DEF n
        <5> QED
          BY <3>2, <5>1
      <4>2. events'[c][i] = new[k]
        BY <2>1, <4>1
      <4>3. /\ new[k].seq = i
            /\ new[k].from = StateBefore(cases[c].state, path, k)
            /\ new[k].to = path[k]
        BY <2>5, <4>1 DEF NewEvents
      <4>4. path[k] \in LEGAL_TRANSITIONS[StateBefore(cases[c].state, path, k)]
        BY <2>1, <4>1 DEF LegalWalk
      <4>5. events'[c][i - 1].to = StateBefore(cases[c].state, path, k)
        <5>1. CASE k = 1
          <6>1. i - 1 = n /\ n \in 1..n
            BY <2>3, <2>5, <4>1, <5>1
          <6> QED
            BY <2>1, <2>5, <5>1, <6>1 DEF StateBefore
        <5>2. CASE k # 1
          <6>1. i - 1 = n + (k - 1) /\ k - 1 \in 1..Len(path)
            BY <2>3, <4>1, <5>2
          <6>2. events'[c][i - 1] = new[k - 1]
            BY <2>1, <6>1
          <6> QED
            BY <5>2, <6>1, <6>2 DEF NewEvents, StateBefore
        <5> QED
          BY <5>1, <5>2
      <4> QED
        BY <4>1, <4>2, <4>3, <4>4, <4>5
    <3> QED
      BY <2>3, <3>1, <3>2
  <2>9. ASSUME NEW d \in CaseId
        PROVE  (RowIsProjection(d) /\ Chained(events[d]))'
    <3>1. CASE d = c
      BY <2>7, <2>8, <3>1
    <3>2. CASE d # c
      BY <2>1, <3>2 DEF StoreInv, ProjectionMatchesHistory, RowIsProjection, Exists, Chained
    <3> QED
      BY <3>1, <3>2
  <2> QED
    BY <2>2, <2>9 DEF StoreInv, ProjectionMatchesHistory
<1> QED
  BY <1>1, <1>2

\* open_case adds a case or changes nothing.
LEMMA OpenCaseGrows ==
    ASSUME StoreInv, NEW c \in CaseId, NEW cert \in Certificate, OpenCase(c, cert),
           NEW d \in CaseId
    PROVE  HistoryGrows(d) /\ (Exists(d) => Exists(d)')
<1>1. \A x \in CaseId : Len(events[x]) \in Nat
  BY LenProperties DEF StoreInv, StoreTypeOK
<1>2. CASE Exists(c)
  BY <1>1, <1>2 DEF OpenCase, storeVars, HistoryGrows, Exists
<1>3. CASE ~Exists(c)
  <2>1. /\ cases' = [cases EXCEPT ![c] =
                        [state |-> "OPEN", version |-> 1, certificate |-> cert]]
        /\ events' = [events EXCEPT ![c] = <<OpeningEvent>>]
    BY <1>3 DEF OpenCase, InsertCase
  <2>2. CASE d = c
    <3>1. events[d] = <<>> /\ events'[d] = <<OpeningEvent>>
      BY <1>3, <2>1, <2>2 DEF StoreInv, StoreTypeOK, ProjectionMatchesHistory, RowIsProjection
    <3>2. Len(events[d]) = 0 /\ Len(events'[d]) = 1
      BY <3>1
    <3> QED
      BY <1>3, <2>2, <3>2 DEF HistoryGrows
  <2>3. CASE d # c
    <3>1. events'[d] = events[d] /\ cases'[d] = cases[d]
      BY <2>1, <2>3 DEF StoreInv, StoreTypeOK
    <3> QED
      BY <1>1, <3>1 DEF HistoryGrows, Exists
  <2> QED
    BY <2>2, <2>3
<1> QED
  BY <1>2, <1>3

\* advance lengthens one history or changes nothing.
LEMMA AdvanceGrows ==
    ASSUME StoreInv, NEW c \in CaseId, NEW expected, NEW path \in Seq(CaseState),
           NEW actor \in Analyst, NEW note \in Note \cup {NoNote},
           Advance(c, expected, path, actor, note), NEW d \in CaseId
    PROVE  HistoryGrows(d) /\ (Exists(d) => Exists(d)')
<1>1. \A x \in CaseId : Len(events[x]) \in Nat
  BY LenProperties DEF StoreInv, StoreTypeOK
<1>2. CASE AdvanceOutcome(c, expected, path) # "moved"
  BY <1>1, <1>2 DEF Advance, storeVars, HistoryGrows, Exists
<1>3. CASE AdvanceOutcome(c, expected, path) = "moved"
  <2>1. /\ path # <<>>
        /\ cases' = [cases EXCEPT ![c] = NewRow(c, path)]
        /\ NewRow(c, path) \in CaseRow
        /\ \A x \in CaseId \ {c} : cases'[x] = cases[x] /\ events'[x] = events[x]
        /\ Len(events'[c]) = Len(events[c]) + Len(path)
        /\ \A i \in 1..Len(events[c]) : events'[c][i] = events[c][i]
    BY <1>3, MoveEffect
  <2>2. Len(path) \in Nat
    BY LenProperties
  <2>3. CASE d = c
    <3>1. cases'[c] = NewRow(c, path)
      BY <2>1 DEF StoreInv, StoreTypeOK
    <3>2. cases'[c].certificate = cases[c].certificate /\ Exists(c)'
      BY <2>1, <3>1 DEF NewRow, CaseRow, Exists
    <3>3. Len(events'[c]) >= Len(events[c])
      BY <1>1, <2>1, <2>2
    <3> QED
      BY <2>1, <2>3, <3>2, <3>3 DEF HistoryGrows
  <2>4. CASE d # c
    BY <1>1, <2>1, <2>4 DEF HistoryGrows, Exists
  <2> QED
    BY <2>3, <2>4
<1> QED
  BY <1>2, <1>3

-----------------------------------------------------------------------------
(* Analysts.                                                                *)

\* The inductive invariant: a stale row is harmless because it is a prefix of
\* a history that only grows, so it can only match the version it was read at.
IInv == TypeOK /\ ProjectionMatchesHistory /\ SnapshotsArePrefixes

-----------------------------------------------------------------------------
\* The initial state satisfies the invariant.
LEMMA InitIInv == Init => IInv
<1> SUFFICES ASSUME Init PROVE IInv
  OBVIOUS
<1>1. StoreTypeOK /\ ProjectionMatchesHistory
  BY DEF Init, StoreInit, StoreTypeOK, ProjectionMatchesHistory,
         RowIsProjection, Chained, Exists, AbsentRow
<1>2. /\ held \in [Analyst -> [CaseId -> CaseRow \cup {AbsentRow}]]
      /\ SnapshotsArePrefixes
  BY DEF Init, SnapshotsArePrefixes, HeldRowIsPrefix
<1> QED
  BY <1>1, <1>2 DEF IInv, TypeOK

\* Rows read before a step stay prefixes when the step only lengthens the
\* history, keeps existing cases and does not touch what is held.
LEMMA PrefixesSurviveGrowth ==
    ASSUME IInv, NEW a \in Analyst, NEW c \in CaseId,
           HistoryGrows(c), Exists(c) => Exists(c)', held'[a][c] = held[a][c]
    PROVE  HeldRowIsPrefix(a, c)'
<1>1. CASE held[a][c] = AbsentRow
  BY <1>1 DEF HeldRowIsPrefix
<1>2. CASE held[a][c] # AbsentRow
  <2> DEFINE kept == held[a][c]
  <2>1. /\ Exists(c) /\ kept.version <= Len(events[c])
        /\ kept.state = events[c][kept.version].to
        /\ kept.certificate = cases[c].certificate
    BY <1>2 DEF IInv, SnapshotsArePrefixes, HeldRowIsPrefix
  <2>2. kept \in CaseRow
    BY <1>2 DEF IInv, TypeOK
  <2>3. Len(events[c]) \in Nat
    BY LenProperties DEF IInv, TypeOK, StoreTypeOK
  <2>4. kept.version \in 1..Len(events[c])
    <3>1. kept.version \in Nat \ {0}
      BY <2>2 DEF CaseRow
    <3> QED
      BY <2>1, <2>3, <3>1
  <2>5. events'[c][kept.version] = events[c][kept.version]
    BY <2>4 DEF HistoryGrows
  <2>6. cases'[c].certificate = cases[c].certificate
    BY <2>1 DEF HistoryGrows
  <2>7. kept.version <= Len(events'[c])
    <3>1. 1..Len(events[c]) # {} /\ Len(events'[c]) >= Len(events[c])
      BY <2>4 DEF HistoryGrows
    <3> QED
      BY <2>4, <3>1
  <2> QED
    BY <2>1, <2>5, <2>6, <2>7 DEF HeldRowIsPrefix
<1> QED
  BY <1>1, <1>2

-----------------------------------------------------------------------------
\* The path a client presents is a sequence of states, whichever way it calls,
\* and one of several hops does not escalate.
LEMMA PresentedPath ==
    ASSUME IInv, NEW a \in Analyst, NEW c \in CaseId,
           \/ \E to \in CaseState : Transition(a, c, to)
           \/ \E note \in Note : Resolve(a, c, note)
    PROVE  \E path \in Seq(CaseState), note \in Note \cup {NoNote} :
                /\ Present(a, c, path, note)
                /\ Len(path) > 1 => \A i \in 1..Len(path) : path[i] # "ESCALATED"
<1>1. ASSUME NEW to \in CaseState, Transition(a, c, to)
      PROVE  Present(a, c, <<to>>, NoNote) /\ <<to>> \in Seq(CaseState) /\ Len(<<to>>) = 1
  BY <1>1 DEF Transition
<1>2. ASSUME NEW note \in Note, Resolve(a, c, note)
      PROVE  LET path == PathToResolved(held[a][c].state) IN
             /\ Present(a, c, path, note) /\ path \in Seq(CaseState)
             /\ \A i \in 1..Len(path) : path[i] # "ESCALATED"
  <2>1. held[a][c] \in CaseRow /\ HasRoute(held[a][c].state)
    BY <1>2 DEF Resolve, IInv, TypeOK
  <2>2. held[a][c].state \in CaseState
    BY <2>1 DEF CaseRow
  <2> QED
    BY <1>2, <2>1, <2>2, RouteType DEF Resolve
<1>3. CASE \E to \in CaseState : Transition(a, c, to)
  <2>1. PICK to \in CaseState : Transition(a, c, to)
    BY <1>3
  <2> DEFINE path == <<to>>
  <2>2. Present(a, c, path, NoNote) /\ path \in Seq(CaseState) /\ ~(Len(path) > 1)
    BY <1>1, <2>1
  <2> HIDE DEF path
  <2> QED
    BY <2>2
<1>4. CASE \E note \in Note : Resolve(a, c, note)
  <2>1. PICK note \in Note : Resolve(a, c, note)
    BY <1>4
  <2> DEFINE path == PathToResolved(held[a][c].state)
  <2>2. Present(a, c, path, note) /\ path \in Seq(CaseState)
        /\ \A i \in 1..Len(path) : path[i] # "ESCALATED"
    BY <1>2, <2>1
  <2> HIDE DEF path
  <2> QED
    BY <2>2
<1> QED
  BY <1>3, <1>4

\* Presenting a held version keeps the invariant.
LEMMA PresentKeepsIInv ==
    ASSUME IInv, NEW a \in Analyst, NEW c \in CaseId, NEW path \in Seq(CaseState),
           NEW note \in Note \cup {NoNote}, Present(a, c, path, note)
    PROVE  IInv'
<1> DEFINE moved == AdvanceOutcome(c, held[a][c].version, path) = "moved"
<1>1. /\ StoreInv
      /\ Advance(c, held[a][c].version, path, a, note)
      /\ held' = [held EXCEPT ![a][c] = IF moved THEN NewRow(c, path) ELSE held[a][c]]
      /\ held \in [Analyst -> [CaseId -> CaseRow \cup {AbsentRow}]]
  BY DEF Present, IInv, TypeOK, StoreInv
<1>2. StoreInv'
  BY <1>1, AdvanceKeepsInv
<1>3. moved => /\ cases' = [cases EXCEPT ![c] = NewRow(c, path)]
               /\ NewRow(c, path) \in CaseRow
  BY <1>1, MoveEffect
<1>4. held' \in [Analyst -> [CaseId -> CaseRow \cup {AbsentRow}]]
  BY <1>1, <1>3
<1>5. ASSUME NEW b \in Analyst, NEW d \in CaseId
      PROVE  HeldRowIsPrefix(b, d)'
  <2>1. CASE b = a /\ d = c /\ moved
    <3>1. held'[a][c] = NewRow(c, path) /\ cases'[c] = NewRow(c, path)
      BY <1>1, <1>3, <2>1 DEF StoreInv, StoreTypeOK
    <3>2. Exists(c)' /\ RowIsProjection(c)'
      BY <1>2, <1>3, <2>1, <3>1 DEF CaseRow, Exists, StoreInv, ProjectionMatchesHistory
    <3>3. Len(events'[c]) \in Nat
      BY <1>2, LenProperties DEF StoreInv, StoreTypeOK
    <3> QED
      BY <2>1, <3>1, <3>2, <3>3 DEF HeldRowIsPrefix, RowIsProjection
  <2>2. CASE ~(b = a /\ d = c /\ moved)
    <3>1. held'[b][d] = held[b][d]
      BY <1>1, <2>2
    <3>2. HistoryGrows(d) /\ (Exists(d) => Exists(d)')
      BY <1>1, AdvanceGrows
    <3> QED
      BY <3>1, <3>2, PrefixesSurviveGrowth
  <2> QED
    BY <2>1, <2>2
<1> QED
  BY <1>2, <1>4, <1>5 DEF IInv, TypeOK, StoreInv, SnapshotsArePrefixes

\* Every step keeps the invariant.
LEMMA NextIInv == IInv /\ [Next]_vars => IInv'
<1> SUFFICES ASSUME IInv, [Next]_vars PROVE IInv'
  OBVIOUS
<1>0. StoreInv
  BY DEF IInv, TypeOK, StoreInv
<1>1. ASSUME NEW c \in CaseId, NEW cert \in Certificate, PipelineOpens(c, cert)
      PROVE  IInv'
  <2>1. OpenCase(c, cert) /\ held' = held
    BY <1>1 DEF PipelineOpens
  <2>2. StoreInv'
    BY <1>0, <2>1, OpenCaseKeepsInv
  <2>3. ASSUME NEW b \in Analyst, NEW d \in CaseId
        PROVE  HeldRowIsPrefix(b, d)'
    <3>1. HistoryGrows(d) /\ (Exists(d) => Exists(d)')
      BY <1>0, <2>1, OpenCaseGrows
    <3> QED
      BY <2>1, <3>1, PrefixesSurviveGrowth
  <2> QED
    BY <2>1, <2>2, <2>3 DEF IInv, TypeOK, StoreInv, SnapshotsArePrefixes
<1>2. ASSUME NEW a \in Analyst, NEW c \in CaseId, Read(a, c)
      PROVE  IInv'
  <2>1. /\ Exists(c) /\ cases[c] \in CaseRow
        /\ held' = [held EXCEPT ![a][c] = cases[c]]
        /\ cases' = cases /\ events' = events
        /\ held \in [Analyst -> [CaseId -> CaseRow \cup {AbsentRow}]]
    BY <1>0, <1>2, RowOfExistingCase DEF Read, storeVars, StoreInv, IInv, TypeOK
  <2>2. StoreInv'
    BY <1>0, <2>1 DEF StoreInv, StoreTypeOK, ProjectionMatchesHistory,
                      RowIsProjection, Chained, Exists
  <2>3. ASSUME NEW b \in Analyst, NEW d \in CaseId
        PROVE  HeldRowIsPrefix(b, d)'
    <3>1. CASE b = a /\ d = c
      <4>1. held'[a][c] = cases[c] /\ RowIsProjection(c) /\ Len(events[c]) \in Nat
        BY <1>0, <2>1, LenProperties DEF StoreInv, StoreTypeOK, ProjectionMatchesHistory
      <4> QED
        BY <2>1, <3>1, <4>1 DEF HeldRowIsPrefix, RowIsProjection, Exists
    <3>2. CASE ~(b = a /\ d = c)
      BY <2>1, <3>2 DEF IInv, SnapshotsArePrefixes, HeldRowIsPrefix, Exists
    <3> QED
      BY <3>1, <3>2
  <2>4. held' \in [Analyst -> [CaseId -> CaseRow \cup {AbsentRow}]]
    BY <2>1
  <2> QED
    BY <2>2, <2>3, <2>4 DEF IInv, TypeOK, StoreInv, SnapshotsArePrefixes
<1>3. ASSUME NEW a \in Analyst, NEW c \in CaseId,
             \/ \E to \in CaseState : Transition(a, c, to)
             \/ \E note \in Note : Resolve(a, c, note)
      PROVE  IInv'
  BY <1>3, PresentedPath, PresentKeepsIInv
<1>4. CASE UNCHANGED vars
  BY <1>4 DEF vars, IInv, TypeOK, StoreTypeOK, ProjectionMatchesHistory, RowIsProjection,
              Chained, Exists, SnapshotsArePrefixes, HeldRowIsPrefix
<1> QED
  BY <1>1, <1>2, <1>3, <1>4 DEF Next

\* The state invariants of Cases hold in every reachable state.
THEOREM StoreIsSound ==
    Spec => [](TypeOK /\ ProjectionMatchesHistory /\ SnapshotsArePrefixes)
<1>1. IInv => TypeOK /\ ProjectionMatchesHistory /\ SnapshotsArePrefixes
  BY DEF IInv
<1> QED
  BY <1>1, InitIInv, NextIInv, PTL DEF Spec

-----------------------------------------------------------------------------
\* No step removes or rewrites an event or a certificate.
LEMMA StepGrows ==
    ASSUME IInv, [Next]_vars, NEW d \in CaseId
    PROVE  HistoryGrows(d)
<1>1. StoreInv
  BY DEF IInv, TypeOK, StoreInv
<1>2. CASE UNCHANGED <<cases, events>>
  <2>1. Len(events[d]) \in Nat
    BY <1>1, LenProperties DEF StoreInv, StoreTypeOK
  <2> QED
    BY <1>2, <2>1 DEF HistoryGrows
<1>3. ASSUME NEW c \in CaseId, NEW cert \in Certificate, PipelineOpens(c, cert)
      PROVE  HistoryGrows(d)
  BY <1>1, <1>3, OpenCaseGrows DEF PipelineOpens
<1>4. ASSUME NEW a \in Analyst, NEW c \in CaseId, NEW path \in Seq(CaseState),
             NEW note \in Note \cup {NoNote}, Present(a, c, path, note)
      PROVE  HistoryGrows(d)
  BY <1>1, <1>4, AdvanceGrows DEF Present
<1> QED
  BY <1>2, <1>3, <1>4, PresentedPath DEF Next, Read, vars, storeVars

\* The case history is append-only, and a case keeps its first certificate.
THEOREM HistoryIsAppendOnly == Spec => HistoryAppendOnly
<1>1. IInv /\ [Next]_vars => [\A c \in CaseId : HistoryGrows(c)]_vars
  BY StepGrows
<1> QED
  BY <1>1, InitIInv, NextIInv, PTL DEF Spec, HistoryAppendOnly

\* Where the row held matches the store's version, it is the store's row.
LEMMA VersionIdentifiesRow ==
    ASSUME IInv, NEW a \in Analyst, NEW c \in CaseId, Exists(c),
           held[a][c] # AbsentRow, held[a][c].version = cases[c].version
    PROVE  held[a][c] = cases[c]
<1>1. /\ held[a][c] \in CaseRow /\ cases[c] \in CaseRow
      /\ held[a][c].state = events[c][held[a][c].version].to
      /\ held[a][c].certificate = cases[c].certificate
  BY RowOfExistingCase DEF IInv, TypeOK, SnapshotsArePrefixes, HeldRowIsPrefix
<1>2. cases[c].version = Len(events[c]) /\ cases[c].state = events[c][Len(events[c])].to
  BY DEF IInv, ProjectionMatchesHistory, RowIsProjection
<1> QED
  BY <1>1, <1>2 DEF CaseRow

\* No step loses an update: see NoLostUpdate.
LEMMA StepMovesCurrentRow ==
    ASSUME IInv, [Next]_vars, NEW d \in CaseId
    PROVE  MovedFromCurrentRow(d)
<1> SUFFICES ASSUME Exists(d), cases'[d] # cases[d]
             PROVE  \E a \in Analyst : /\ held[a][d] = cases[d]
                                       /\ events'[d][Len(events'[d])].actor = a
  BY DEF MovedFromCurrentRow
<1>1. StoreInv
  BY DEF IInv, TypeOK, StoreInv
<1>2. ASSUME NEW c \in CaseId, NEW cert \in Certificate, PipelineOpens(c, cert)
      PROVE  FALSE
  <2>1. CASE c = d
    BY <1>2, <2>1 DEF PipelineOpens, OpenCase, storeVars
  <2>2. CASE c # d
    BY <1>1, <1>2, <2>2 DEF PipelineOpens, OpenCase, InsertCase, storeVars, StoreInv, StoreTypeOK
  <2> QED
    BY <2>1, <2>2
<1>3. ASSUME NEW a \in Analyst, NEW c \in CaseId, NEW path \in Seq(CaseState),
             NEW note \in Note \cup {NoNote}, Present(a, c, path, note)
      PROVE  held[a][d] = cases[d] /\ events'[d][Len(events'[d])].actor = a
  <2>1. /\ held[a][c] # AbsentRow
        /\ Advance(c, held[a][c].version, path, a, note)
    BY <1>3 DEF Present
  <2>2. AdvanceOutcome(c, held[a][c].version, path) = "moved"
    BY <2>1 DEF Advance, storeVars
  <2>3. /\ Exists(c) /\ cases[c].version = held[a][c].version /\ path # <<>>
        /\ \A x \in CaseId \ {c} : cases'[x] = cases[x]
        /\ Len(events'[c]) = Len(events[c]) + Len(path)
        /\ \A i \in 1..Len(path) :
              events'[c][Len(events[c]) + i] = NewEvents(c, path, a, note)[i]
    BY <1>1, <2>1, <2>2, MoveEffect
  <2>4. c = d
    BY <2>3
  <2>5. held[a][d] = cases[d]
    BY <2>1, <2>3, <2>4, VersionIdentifiesRow
  <2>6. Len(path) \in 1..Len(path)
    BY <2>3, EmptySeq, LenProperties
  <2>7. events'[d][Len(events'[d])] = NewEvents(c, path, a, note)[Len(path)]
    BY <2>3, <2>4, <2>6
  <2> QED
    BY <2>5, <2>6, <2>7 DEF NewEvents
<1> QED
  BY <1>2, <1>3, PresentedPath DEF Next, Read, vars, storeVars

\* Of several analysts holding one version, one wins and the others change nothing.
THEOREM NoUpdateIsLost == Spec => NoLostUpdate
<1>1. IInv /\ [Next]_vars => [\A c \in CaseId : MovedFromCurrentRow(c)]_vars
  BY StepMovesCurrentRow
<1> QED
  BY <1>1, InitIInv, NextIInv, PTL DEF Spec, NoLostUpdate

\* What a step does to the tables: nothing, open one case, or move one case
\* along a path it presents.
LEMMA StepOnStore ==
    ASSUME IInv, [Next]_vars
    PROVE  \/ UNCHANGED storeVars
           \/ \E c \in CaseId, cert \in Certificate : ~Exists(c) /\ InsertCase(c, cert)
           \/ \E a \in Analyst, c \in CaseId, path \in Seq(CaseState),
                 note \in Note \cup {NoNote} :
                /\ AdvanceOutcome(c, held[a][c].version, path) = "moved"
                /\ Advance(c, held[a][c].version, path, a, note)
                /\ Len(path) > 1 => \A i \in 1..Len(path) : path[i] # "ESCALATED"
<1>1. ASSUME NEW c \in CaseId, NEW cert \in Certificate, PipelineOpens(c, cert)
      PROVE  UNCHANGED storeVars \/ (~Exists(c) /\ InsertCase(c, cert))
  BY <1>1 DEF PipelineOpens, OpenCase
<1>2. ASSUME NEW a \in Analyst, NEW c \in CaseId, NEW path \in Seq(CaseState),
             NEW note \in Note \cup {NoNote}, Present(a, c, path, note)
      PROVE  /\ Advance(c, held[a][c].version, path, a, note)
             /\ AdvanceOutcome(c, held[a][c].version, path) # "moved" => UNCHANGED storeVars
  BY <1>2 DEF Present, Advance
<1>3. ASSUME NEW a \in Analyst, NEW c \in CaseId,
             \/ \E to \in CaseState : Transition(a, c, to)
             \/ \E note \in Note : Resolve(a, c, note)
      PROVE  \/ UNCHANGED storeVars
             \/ \E path \in Seq(CaseState), note \in Note \cup {NoNote} :
                  /\ AdvanceOutcome(c, held[a][c].version, path) = "moved"
                  /\ Advance(c, held[a][c].version, path, a, note)
                  /\ Len(path) > 1 => \A i \in 1..Len(path) : path[i] # "ESCALATED"
  <2>1. PICK path \in Seq(CaseState), note \in Note \cup {NoNote} :
                /\ Present(a, c, path, note)
                /\ Len(path) > 1 => \A i \in 1..Len(path) : path[i] # "ESCALATED"
    BY <1>3, PresentedPath
  <2> QED
    BY <2>1, <1>2
<1>4. (\E a \in Analyst, c \in CaseId : Read(a, c)) \/ UNCHANGED vars => UNCHANGED storeVars
  BY DEF Read, vars, storeVars
<1> QED
  BY <1>1, <1>3, <1>4 DEF Next

\* A move writes the hops of its path, in their order, behind the history.
LEMMA StepRecordsPath ==
    ASSUME IInv, [Next]_vars, NEW d \in CaseId, Len(events'[d]) > Len(events[d]) + 1
    PROVE  \A i \in (Len(events[d]) + 1)..Len(events'[d]) : events'[d][i].to # "ESCALATED"
<1>1. StoreInv /\ Len(events[d]) \in Nat
  BY LenProperties DEF IInv, TypeOK, StoreInv, StoreTypeOK
<1>2. CASE UNCHANGED storeVars
  BY <1>1, <1>2 DEF storeVars
<1>3. ASSUME NEW c \in CaseId, NEW cert \in Certificate, ~Exists(c), InsertCase(c, cert)
      PROVE  FALSE
  <2>1. events'[d] = IF d = c THEN <<OpeningEvent>> ELSE events[d]
    BY <1>1, <1>3 DEF InsertCase, StoreInv, StoreTypeOK
  <2>2. Len(<<OpeningEvent>>) = 1
    OBVIOUS
  <2> QED
    BY <1>1, <2>1, <2>2
<1>4. ASSUME NEW a \in Analyst, NEW c \in CaseId, NEW path \in Seq(CaseState),
             NEW note \in Note \cup {NoNote},
             AdvanceOutcome(c, held[a][c].version, path) = "moved",
             Advance(c, held[a][c].version, path, a, note),
             Len(path) > 1 => \A i \in 1..Len(path) : path[i] # "ESCALATED"
      PROVE  \A i \in (Len(events[d]) + 1)..Len(events'[d]) : events'[d][i].to # "ESCALATED"
  <2>1. /\ \A x \in CaseId \ {c} : events'[x] = events[x]
        /\ Len(events'[c]) = Len(events[c]) + Len(path)
        /\ \A i \in 1..Len(path) :
              events'[c][Len(events[c]) + i] = NewEvents(c, path, a, note)[i]
    BY <1>1, <1>4, MoveEffect
  <2>2. d = c /\ Len(path) \in Nat /\ Len(path) > 1
    BY <1>1, <2>1, LenProperties
  <2> SUFFICES ASSUME NEW i \in (Len(events[d]) + 1)..Len(events'[d])
               PROVE  events'[d][i].to # "ESCALATED"
    OBVIOUS
  <2>3. i - Len(events[d]) \in 1..Len(path) /\ Len(events[d]) + (i - Len(events[d])) = i
    BY <1>1, <2>1, <2>2
  <2>4. events'[d][i].to = path[i - Len(events[d])]
    <3>1. events'[d][i] = NewEvents(c, path, a, note)[i - Len(events[d])]
      BY <2>1, <2>2, <2>3
    <3> QED
      BY <2>3, <3>1 DEF NewEvents
  <2> QED
    BY <1>4, <2>2, <2>3, <2>4
<1> QED
  BY <1>2, <1>3, <1>4, StepOnStore

(***************************************************************************)
(* The one-click route never escalates: a move of several hops, from any   *)
(* state a screen may show, records no ESCALATED (path_to).                *)
(***************************************************************************)
THEOREM RouteDoesNotEscalate == Spec => NoSilentEscalation
<1>1. IInv /\ [Next]_vars =>
          [\A c \in CaseId :
              Len(events'[c]) > Len(events[c]) + 1 =>
                  \A i \in (Len(events[c]) + 1)..Len(events'[c]) :
                      events'[c][i].to # "ESCALATED"]_vars
  BY StepRecordsPath
<1> QED
  BY <1>1, InitIInv, NextIInv, PTL DEF Spec, NoSilentEscalation

-----------------------------------------------------------------------------
(* The store implements CaseHistory.                                        *)

Histories == [c \in CaseId |-> StateLog(events[c])]

\* An existing case's row and history agree.
LEMMA HistoryOfExistingCase ==
    ASSUME StoreInv, NEW c \in CaseId, Exists(c)
    PROVE  /\ cases[c] \in CaseRow
           /\ events[c] \in Seq(EventRow) /\ Len(events[c]) \in Nat
           /\ cases[c].version = Len(events[c]) /\ Len(events[c]) >= 1
           /\ cases[c].state = events[c][Len(events[c])].to
           /\ Chained(events[c])
<1>1. cases[c] \in CaseRow
  BY RowOfExistingCase DEF StoreInv
<1>2. events[c] \in Seq(EventRow) /\ Len(events[c]) \in Nat
  BY LenProperties DEF StoreInv, StoreTypeOK
<1> QED
  BY <1>1, <1>2 DEF StoreInv, ProjectionMatchesHistory, RowIsProjection, CaseRow

\* The states of a history: as many as it has events, each where its event leads.
LEMMA StatesOfEvents ==
    ASSUME NEW s \in Seq(EventRow)
    PROVE  /\ Len(StateLog(s)) = Len(s)
           /\ \A i \in 1..Len(s) : StateLog(s)[i] = s[i].to
           /\ StateLog(s) = <<>> <=> s = <<>>
<1>1. Len(s) \in Nat /\ s \in [1..Len(s) -> EventRow]
  BY LenProperties
<1>2. \A i \in 1..Len(s) : s[i].to \in CaseState
  BY <1>1 DEF EventRow
<1>3. StateLog(s) \in [1..Len(s) -> CaseState]
  BY <1>2 DEF StateLog
<1>4. StateLog(s) \in Seq(CaseState) /\ Len(StateLog(s)) = Len(s)
  BY <1>1, <1>3, SeqDef
<1> QED
  BY <1>4, EmptySeq DEF StateLog

\* Opening a case opens its history.
LEMMA InsertOpens ==
    ASSUME StoreInv, NEW c \in CaseId, NEW cert \in Certificate, ~Exists(c), InsertCase(c, cert)
    PROVE  LinearHistory!Open(c)
<1>1. events[c] = <<>> /\ events \in [CaseId -> Seq(EventRow)]
  BY DEF StoreInv, StoreTypeOK, ProjectionMatchesHistory, RowIsProjection
<1>2. StateLog(<<>>) = <<>> /\ StateLog(<<OpeningEvent>>) = <<"OPEN">>
  BY DEF StateLog, OpeningEvent
<1>3. events' = [events EXCEPT ![c] = <<OpeningEvent>>]
  BY DEF InsertCase
<1>4. [d \in CaseId |-> StateLog(events'[d])]
        = [[d \in CaseId |-> StateLog(events[d])] EXCEPT ![c] = <<"OPEN">>]
  BY <1>1, <1>2, <1>3
<1>5. [d \in CaseId |-> StateLog(events[d])][c] = <<>>
  BY <1>1, <1>2
<1> QED
  BY <1>4, <1>5 DEF LinearHistory!Open

\* Moving a case along a path extends its history by a walk.
LEMMA MoveExtends ==
    ASSUME StoreInv, StoreInv', NEW c \in CaseId, Exists(c), HistoryGrows(c),
           Len(events'[c]) > Len(events[c]),
           \A d \in CaseId \ {c} : events'[d] = events[d]
    PROVE  LinearHistory!Extend(c)
<1> DEFINE old == events[c]
           new == events'[c]
           E   == {e \in CaseState \X CaseState : e[2] \in LEGAL_TRANSITIONS[e[1]]}
<1>1. /\ old \in Seq(EventRow) /\ Len(old) \in Nat /\ Len(old) >= 1
      /\ new \in Seq(EventRow) /\ Len(new) \in Nat /\ Len(new) > Len(old)
      /\ \A i \in 1..Len(old) : new[i] = old[i]
      /\ Chained(new)
  BY HistoryOfExistingCase, LenProperties
     DEF StoreInv, StoreTypeOK, HistoryGrows, ProjectionMatchesHistory
<1>2. /\ Len(StateLog(old)) = Len(old) /\ Len(StateLog(new)) = Len(new)
      /\ \A i \in 1..Len(old) : StateLog(old)[i] = old[i].to
      /\ \A i \in 1..Len(new) : StateLog(new)[i] = new[i].to
      /\ StateLog(old) # <<>>
  BY <1>1, StatesOfEvents, EmptySeq
<1>3. \A i \in 1..Len(old) : StateLog(new)[i] = StateLog(old)[i]
  BY <1>1, <1>2
<1>4. ASSUME NEW i \in (Len(old) + 1)..Len(new)
      PROVE  <<StateLog(new)[i - 1], StateLog(new)[i]>> \in E
  <2>1. i \in 1..Len(new) /\ i - 1 \in 1..Len(new) /\ i # 1
    BY <1>1
  <2>2. new[i] \in EventRow /\ new[i - 1] \in EventRow
    BY <1>1, <2>1, LenProperties
  <2>3. new[i].from = new[i - 1].to /\ new[i].to \in LEGAL_TRANSITIONS[new[i].from]
    BY <1>1, <2>1 DEF Chained
  <2> QED
    BY <1>2, <2>1, <2>2, <2>3 DEF EventRow
<1> HIDE DEF E
<1>5. LinearHistory!Extends(StateLog(new), StateLog(old))
  BY <1>1, <1>2, <1>3, <1>4 DEF LinearHistory!Extends, E
<1>6. \A d \in CaseId \ {c} : StateLog(events'[d]) = StateLog(events[d])
  OBVIOUS
<1>7. [d \in CaseId |-> StateLog(events'[d])]
        = [[d \in CaseId |-> StateLog(events[d])] EXCEPT ![c] = StateLog(new)]
  BY <1>6
<1> QED
  BY <1>5, <1>7 DEF LinearHistory!Extend

LEMMA HistoryStarts == Init => LinearHistory!Init
<1>1. StateLog(<<>>) = <<>>
  BY DEF StateLog
<1> QED
  BY <1>1 DEF Init, StoreInit, LinearHistory!Init

LEMMA HistoryStep ==
    ASSUME IInv, IInv', [Next]_vars
    PROVE  [LinearHistory!Next]_Histories
<1>0. StoreInv /\ StoreInv'
  BY DEF IInv, TypeOK, StoreInv
<1>1. CASE UNCHANGED storeVars
  BY <1>1 DEF storeVars, Histories
<1>2. ASSUME NEW c \in CaseId, NEW cert \in Certificate, ~Exists(c), InsertCase(c, cert)
      PROVE  LinearHistory!Next
  BY <1>0, <1>2, InsertOpens DEF LinearHistory!Next
<1>3. ASSUME NEW a \in Analyst, NEW c \in CaseId, NEW path \in Seq(CaseState),
             NEW note \in Note \cup {NoNote},
             AdvanceOutcome(c, held[a][c].version, path) = "moved",
             Advance(c, held[a][c].version, path, a, note)
      PROVE  LinearHistory!Next
  <2>1. /\ Exists(c) /\ path # <<>> /\ Len(events'[c]) = Len(events[c]) + Len(path)
        /\ \A d \in CaseId \ {c} : events'[d] = events[d]
    BY <1>0, <1>3, MoveEffect
  <2>2. HistoryGrows(c)
    BY <1>0, <1>3, AdvanceGrows
  <2>3. Len(path) \in Nat \ {0} /\ Len(events[c]) \in Nat
    BY <1>0, <2>1, EmptySeq, LenProperties DEF StoreInv, StoreTypeOK
  <2>4. LinearHistory!Extend(c)
    BY <1>0, <2>1, <2>2, <2>3, MoveExtends
  <2> QED
    BY <2>4 DEF LinearHistory!Next
<1> QED
  BY <1>1, <1>2, <1>3, StepOnStore

(***************************************************************************)
(* Seen through the states of its events, the store is a CaseHistory: each *)
(* case has one history, grown by whole walks along declared edges and by  *)
(* nothing else, whatever versions its callers held.                       *)
(***************************************************************************)
THEOREM StoreImplementsHistory == Spec => ImplementsHistory
<1>1. Init => LinearHistory!Init
  BY HistoryStarts
<1>2. ASSUME IInv, IInv', [Next]_vars
      PROVE  [LinearHistory!Next]_Histories
  BY <1>2, HistoryStep
<1> QED
  BY <1>1, <1>2, InitIInv, NextIInv, PTL
     DEF Spec, ImplementsHistory, LinearHistory!Spec, Histories

-----------------------------------------------------------------------------
(* The reader.                                                              *)

\* What the reader holds, in the order it read it: events, row, events again.
\* Each is a prefix of the one read after it.
LogRead == step # "idle" => IsPrefixOfHistory(log)

RowRead ==
    step \in {"held", "relogRead", "verified", "refused"} =>
        /\ row \in CaseRow
        /\ Len(log) <= row.version
        /\ row.version <= Len(events[target])
        /\ row.state = events[target][row.version].to

RelogRead ==
    step = "relogRead" => IsPrefixOfHistory(relog) /\ row.version <= Len(relog)

VerifiedWhole ==
    step = "verified" =>
        /\ row.version = Len(log) /\ Len(log) >= 1
        /\ row.certificate = cases[target].certificate

ReaderInv == ReaderTypeOK /\ ProjectionMatchesHistory /\ LogRead /\ RowRead /\ RelogRead /\ VerifiedWhole

-----------------------------------------------------------------------------
LEMMA ReaderStarts == ReaderInit => ReaderInv
<1> SUFFICES ASSUME ReaderInit PROVE ReaderInv
  OBVIOUS
<1>1. StoreTypeOK /\ ProjectionMatchesHistory
  BY DEF ReaderInit, StoreInit, StoreTypeOK, ProjectionMatchesHistory,
         RowIsProjection, Chained, Exists, AbsentRow
<1>2. ReaderTypeOK
  BY <1>1, EmptySeq DEF ReaderInit, ReaderTypeOK, Step
<1> QED
  BY <1>1, <1>2 DEF ReaderInit, ReaderInv, LogRead, RowRead, RelogRead, VerifiedWhole

\* Analysts and the pipeline lengthen histories under the reader's hands; what
\* it has read stays a prefix.
LEMMA StoreStepKeepsReader ==
    ASSUME ReaderInv, StoreInv', \A c \in CaseId : HistoryGrows(c) /\ (Exists(c) => Exists(c)'),
           UNCHANGED readerVars
    PROVE  ReaderInv'
<1>1. /\ target \in CaseId /\ target' = target /\ step' = step /\ log' = log
      /\ row' = row /\ relog' = relog
      /\ Len(events[target]) \in Nat /\ Len(events'[target]) \in Nat
  BY LenProperties DEF ReaderInv, ReaderTypeOK, StoreTypeOK, StoreInv, readerVars
<1>2. /\ Len(events'[target]) >= Len(events[target])
      /\ \A i \in 1..Len(events[target]) : events'[target][i] = events[target][i]
      /\ Exists(target) => cases'[target].certificate = cases[target].certificate
  BY <1>1 DEF HistoryGrows
<1>3. ASSUME NEW s \in Seq(EventRow), IsPrefixOfHistory(s)
      PROVE  /\ Len(s) <= Len(events'[target])
             /\ \A i \in 1..Len(s) : s[i] = events'[target][i]
  <2>1. Len(s) \in Nat
    BY LenProperties
  <2> QED
    BY <1>1, <1>2, <1>3, <2>1 DEF IsPrefixOfHistory
<1>4. log \in Seq(EventRow) /\ relog \in Seq(EventRow)
  BY DEF ReaderInv, ReaderTypeOK
<1>5. LogRead' /\ RelogRead'
  BY <1>1, <1>3, <1>4 DEF ReaderInv, LogRead, RelogRead, IsPrefixOfHistory
<1>6. RowRead'
  BY <1>1, <1>2 DEF ReaderInv, RowRead, CaseRow
<1>7. VerifiedWhole'
  <2>1. step = "verified" => Exists(target)
    <3> SUFFICES ASSUME step = "verified" PROVE Exists(target)
      OBVIOUS
    <3>1. Len(events[target]) >= 1
      BY <1>1, LenProperties, <1>4 DEF ReaderInv, VerifiedWhole, LogRead, IsPrefixOfHistory
    <3> QED
      BY <1>1, <3>1 DEF ReaderInv, ProjectionMatchesHistory, RowIsProjection
  <2> QED
    BY <1>1, <1>2, <2>1 DEF ReaderInv, VerifiedWhole
<1>8. ReaderTypeOK'
  BY <1>1 DEF ReaderInv, ReaderTypeOK, StoreInv
<1> QED
  BY <1>5, <1>6, <1>7, <1>8 DEF ReaderInv, StoreInv

\* A verify that finds its snapshot unchanged found it whole.
LEMMA MatchingSnapshotIsCurrent ==
    ASSUME ReaderInv, step = "relogRead", SnapshotMatches
    PROVE  /\ events[target] = log /\ cases[target] = row
           /\ row.version = Len(log) /\ Len(log) >= 1
<1>1. relog = log /\ cases[target] = row
  BY DEF SnapshotMatches
<1>2. /\ target \in CaseId /\ StoreInv /\ log \in Seq(EventRow) /\ Len(log) \in Nat
      /\ row \in CaseRow /\ Len(log) <= row.version /\ row.version <= Len(relog)
      /\ \A i \in 1..Len(log) : log[i] = events[target][i]
  BY LenProperties DEF ReaderInv, ReaderTypeOK, StoreInv, RowRead, RelogRead, LogRead, IsPrefixOfHistory
<1>3. Exists(target)
  BY <1>1, <1>2 DEF Exists, CaseRow
<1>4. /\ cases[target].version = Len(events[target]) /\ Len(events[target]) >= 1
      /\ events[target] \in Seq(EventRow) /\ Len(events[target]) \in Nat
  BY <1>2, <1>3, HistoryOfExistingCase
<1>5. row.version = Len(log) /\ Len(events[target]) = Len(log)
  BY <1>1, <1>2, <1>4 DEF CaseRow
<1>6. events[target] = log
  BY <1>2, <1>4, <1>5, SeqEqual
<1> QED
  BY <1>1, <1>4, <1>5, <1>6

LEMMA ReaderStepKeepsInv == ReaderInv /\ [ReaderNext]_snapshotVars => ReaderInv'
<1> SUFFICES ASSUME ReaderInv, [ReaderNext]_snapshotVars PROVE ReaderInv'
  OBVIOUS
<1>0. StoreInv
  BY DEF ReaderInv, ReaderTypeOK, StoreInv
<1>1. ASSUME NEW c \in CaseId, NEW cert \in Certificate, Opens(c, cert)
      PROVE  ReaderInv'
  BY <1>0, <1>1, OpenCaseKeepsInv, OpenCaseGrows, StoreStepKeepsReader DEF Opens
<1>2. ASSUME NEW a \in Analyst, NEW c \in CaseId, NEW to \in CaseState, Moves(a, c, to)
      PROVE  ReaderInv'
  <2>1. <<to>> \in Seq(CaseState)
    OBVIOUS
  <2> QED
    BY <1>0, <1>2, <2>1, AdvanceKeepsInv, AdvanceGrows, StoreStepKeepsReader DEF Moves
<1>3. ASSUME NEW c \in CaseId, ReadLog(c) PROVE ReaderInv'
  <2>1. events[c] \in Seq(EventRow) /\ Len(events[c]) \in Nat
    BY <1>0, LenProperties DEF StoreInv, StoreTypeOK
  <2> QED
    BY <1>0, <1>3, <2>1 DEF ReadLog, ReaderInv, ReaderTypeOK, StoreTypeOK, Step, ProjectionMatchesHistory,
       RowIsProjection, Exists, Chained, LogRead, RowRead, RelogRead, VerifiedWhole,
       IsPrefixOfHistory
<1>4. CASE ReadRow
  <2>1. Exists(target) => /\ cases[target] \in CaseRow
                          /\ cases[target].version = Len(events[target])
                          /\ cases[target].state = events[target][Len(events[target])].to
                          /\ Len(events[target]) \in Nat
    BY <1>0, HistoryOfExistingCase DEF ReaderInv, ReaderTypeOK
  <2>2. cases[target] \in CaseRow \cup {AbsentRow}
    BY <1>0 DEF StoreInv, StoreTypeOK, ReaderInv, ReaderTypeOK
  <2> QED
    BY <1>4, <2>1, <2>2 DEF ReadRow, ReaderInv, ReaderTypeOK, StoreTypeOK, Step, ProjectionMatchesHistory,
       RowIsProjection, Exists, Chained, LogRead, RowRead, RelogRead, VerifiedWhole,
       IsPrefixOfHistory
<1>5. CASE VerifyLog
  <2>1. events[target] \in Seq(EventRow) /\ Len(events[target]) \in Nat
    BY <1>0, LenProperties DEF StoreInv, StoreTypeOK, ReaderInv, ReaderTypeOK
  <2> QED
    BY <1>5, <2>1 DEF VerifyLog, ReaderInv, ReaderTypeOK, StoreTypeOK, Step, ProjectionMatchesHistory,
       RowIsProjection, Exists, Chained, LogRead, RowRead, RelogRead, VerifiedWhole,
       IsPrefixOfHistory
<1>6. CASE VerifyRow
  <2>1. SnapshotMatches => /\ cases[target] = row
                           /\ row.version = Len(log) /\ Len(log) >= 1
    BY <1>6, MatchingSnapshotIsCurrent DEF VerifyRow
  <2> QED
    BY <1>6, <2>1 DEF VerifyRow, ReaderInv, ReaderTypeOK, StoreTypeOK, Step, ProjectionMatchesHistory,
       RowIsProjection, Exists, Chained, LogRead, RowRead, RelogRead, VerifiedWhole,
       IsPrefixOfHistory
<1>7. CASE Drop
  BY <1>7, EmptySeq DEF Drop, ReaderInv, ReaderTypeOK, StoreTypeOK, Step, ProjectionMatchesHistory,
     RowIsProjection, Exists, Chained, LogRead, RowRead, RelogRead, VerifiedWhole,
     IsPrefixOfHistory
<1>8. CASE UNCHANGED snapshotVars
  BY <1>8 DEF snapshotVars, ReaderInv, ReaderTypeOK, StoreTypeOK, Step, ProjectionMatchesHistory,
     RowIsProjection, Exists, Chained, LogRead, RowRead, RelogRead, VerifiedWhole,
     IsPrefixOfHistory
<1> QED
  BY <1>1, <1>2, <1>3, <1>4, <1>5, <1>6, <1>7, <1>8 DEF ReaderNext

-----------------------------------------------------------------------------
\* A verified history that ends in RESOLVED has not grown: no edge leaves
\* RESOLVED, so no event can follow it.
LEMMA VerifiedResolutionHolds ==
    ASSUME ReaderInv PROVE VerifiedResolutionStands
<1> SUFFICES ASSUME step = "verified", log[Len(log)].to = "RESOLVED"
             PROVE  events[target] = log /\ cases[target] = row
  BY DEF VerifiedResolutionStands
<1> DEFINE n == Len(log)
<1>1. /\ StoreInv /\ target \in CaseId /\ log \in Seq(EventRow) /\ n \in Nat /\ n >= 1
      /\ Len(events[target]) \in Nat /\ events[target] \in Seq(EventRow)
      /\ n <= Len(events[target]) /\ \A i \in 1..n : log[i] = events[target][i]
      /\ row \in CaseRow /\ row.version = n
      /\ row.state = events[target][n].to
      /\ row.certificate = cases[target].certificate
  BY LenProperties DEF ReaderInv, ReaderTypeOK, StoreInv, StoreTypeOK, VerifiedWhole, RowRead, LogRead,
                       IsPrefixOfHistory
<1>2. Exists(target)
  BY <1>1 DEF ReaderInv, ProjectionMatchesHistory, RowIsProjection
<1>3. /\ cases[target] \in CaseRow /\ Chained(events[target])
      /\ cases[target].version = Len(events[target])
      /\ cases[target].state = events[target][Len(events[target])].to
  BY <1>1, <1>2, HistoryOfExistingCase
<1>4. Len(events[target]) = n
  <2> SUFFICES ASSUME Len(events[target]) # n PROVE FALSE
    OBVIOUS
  <2>1. n + 1 \in 1..Len(events[target]) /\ n + 1 # 1 /\ (n + 1) - 1 = n
    BY <1>1
  <2>2. /\ events[target][n + 1].from = events[target][n].to
        /\ events[target][n + 1].to \in LEGAL_TRANSITIONS[events[target][n + 1].from]
    BY <1>3, <2>1 DEF Chained
  <2>3. events[target][n].to = "RESOLVED"
    BY <1>1
  <2>4. LEGAL_TRANSITIONS["RESOLVED"] = {}
    BY TerminalHasNoEdge DEF TERMINAL_STATES
  <2> QED
    BY <2>2, <2>3, <2>4
<1>5. events[target] = log
  BY <1>1, <1>4, SeqEqual
<1>6. cases[target] = row
  BY <1>1, <1>3, <1>4 DEF CaseRow
<1> QED
  BY <1>5, <1>6

LEMMA ReaderInvGivesTornOneWay == ASSUME ReaderInv PROVE SnapshotTornOneWay
  BY DEF ReaderInv, LogRead, RowRead, SnapshotTornOneWay

(***************************************************************************)
(* The tables stay well-formed, a snapshot is torn one way at most, and a  *)
(* verified history that ends in RESOLVED is the case's history for good   *)
(* (CaseStore.events, AuthenticatedCaseEvents.verify).                     *)
(***************************************************************************)
THEOREM SnapshotsAreSound ==
    ReaderSpec => [](ReaderTypeOK /\ SnapshotTornOneWay /\ VerifiedResolutionStands)
<1>1. ReaderSpec => []ReaderInv
  BY ReaderStarts, ReaderStepKeepsInv, PTL DEF ReaderSpec
<1>2. ReaderInv => ReaderTypeOK /\ SnapshotTornOneWay /\ VerifiedResolutionStands
  BY VerifiedResolutionHolds, ReaderInvGivesTornOneWay DEF ReaderInv
<1> QED
  BY <1>1, <1>2, PTL

LEMMA VerifyingStep ==
    ASSUME ReaderInv, [ReaderNext]_snapshotVars, step # "verified", step' = "verified"
    PROVE  events[target] = log /\ cases[target] = row /\ row.version = Len(log)
<1>1. VerifyRow /\ SnapshotMatches
  BY DEF ReaderNext, snapshotVars, readerVars, Opens, Moves, ReadLog, ReadRow, VerifyLog,
         VerifyRow, Drop
<1> QED
  BY <1>1, MatchingSnapshotIsCurrent DEF VerifyRow

(***************************************************************************)
(* verify() is linearizable: as it returns True the snapshot is exactly    *)
(* the case's events and row, whatever moved between its two reads.        *)
(***************************************************************************)
THEOREM VerifyIsLinearizable == ReaderSpec => VerifiedIsCurrent
<1>1. ReaderSpec => []ReaderInv
  BY ReaderStarts, ReaderStepKeepsInv, PTL DEF ReaderSpec
<1>2. ReaderInv /\ [ReaderNext]_snapshotVars =>
          [(step # "verified" /\ step' = "verified") =>
              /\ events[target] = log
              /\ cases[target] = row
              /\ row.version = Len(log)]_snapshotVars
  BY VerifyingStep
<1> QED
  BY <1>1, <1>2, PTL DEF ReaderSpec, VerifiedIsCurrent

-----------------------------------------------------------------------------
(* The chase-list server.                                                   *)

\* Every order's case exists: the server opened them before it served a page.
EveryCaseExists == \A o \in Subject : Exists(CaseOf(o))

IsResolved(o) == cases[CaseOf(o)].state = "RESOLVED"

\* A row seen resolved was a row of the case, and no edge leaves RESOLVED: the
\* cached rows and the rows requests work from may be stale in any other state.
SeenResolvedStands ==
    /\ \A o \in Subject : cached[o].state = "RESOLVED" => IsResolved(o)
    /\ \A t \in Tab : request[t] # NoRequest /\ request[t].row.state = "RESOLVED" =>
            IsResolved(request[t].order)

\* An answer reaches the table only for a resolved case, and is in force or
\* about to be only when it is in the table.
OnRecord(answers, res) == \E i \in 1..Len(answers) : answers[i] = res

AnswersOnRecord ==
    /\ \A o \in Subject : audit[o] # <<>> => IsResolved(o)
    /\ \A o \in Subject : resolutions[o] # "none" => OnRecord(audit[o], resolutions[o])
    /\ \A t \in Tab : request[t] # NoRequest /\ request[t].at \in {"saved", "published"} =>
            OnRecord(audit[request[t].order], request[t].resolution)

WorkbenchInv ==
    /\ WorkbenchTypeOK
    /\ ProjectionMatchesHistory
    /\ EveryCaseExists
    /\ SeenResolvedStands
    /\ AnswersOnRecord
    /\ OneWinner

-----------------------------------------------------------------------------
\* The cases are those of the orders.
LEMMA CasesOfOrders ==
    /\ \A o \in Subject : CaseOf(o) \in CaseId
    /\ \A c \in CaseId : \E o \in Subject : c = CaseOf(o)
    /\ \A o, p \in Subject : CaseOf(o) = CaseOf(p) => o = p
BY WorkbenchConstants DEF WorkbenchConstants, CaseId, CaseOf

\* The initial state satisfies the invariant.
LEMMA WorkbenchStarts == WorkbenchInit => WorkbenchInv
<1> SUFFICES ASSUME WorkbenchInit PROVE WorkbenchInv
  OBVIOUS
<1>1. PICK cert \in Certificate :
        /\ cases = [c \in CaseId |-> [state |-> "OPEN", version |-> 1, certificate |-> cert]]
        /\ cached = [o \in Subject |-> [state |-> "OPEN", version |-> 1, certificate |-> cert]]
  BY DEF WorkbenchInit
<1>2. [state |-> "OPEN", version |-> 1, certificate |-> cert] \in CaseRow
  BY DEF CaseRow, CaseState
<1>3. OpeningEvent \in EventRow
  BY DEF OpeningEvent, EventRow, CaseState
<1>4. events = [c \in CaseId |-> <<OpeningEvent>>]
  BY DEF WorkbenchInit
<1>5. StoreTypeOK
  BY <1>1, <1>2, <1>3, <1>4 DEF StoreTypeOK
<1>6. ProjectionMatchesHistory
  <2> SUFFICES ASSUME NEW c \in CaseId PROVE RowIsProjection(c) /\ Chained(events[c])
    BY DEF ProjectionMatchesHistory
  <2>1. events[c] = <<OpeningEvent>> /\ Len(events[c]) = 1
    BY <1>4
  <2> QED
    BY <1>1, <2>1 DEF RowIsProjection, Chained, Exists, OpeningEvent
<1>7. /\ audit = [o \in Subject |-> <<>>] /\ resolutions = [o \in Subject |-> "none"]
      /\ screen = [t \in Tab |-> Blank] /\ request = [t \in Tab |-> NoRequest]
  BY DEF WorkbenchInit
<1>8. WorkbenchTypeOK
  <2>1. cached \in [Subject -> CaseRow]
    BY <1>1, <1>2
  <2>2. /\ audit \in [Subject -> Seq(Resolution)]
        /\ \A o \in Subject : \A i, j \in 1..Len(audit[o]) : i # j => audit[o][i] # audit[o][j]
    BY <1>7, EmptySeq
  <2>3. /\ resolutions \in [Subject -> Resolution \cup {"none"}]
        /\ screen \in [Tab -> [Subject -> Nat]]
        /\ request \in [Tab -> Request \cup {NoRequest}]
    BY <1>7 DEF Blank
  <2> QED
    BY <1>5, <2>1, <2>2, <2>3 DEF WorkbenchTypeOK
<1>9. EveryCaseExists
  <2> SUFFICES ASSUME NEW o \in Subject PROVE cases[CaseOf(o)].version # 0
    BY DEF EveryCaseExists, Exists
  <2>1. CaseOf(o) \in CaseId
    BY CasesOfOrders
  <2>2. cases[CaseOf(o)].version = 1
    BY <1>1, <2>1
  <2> QED
    BY <2>2
<1>10. SeenResolvedStands
  BY <1>1, <1>7 DEF SeenResolvedStands
<1>11. AnswersOnRecord /\ OneWinner
  BY <1>7 DEF AnswersOnRecord, OneWinner, PastWalk
<1> QED
  BY <1>6, <1>8, <1>9, <1>10, <1>11 DEF WorkbenchInv

-----------------------------------------------------------------------------
(* Moving a case.                                                           *)

\* What a move of an order's case leaves of the others' and of a resolved one.
LEMMA OrderMoves ==
    ASSUME WorkbenchInv, NEW o \in Subject, NEW expected,
           NEW path \in Seq(CaseState), NEW actor \in Analyst, NEW note \in Note \cup {NoNote},
           Advance(CaseOf(o), expected, path, actor, note)
    PROVE  /\ StoreInv'
           /\ EveryCaseExists'
           /\ \A p \in Subject : p # o \/ IsResolved(p) => cases'[CaseOf(p)] = cases[CaseOf(p)]
           /\ \A p \in Subject : cases'[CaseOf(p)] \in CaseRow
<1> DEFINE c == CaseOf(o)
           moved == AdvanceOutcome(c, expected, path) = "moved"
<1>1. StoreInv /\ c \in CaseId
  BY CasesOfOrders DEF WorkbenchInv, WorkbenchTypeOK, StoreInv
<1>2. StoreInv'
  BY <1>1, AdvanceKeepsInv
<1>3. \A p \in Subject : Exists(CaseOf(p))'
  BY <1>1, AdvanceGrows, CasesOfOrders DEF WorkbenchInv, EveryCaseExists
<1>4. ~moved => cases' = cases
  BY DEF Advance, storeVars
<1>5. moved => /\ \A d \in CaseId \ {c} : cases'[d] = cases[d]
               /\ path # <<>> /\ LegalWalk(cases[c].state, path)
  BY <1>1, MoveEffect
<1>6. ~(moved /\ IsResolved(o))
  <2> SUFFICES ASSUME moved, IsResolved(o) PROVE FALSE
    OBVIOUS
  <2>1. 1 \in 1..Len(path)
    BY <1>5, EmptySeq, LenProperties
  <2>2. path[1] \in LEGAL_TRANSITIONS["RESOLVED"]
    BY <1>5, <2>1 DEF LegalWalk, StateBefore, IsResolved
  <2> QED
    BY <2>2, TerminalHasNoEdge DEF TERMINAL_STATES
<1>7. \A p \in Subject : p # o \/ IsResolved(p) => cases'[CaseOf(p)] = cases[CaseOf(p)]
  BY <1>4, <1>5, <1>6, CasesOfOrders
<1>8. \A p \in Subject : cases'[CaseOf(p)] \in CaseRow
  BY <1>2, <1>3, CasesOfOrders DEF StoreInv, StoreTypeOK, Exists, AbsentRow
<1> QED
  BY <1>2, <1>3, <1>7, <1>8 DEF EveryCaseExists

\* The route to RESOLVED ends there.
LEMMA RouteEndsResolved ==
    ASSUME NEW s \in CaseState, HasRoute(s), PathToResolved(s) # <<>>
    PROVE  PathToResolved(s)[Len(PathToResolved(s))] = "RESOLVED"
<1>1. s # "RESOLVED"
  BY DEF PathToResolved
<1> QED
  BY <1>1, RouteIsFound DEF Routes

\* Only RESOLVED itself has nothing to walk.
LEMMA EmptyRouteIsResolved ==
    ASSUME NEW s \in CaseState, HasRoute(s), PathToResolved(s) = <<>>
    PROVE  s = "RESOLVED"
<1> SUFFICES ASSUME s # "RESOLVED" PROVE FALSE
  OBVIOUS
<1>1. PathToResolved(s) \in Routes(s, "RESOLVED")
  BY RouteIsFound
<1>2. PICK n \in 1..MaxRoute : PathToResolved(s) \in [1..n -> CaseState]
  BY <1>1 DEF Routes
<1>3. Len(PathToResolved(s)) = n
  BY <1>2, SeqDef DEF MaxRoute
<1> QED
  BY <1>2, <1>3 DEF MaxRoute

-----------------------------------------------------------------------------
(* One request.                                                             *)

LEMMA RequestShape ==
    ASSUME WorkbenchTypeOK, NEW t \in Tab, request[t] # NoRequest
    PROVE  /\ request[t] \in Request
           /\ request[t].order \in Subject /\ request[t].resolution \in Resolution
           /\ request[t].expected \in Nat \ {0} /\ request[t].row \in CaseRow
BY DEF WorkbenchTypeOK, Request

\* A request that goes on changes its step and its row, and no other request.
LEMMA ProceedEffect ==
    ASSUME WorkbenchTypeOK, NEW t \in Tab, request[t] # NoRequest,
           NEW at \in {"walked", "saved", "published", "conflict", "fresh"},
           NEW seen \in CaseRow, Proceed(t, at, seen)
    PROVE  /\ request' \in [Tab -> Request \cup {NoRequest}]
           /\ request'[t] # NoRequest /\ request'[t].at = at /\ request'[t].row = seen
           /\ request'[t].order = request[t].order
           /\ request'[t].resolution = request[t].resolution
           /\ request'[t].expected = request[t].expected
           /\ \A u \in Tab \ {t} : request'[u] = request[u]
<1>1. /\ request[t].order \in Subject /\ request[t].resolution \in Resolution
      /\ request[t].expected \in Nat \ {0}
  BY RequestShape
<1> DEFINE next == [at |-> at, order |-> request[t].order,
                    resolution |-> request[t].resolution,
                    expected |-> request[t].expected, row |-> seen]
<1>2. next \in Request
  BY <1>1 DEF Request
<1>3. request' = [request EXCEPT ![t] = next]
  BY DEF Proceed
<1>4. request \in [Tab -> Request \cup {NoRequest}]
  BY DEF WorkbenchTypeOK
<1>5. next # NoRequest
  <2>1. next.at # NoRequest.at
    BY DEF NoRequest
  <2> QED
    BY <2>1
<1>6. /\ next.at = at /\ next.row = seen /\ next.order = request[t].order
      /\ next.resolution = request[t].resolution /\ next.expected = request[t].expected
  OBVIOUS
<1> HIDE DEF next
<1> QED
  BY <1>2, <1>3, <1>4, <1>5, <1>6

\* A request that ends leaves the others as they are.
LEMMA EndEffect ==
    ASSUME WorkbenchTypeOK, NEW t \in Tab, request' = [request EXCEPT ![t] = NoRequest]
    PROVE  /\ request' \in [Tab -> Request \cup {NoRequest}]
           /\ request'[t] = NoRequest
           /\ \A u \in Tab \ {t} : request'[u] = request[u]
BY DEF WorkbenchTypeOK

\* A reply blanks the tab's screen.
LEMMA ReplyEffect ==
    ASSUME WorkbenchTypeOK, NEW t \in Tab, Reply(t)
    PROVE  /\ request' = [request EXCEPT ![t] = NoRequest]
           /\ screen' \in [Tab -> [Subject -> Nat]]
BY DEF Reply, Blank, WorkbenchTypeOK

\* Where the store stands still, so does what is known of it.
LEMMA StoreStandsStill ==
    ASSUME WorkbenchInv, cases' = cases, events' = events
    PROVE  /\ StoreInv' /\ EveryCaseExists'
           /\ \A o \in Subject : cases'[CaseOf(o)] = cases[CaseOf(o)]
           /\ \A o \in Subject : cases[CaseOf(o)] \in CaseRow
<1>1. StoreInv'
  BY DEF WorkbenchInv, WorkbenchTypeOK, StoreInv, StoreTypeOK,
         ProjectionMatchesHistory, RowIsProjection, Chained, Exists
<1>2. \A o \in Subject : cases[CaseOf(o)] \in CaseRow
  BY CasesOfOrders, RowOfExistingCase
     DEF WorkbenchInv, WorkbenchTypeOK, EveryCaseExists
<1> QED
  BY <1>1, <1>2 DEF WorkbenchInv, EveryCaseExists, Exists

\* The pages, and the end of a request, change nothing the invariant relates.
LEMMA PageKeepsInv ==
    ASSUME WorkbenchInv, cases' = cases, events' = events, audit' = audit,
           resolutions' = resolutions, cached' = cached,
           screen' \in [Tab -> [Subject -> Nat]],
           request' \in [Tab -> Request \cup {NoRequest}],
           \A t \in Tab : request'[t] = request[t] \/ request'[t] = NoRequest
    PROVE  WorkbenchInv'
<1>1. /\ StoreInv' /\ EveryCaseExists'
      /\ \A o \in Subject : cases'[CaseOf(o)] = cases[CaseOf(o)]
  BY StoreStandsStill
<1>2. WorkbenchTypeOK'
  BY <1>1 DEF WorkbenchInv, WorkbenchTypeOK, StoreInv
<1>3. SeenResolvedStands'
  BY DEF WorkbenchInv, SeenResolvedStands, IsResolved
<1>4. AnswersOnRecord'
  BY DEF WorkbenchInv, AnswersOnRecord, OnRecord, IsResolved
<1>5. OneWinner'
  BY DEF WorkbenchInv, OneWinner, PastWalk, MovedIt
<1> QED
  BY <1>1, <1>2, <1>3, <1>4, <1>5 DEF WorkbenchInv, StoreInv

LEMMA LoadPageKeepsInv ==
    ASSUME WorkbenchInv, NEW t \in Tab, LoadPage(t)
    PROVE  WorkbenchInv'
<1>1. \A o \in Subject : cached[o].version \in Nat
  BY DEF WorkbenchInv, WorkbenchTypeOK, CaseRow
<1>2. screen' \in [Tab -> [Subject -> Nat]]
  <2> DEFINE shown == [o \in Subject |->
                          IF Column(o) = "needs_you" THEN cached[o].version ELSE 0]
  <2>1. shown \in [Subject -> Nat]
    BY <1>1
  <2>2. screen' = [screen EXCEPT ![t] = shown]
    BY DEF LoadPage
  <2> HIDE DEF shown
  <2> QED
    BY <2>1, <2>2 DEF WorkbenchInv, WorkbenchTypeOK
<1> QED
  BY <1>2, PageKeepsInv DEF LoadPage, serverVars, WorkbenchInv, WorkbenchTypeOK

LEMMA PostKeepsInv ==
    ASSUME WorkbenchInv, NEW t \in Tab, NEW o \in Subject, NEW res \in Resolution,
           Post(t, o, res)
    PROVE  WorkbenchInv'
<1> DEFINE new == [at |-> "posted", order |-> o, resolution |-> res,
                   expected |-> screen[t][o], row |-> cached[o]]
<1>1. new \in Request
  BY DEF Post, Request, WorkbenchInv, WorkbenchTypeOK
<1>2. /\ request' = [request EXCEPT ![t] = new]
      /\ cases' = cases /\ events' = events /\ audit' = audit
      /\ resolutions' = resolutions /\ cached' = cached /\ screen' = screen
  BY DEF Post, serverVars
<1>3. new.at = "posted" /\ new.order = o /\ new.row = cached[o]
  OBVIOUS
<1> HIDE DEF new
<1>4. /\ request \in [Tab -> Request \cup {NoRequest}]
      /\ request'[t] = new
      /\ \A u \in Tab \ {t} : request'[u] = request[u]
      /\ request' \in [Tab -> Request \cup {NoRequest}]
  BY <1>1, <1>2 DEF WorkbenchInv, WorkbenchTypeOK
<1>5. StoreInv' /\ EveryCaseExists'
  BY <1>2, StoreStandsStill
<1>6. WorkbenchTypeOK'
  BY <1>2, <1>4, <1>5 DEF WorkbenchInv, WorkbenchTypeOK, StoreInv
<1>7. SeenResolvedStands'
  BY <1>2, <1>3, <1>4 DEF WorkbenchInv, SeenResolvedStands, IsResolved
<1>8. AnswersOnRecord'
  BY <1>2, <1>3, <1>4 DEF WorkbenchInv, AnswersOnRecord, OnRecord, IsResolved
<1>9. OneWinner'
  BY <1>2, <1>3, <1>4 DEF WorkbenchInv, OneWinner, PastWalk, MovedIt
<1> QED
  BY <1>5, <1>6, <1>7, <1>8, <1>9 DEF WorkbenchInv, StoreInv

\* A handler that goes on outside the three steps past its walk, with a row
\* that is resolved only if the case is.
LEMMA RefusedKeepsInv ==
    ASSUME WorkbenchInv, NEW t \in Tab, request[t] # NoRequest,
           NEW at \in {"conflict", "fresh"}, NEW seen \in CaseRow, Proceed(t, at, seen),
           seen.state = "RESOLVED" => IsResolved(request[t].order),
           cases' = cases, events' = events, audit' = audit, resolutions' = resolutions,
           cached' = cached, screen' = screen
    PROVE  WorkbenchInv'
<1>1. /\ request' \in [Tab -> Request \cup {NoRequest}]
      /\ request'[t].at = at /\ request'[t].row = seen
      /\ request'[t].order = request[t].order
      /\ \A u \in Tab \ {t} : request'[u] = request[u]
  BY ProceedEffect DEF WorkbenchInv
<1>2. StoreInv' /\ EveryCaseExists'
  BY StoreStandsStill
<1>3. WorkbenchTypeOK'
  BY <1>1, <1>2 DEF WorkbenchInv, WorkbenchTypeOK, StoreInv
<1>4. SeenResolvedStands'
  BY <1>1 DEF WorkbenchInv, SeenResolvedStands, IsResolved
<1>5. AnswersOnRecord'
  BY <1>1 DEF WorkbenchInv, AnswersOnRecord, OnRecord, IsResolved
<1>6. ~PastWalk(t)'
  BY <1>1 DEF PastWalk
<1>7. OneWinner'
  BY <1>1, <1>6 DEF WorkbenchInv, OneWinner, PastWalk, MovedIt
<1> QED
  BY <1>2, <1>3, <1>4, <1>5, <1>7 DEF WorkbenchInv, StoreInv

-----------------------------------------------------------------------------
(* resolve_case.                                                            *)

\* What a walk that succeeds leaves: a resolved row, the store's own, whose
\* version is the screen's only where the case was resolved already.
LEMMA WalkSucceeds ==
    ASSUME WorkbenchInv, NEW t \in Tab, AtStep(t, "posted"),
           WalkOutcome(request[t]) = "moved" =>
              Advance(CaseOf(request[t].order), request[t].expected,
                      PathToResolved(request[t].row.state), Human, request[t].resolution),
           WalkOutcome(request[t]) = "unchanged" => UNCHANGED storeVars,
           WalkOutcome(request[t]) \in {"moved", "unchanged"}
    PROVE  /\ StoreInv' /\ EveryCaseExists'
           /\ \A p \in Subject : p # request[t].order \/ IsResolved(p) =>
                cases'[CaseOf(p)] = cases[CaseOf(p)]
           /\ cases'[CaseOf(request[t].order)] \in CaseRow
           /\ cases'[CaseOf(request[t].order)].state = "RESOLVED"
           /\ IsResolved(request[t].order) =>
                request[t].expected = cases'[CaseOf(request[t].order)].version
<1> DEFINE r == request[t]
           c == CaseOf(r.order)
           path == PathToResolved(r.row.state)
<1>1. /\ r.order \in Subject /\ r.resolution \in Note /\ r.row \in CaseRow
      /\ r.row.state \in CaseState /\ Human \in Analyst
  BY RequestShape, WorkbenchConstants DEF AtStep, WorkbenchInv, WorkbenchConstants, CaseRow
<1>2. HasRoute(r.row.state) /\ WalkOutcome(r) = AdvanceOutcome(c, r.expected, path)
  BY DEF WalkOutcome
<1>3. path \in Seq(CaseState)
  BY <1>1, <1>2, RouteType
<1>4. c \in CaseId /\ StoreInv
  BY <1>1, CasesOfOrders DEF WorkbenchInv, WorkbenchTypeOK, StoreInv
<1> HIDE DEF r, c, path
<1>5. CASE WalkOutcome(r) = "moved"
  <2>1. Advance(c, r.expected, path, Human, r.resolution)
    BY <1>5 DEF r, c, path
  <2>2. /\ StoreInv' /\ EveryCaseExists'
        /\ \A p \in Subject : p # r.order \/ IsResolved(p) =>
                cases'[CaseOf(p)] = cases[CaseOf(p)]
        /\ cases'[c] \in CaseRow
    BY <1>1, <1>3, <2>1, OrderMoves DEF c
  <2>3. /\ path # <<>> /\ cases' = [cases EXCEPT ![c] = NewRow(c, path)]
        /\ LegalWalk(cases[c].state, path)
    <3>1. AdvanceOutcome(c, r.expected, path) = "moved"
      BY <1>2, <1>5 DEF r, c, path
    <3>2. r.resolution \in Note \cup {NoNote}
      BY <1>1
    <3> QED
      BY <1>1, <1>3, <1>4, <2>1, <3>1, <3>2, MoveEffect
  <2>4. cases'[c].state = path[Len(path)]
    BY <1>4, <2>3 DEF NewRow, StoreInv, StoreTypeOK
  <2>5. path[Len(path)] = "RESOLVED"
    BY <1>1, <1>2, <2>3, RouteEndsResolved DEF path
  <2>6. cases[c].state # "RESOLVED"
    <3>1. 1 \in 1..Len(path)
      BY <1>3, <2>3, EmptySeq, LenProperties
    <3>2. path[1] \in LEGAL_TRANSITIONS[cases[c].state]
      BY <2>3, <3>1 DEF LegalWalk, StateBefore
    <3> QED
      BY <3>2, TerminalHasNoEdge DEF TERMINAL_STATES
  <2> QED
    BY <2>2, <2>4, <2>5, <2>6 DEF r, c, IsResolved
<1>6. CASE WalkOutcome(r) = "unchanged"
  <2>1. cases' = cases /\ events' = events
    BY <1>6 DEF r, storeVars
  <2>2. path = <<>> /\ cases[c].version = r.expected
    <3>1. AdvanceOutcome(c, r.expected, path) = "unchanged"
      BY <1>2, <1>6 DEF r, c, path
    <3> QED
      BY <3>1 DEF AdvanceOutcome
  <2>3. r.row.state = "RESOLVED"
    BY <1>1, <1>2, <2>2, EmptyRouteIsResolved DEF path
  <2>4. IsResolved(r.order)
    BY <2>3 DEF r, AtStep, WorkbenchInv, SeenResolvedStands
  <2>5. /\ StoreInv' /\ EveryCaseExists'
        /\ \A o \in Subject : cases'[CaseOf(o)] = cases[CaseOf(o)]
        /\ \A o \in Subject : cases[CaseOf(o)] \in CaseRow
    BY <2>1, StoreStandsStill
  <2> QED
    BY <1>1, <2>1, <2>2, <2>4, <2>5 DEF r, c, IsResolved
<1> QED
  BY <1>5, <1>6 DEF r

LEMMA WalkKeepsInv ==
    ASSUME WorkbenchInv, NEW t \in Tab, Walk(t)
    PROVE  WorkbenchInv'
<1> DEFINE r == request[t]
           c == CaseOf(r.order)
<1>1. /\ AtStep(t, "posted") /\ r # NoRequest /\ r.at = "posted"
      /\ r.order \in Subject /\ r.row \in CaseRow
      /\ audit' = audit /\ resolutions' = resolutions /\ cached' = cached
  BY RequestShape DEF Walk, AtStep, serverVars, WorkbenchInv
<1>2. CASE WalkOutcome(r) \in {"moved", "unchanged"}
  <2>1. /\ WalkOutcome(r) = "moved" =>
              Advance(c, r.expected, PathToResolved(r.row.state), Human, r.resolution)
        /\ WalkOutcome(r) = "unchanged" => UNCHANGED storeVars
        /\ screen' = screen
        /\ Proceed(t, "walked", cases'[c])
    BY <1>2 DEF Walk, storeVars
  <2>2. /\ StoreInv' /\ EveryCaseExists'
        /\ \A p \in Subject : p # r.order \/ IsResolved(p) =>
                cases'[CaseOf(p)] = cases[CaseOf(p)]
        /\ cases'[c] \in CaseRow
        /\ cases'[c].state = "RESOLVED"
        /\ IsResolved(r.order) => r.expected = cases'[c].version
    BY <1>1, <1>2, <2>1, WalkSucceeds
  <2>3. /\ request' \in [Tab -> Request \cup {NoRequest}]
        /\ request'[t] # NoRequest /\ request'[t].at = "walked" /\ request'[t].row = cases'[c]
        /\ request'[t].order = r.order /\ request'[t].expected = r.expected
        /\ \A u \in Tab \ {t} : request'[u] = request[u]
    BY <1>1, <2>1, <2>2, ProceedEffect DEF WorkbenchInv
  <2>4. \A p \in Subject : IsResolved(p) => IsResolved(p)'
    BY <2>2 DEF IsResolved
  <2>5. IsResolved(r.order)'
    BY <2>2, <2>3 DEF IsResolved
  <2>6. \A u \in Tab : request[u] # NoRequest => request[u].order \in Subject
    BY RequestShape DEF WorkbenchInv
  <2> HIDE DEF r, c
  <2>7. WorkbenchTypeOK'
    BY <1>1, <2>1, <2>2, <2>3 DEF WorkbenchInv, WorkbenchTypeOK, StoreInv
  <2>8. SeenResolvedStands'
    <3>1. \A o \in Subject : cached'[o].state = "RESOLVED" => IsResolved(o)'
      BY <1>1, <2>4 DEF WorkbenchInv, SeenResolvedStands
    <3>2. \A u \in Tab : request'[u] # NoRequest /\ request'[u].row.state = "RESOLVED" =>
            IsResolved(request[u].order)'
      BY <2>3, <2>4, <2>5, <2>6 DEF WorkbenchInv, SeenResolvedStands, IsResolved, r
    <3> QED
      BY <2>3, <2>5, <3>1, <3>2 DEF SeenResolvedStands, IsResolved, r
  <2>9. AnswersOnRecord'
    BY <1>1, <2>3, <2>4 DEF WorkbenchInv, AnswersOnRecord, OnRecord
  <2>10. OneWinner'
    <3>1. \A u \in Tab \ {t} : PastWalk(u) => /\ cases'[CaseOf(request[u].order)] = request[u].row
                                              /\ IsResolved(request[u].order)
                                              /\ cases[CaseOf(request[u].order)] = request[u].row
      BY <2>2, <2>6 DEF WorkbenchInv, OneWinner, PastWalk, IsResolved
    <3>2. \A u \in Tab \ {t} : PastWalk(u)' <=> PastWalk(u)
      BY <2>3 DEF PastWalk
    <3>3. \A u \in Tab \ {t} : PastWalk(u) => (MovedIt(u)' <=> MovedIt(u))
      BY <2>3, <3>1 DEF MovedIt
    <3>4. \A u \in Tab \ {t} : PastWalk(u) /\ request[u].order = r.order => ~MovedIt(t)'
      BY <2>2, <2>3, <3>1 DEF MovedIt, c
    <3>5. \A u, v \in Tab \ {t} :
              PastWalk(u) /\ PastWalk(v) /\ u # v /\ request[u].order = request[v].order
                => ~(MovedIt(u) /\ MovedIt(v))
      BY DEF WorkbenchInv, OneWinner
    <3>6. /\ request'[t].row = cases'[CaseOf(request'[t].order)]
          /\ request'[t].row.state = "RESOLVED"
      BY <2>2, <2>3 DEF c
    <3>7. \A u \in Tab \ {t} : PastWalk(u)' =>
              /\ request'[u].row = cases'[CaseOf(request'[u].order)]
              /\ request'[u].row.state = "RESOLVED"
      BY <2>3, <3>1, <3>2 DEF IsResolved
    <3>8. \A u, v \in Tab : PastWalk(u)' /\ PastWalk(v)' /\ u # v
              /\ request'[u].order = request'[v].order => ~(MovedIt(u)' /\ MovedIt(v)')
      BY <2>3, <3>2, <3>3, <3>4, <3>5
    <3> QED
      BY <3>6, <3>7, <3>8 DEF OneWinner
  <2> QED
    BY <2>2, <2>7, <2>8, <2>9, <2>10 DEF WorkbenchInv, StoreInv
<1>3. CASE WalkOutcome(r) = "IllegalTransition"
  <2>1. /\ request' = [request EXCEPT ![t] = NoRequest]
        /\ cases' = cases /\ events' = events /\ screen' = screen
    BY <1>3 DEF Walk, Dies
  <2>2. screen' \in [Tab -> [Subject -> Nat]]
    BY <2>1 DEF WorkbenchInv, WorkbenchTypeOK
  <2> QED
    BY <1>1, <2>1, <2>2, EndEffect, PageKeepsInv DEF WorkbenchInv
<1>4. CASE WalkOutcome(r) = "VersionConflict"
  <2>1. /\ cases' = cases /\ events' = events /\ screen' = screen
        /\ Proceed(t, "conflict", r.row)
    BY <1>4 DEF Walk
  <2> QED
    BY <1>1, <2>1, RefusedKeepsInv DEF WorkbenchInv, SeenResolvedStands
<1> QED
  BY <1>2, <1>3, <1>4 DEF Walk

-----------------------------------------------------------------------------
(* The answer.                                                              *)

\* A resolution is written once, behind those on record.
LEMMA SavedAnswers ==
    ASSUME NEW answers \in Seq(Resolution), NEW res \in Resolution,
           \A i, j \in 1..Len(answers) : i # j => answers[i] # answers[j]
    PROVE  LET new == Saved(answers, res) IN
           /\ new \in Seq(Resolution)
           /\ \A i, j \in 1..Len(new) : i # j => new[i] # new[j]
           /\ \A i \in 1..Len(answers) : i \in 1..Len(new) /\ new[i] = answers[i]
           /\ OnRecord(new, res)
<1>1. CASE \E i \in 1..Len(answers) : answers[i] = res
  BY <1>1 DEF Saved, OnRecord
<1>2. CASE ~\E i \in 1..Len(answers) : answers[i] = res
  <2> DEFINE n == Len(answers)
             new == Append(answers, res)
  <2>1. Saved(answers, res) = new /\ n \in Nat
    BY <1>2, LenProperties DEF Saved
  <2>2. /\ new \in Seq(Resolution) /\ Len(new) = n + 1
        /\ \A i \in 1..n : new[i] = answers[i]
        /\ new[n + 1] = res
    BY AppendProperties
  <2> HIDE DEF n, new
  <2>3. \A i \in 1..(n + 1) : i \in 1..n \/ i = n + 1
    BY <2>1
  <2>4. \A i \in 1..n : i \in 1..(n + 1) /\ i # n + 1
    BY <2>1
  <2>5. n + 1 \in 1..(n + 1)
    BY <2>1
  <2>6. \A i \in 1..n : new[i] # res
    BY <1>2, <2>2 DEF n
  <2>7. \A i, j \in 1..Len(new) : i # j => new[i] # new[j]
    BY <2>2, <2>3, <2>6 DEF n
  <2> QED
    BY <2>1, <2>2, <2>4, <2>5, <2>7 DEF n, OnRecord
<1> QED
  BY <1>1, <1>2

\* A request past its walk goes on with the row it has.
LEMMA GoesOn ==
    ASSUME WorkbenchInv, NEW t \in Tab, request[t] # NoRequest, PastWalk(t),
           NEW at \in {"saved", "published"}, Proceed(t, at, request[t].row),
           cases' = cases, events' = events
    PROVE  /\ request' \in [Tab -> Request \cup {NoRequest}]
           /\ StoreInv' /\ EveryCaseExists' /\ OneWinner'
           /\ IsResolved(request[t].order)
<1>1. /\ request' \in [Tab -> Request \cup {NoRequest}]
      /\ request'[t] # NoRequest /\ request'[t].at = at /\ request'[t].row = request[t].row
      /\ request'[t].order = request[t].order /\ request'[t].expected = request[t].expected
      /\ \A u \in Tab \ {t} : request'[u] = request[u]
  BY RequestShape, ProceedEffect DEF WorkbenchInv
<1>2. StoreInv' /\ EveryCaseExists'
  BY StoreStandsStill
<1>3. \A u \in Tab : /\ PastWalk(u)' <=> PastWalk(u)
                     /\ request[u] # NoRequest => /\ request'[u].row = request[u].row
                                                  /\ request'[u].order = request[u].order
                                                  /\ request'[u].expected = request[u].expected
  BY <1>1 DEF PastWalk
<1>4. \A u \in Tab : PastWalk(u) => (MovedIt(u)' <=> MovedIt(u))
  BY <1>3 DEF MovedIt, PastWalk
<1>5. \A u \in Tab : PastWalk(u) => request[u] # NoRequest
  BY DEF PastWalk
<1>6. OneWinner'
  BY <1>3, <1>4, <1>5 DEF WorkbenchInv, OneWinner
<1>7. IsResolved(request[t].order)
  BY DEF WorkbenchInv, OneWinner, IsResolved
<1> QED
  BY <1>1, <1>2, <1>6, <1>7

LEMMA SaveResolutionKeepsInv ==
    ASSUME WorkbenchInv, NEW t \in Tab, SaveResolution(t)
    PROVE  WorkbenchInv'
<1> DEFINE o == request[t].order
           res == request[t].resolution
<1>1. /\ request[t] # NoRequest /\ request[t].at = "walked" /\ PastWalk(t)
      /\ audit' = [audit EXCEPT ![o] = Saved(audit[o], res)]
      /\ Proceed(t, "saved", request[t].row)
      /\ cases' = cases /\ events' = events /\ resolutions' = resolutions
      /\ cached' = cached /\ screen' = screen
      /\ o \in Subject /\ res \in Resolution /\ request[t].row \in CaseRow
  BY RequestShape DEF SaveResolution, AtStep, PastWalk, serverVars, WorkbenchInv
<1>2. /\ request' \in [Tab -> Request \cup {NoRequest}]
      /\ request'[t] # NoRequest /\ request'[t].at = "saved" /\ request'[t].row = request[t].row
      /\ request'[t].order = o /\ request'[t].resolution = res
      /\ \A u \in Tab \ {t} : request'[u] = request[u]
  BY <1>1, ProceedEffect DEF WorkbenchInv
<1>3. StoreInv' /\ EveryCaseExists' /\ OneWinner' /\ IsResolved(o)
  BY <1>1, GoesOn
<1> HIDE DEF o, res
<1>4. /\ audit[o] \in Seq(Resolution)
      /\ \A i, j \in 1..Len(audit[o]) : i # j => audit[o][i] # audit[o][j]
      /\ audit'[o] = Saved(audit[o], res)
      /\ \A p \in Subject \ {o} : audit'[p] = audit[p]
  BY <1>1 DEF WorkbenchInv, WorkbenchTypeOK
<1>5. /\ audit'[o] \in Seq(Resolution)
      /\ \A i, j \in 1..Len(audit'[o]) : i # j => audit'[o][i] # audit'[o][j]
      /\ \A i \in 1..Len(audit[o]) : i \in 1..Len(audit'[o]) /\ audit'[o][i] = audit[o][i]
      /\ OnRecord(audit'[o], res)
  <2>1. LET new == Saved(audit[o], res) IN
        /\ new \in Seq(Resolution)
        /\ \A i, j \in 1..Len(new) : i # j => new[i] # new[j]
        /\ \A i \in 1..Len(audit[o]) : i \in 1..Len(new) /\ new[i] = audit[o][i]
        /\ OnRecord(new, res)
    BY <1>1, <1>4, SavedAnswers
  <2> QED
    BY <1>4, <2>1
<1>6. \A p \in Subject : \A x : OnRecord(audit[p], x) => OnRecord(audit'[p], x)
  BY <1>4, <1>5 DEF OnRecord
<1>7. WorkbenchTypeOK'
  <2>1. audit' \in [Subject -> Seq(Resolution)]
    BY <1>1, <1>4, <1>5 DEF WorkbenchInv, WorkbenchTypeOK
  <2>2. ASSUME NEW p \in Subject
        PROVE  \A i, j \in 1..Len(audit'[p]) : i # j => audit'[p][i] # audit'[p][j]
    <3>1. CASE p = o
      BY <1>5, <3>1
    <3>2. CASE p # o
      BY <1>4, <3>2 DEF WorkbenchInv, WorkbenchTypeOK
    <3> QED
      BY <3>1, <3>2
  <2> QED
    BY <1>1, <1>2, <1>3, <2>1, <2>2 DEF WorkbenchInv, WorkbenchTypeOK, StoreInv
<1>8. SeenResolvedStands'
  BY <1>1, <1>2 DEF WorkbenchInv, SeenResolvedStands, IsResolved, o
<1>9. AnswersOnRecord'
  <2>1. \A p \in Subject : audit'[p] # <<>> => IsResolved(p)'
    BY <1>1, <1>3, <1>4 DEF WorkbenchInv, AnswersOnRecord, IsResolved
  <2>2. \A p \in Subject : resolutions'[p] # "none" => OnRecord(audit'[p], resolutions'[p])
    BY <1>1, <1>6 DEF WorkbenchInv, AnswersOnRecord
  <2>3. ASSUME NEW u \in Tab, request'[u] # NoRequest, request'[u].at \in {"saved", "published"}
        PROVE  OnRecord(audit'[request'[u].order], request'[u].resolution)
    <3>1. CASE u = t
      BY <1>2, <1>5, <3>1
    <3>2. CASE u # t
      <4>1. request'[u] = request[u] /\ request[u].order \in Subject
        BY <1>2, <2>3, <3>2, RequestShape DEF WorkbenchInv
      <4>2. OnRecord(audit[request[u].order], request[u].resolution)
        BY <2>3, <4>1 DEF WorkbenchInv, AnswersOnRecord
      <4> QED
        BY <1>6, <4>1, <4>2
    <3> QED
      BY <3>1, <3>2
  <2> QED
    BY <2>1, <2>2, <2>3 DEF AnswersOnRecord
<1> QED
  BY <1>3, <1>7, <1>8, <1>9 DEF WorkbenchInv, StoreInv

LEMMA PublishAnswerKeepsInv ==
    ASSUME WorkbenchInv, NEW t \in Tab, PublishAnswer(t)
    PROVE  WorkbenchInv'
<1>1. /\ request[t] # NoRequest /\ request[t].at = "saved" /\ PastWalk(t)
      /\ resolutions' = [resolutions EXCEPT ![request[t].order] = request[t].resolution]
      /\ Proceed(t, "published", request[t].row)
      /\ cases' = cases /\ events' = events /\ audit' = audit
      /\ cached' = cached /\ screen' = screen
      /\ request[t].order \in Subject /\ request[t].resolution \in Resolution
      /\ request[t].row \in CaseRow
  BY RequestShape DEF PublishAnswer, AtStep, PastWalk, WorkbenchInv
<1>2. /\ request' \in [Tab -> Request \cup {NoRequest}]
      /\ request'[t] # NoRequest /\ request'[t].row = request[t].row
      /\ request'[t].order = request[t].order /\ request'[t].resolution = request[t].resolution
      /\ \A u \in Tab \ {t} : request'[u] = request[u]
  BY <1>1, ProceedEffect DEF WorkbenchInv
<1>3. StoreInv' /\ EveryCaseExists' /\ OneWinner'
  BY <1>1, GoesOn
<1>4. OnRecord(audit[request[t].order], request[t].resolution)
  BY <1>1 DEF WorkbenchInv, AnswersOnRecord
<1>5. WorkbenchTypeOK'
  BY <1>1, <1>2, <1>3 DEF WorkbenchInv, WorkbenchTypeOK, StoreInv
<1>6. SeenResolvedStands'
  BY <1>1, <1>2 DEF WorkbenchInv, SeenResolvedStands, IsResolved
<1>7. AnswersOnRecord'
  <2>1. \A p \in Subject : resolutions'[p] # "none" => OnRecord(audit[p], resolutions'[p])
    BY <1>1, <1>4 DEF WorkbenchInv, WorkbenchTypeOK, AnswersOnRecord
  <2>2. \A u \in Tab : request'[u] # NoRequest /\ request'[u].at \in {"saved", "published"} =>
            OnRecord(audit[request'[u].order], request'[u].resolution)
    BY <1>2, <1>4 DEF WorkbenchInv, AnswersOnRecord
  <2> QED
    BY <1>1, <2>1, <2>2 DEF WorkbenchInv, AnswersOnRecord, OnRecord, IsResolved
<1> QED
  BY <1>3, <1>5, <1>6, <1>7 DEF WorkbenchInv, StoreInv

\* The handler caches the row it holds and replies.
LEMMA CachingKeepsInv ==
    ASSUME WorkbenchInv, NEW t \in Tab, request[t] # NoRequest,
           cached' = [cached EXCEPT ![request[t].order] = request[t].row], Reply(t),
           cases' = cases, events' = events, audit' = audit, resolutions' = resolutions
    PROVE  WorkbenchInv'
<1>1. /\ request' \in [Tab -> Request \cup {NoRequest}] /\ request'[t] = NoRequest
      /\ \A u \in Tab \ {t} : request'[u] = request[u]
      /\ screen' \in [Tab -> [Subject -> Nat]]
  BY ReplyEffect, EndEffect DEF WorkbenchInv
<1>2. request[t].order \in Subject /\ request[t].row \in CaseRow
  BY RequestShape DEF WorkbenchInv
<1>3. StoreInv' /\ EveryCaseExists'
  BY StoreStandsStill
<1>4. WorkbenchTypeOK'
  BY <1>1, <1>2, <1>3 DEF WorkbenchInv, WorkbenchTypeOK, StoreInv
<1>5. SeenResolvedStands'
  <2>1. \A o \in Subject : cached'[o].state = "RESOLVED" => IsResolved(o)
    BY <1>2 DEF WorkbenchInv, WorkbenchTypeOK, SeenResolvedStands
  <2> QED
    BY <1>1, <2>1 DEF WorkbenchInv, SeenResolvedStands, IsResolved
<1>6. AnswersOnRecord'
  BY <1>1 DEF WorkbenchInv, AnswersOnRecord, IsResolved
<1>7. OneWinner'
  <2>1. \A u \in Tab : PastWalk(u)' => u # t /\ PastWalk(u)
    BY <1>1 DEF PastWalk
  <2> QED
    BY <1>1, <2>1 DEF WorkbenchInv, OneWinner, MovedIt
<1> QED
  BY <1>3, <1>4, <1>5, <1>6, <1>7 DEF WorkbenchInv, StoreInv

LEMMA ReadFreshKeepsInv ==
    ASSUME WorkbenchInv, NEW t \in Tab, ReadFresh(t)
    PROVE  WorkbenchInv'
<1>1. /\ request[t] # NoRequest /\ request[t].order \in Subject
      /\ cases[CaseOf(request[t].order)] \in CaseRow
  BY RequestShape, CasesOfOrders, RowOfExistingCase
     DEF ReadFresh, AtStep, WorkbenchInv, WorkbenchTypeOK, EveryCaseExists
<1> QED
  BY <1>1, RefusedKeepsInv DEF ReadFresh, serverVars, IsResolved

-----------------------------------------------------------------------------
(* The others.                                                              *)

LEMMA McpKeepsInv ==
    ASSUME WorkbenchInv, NEW a \in Analyst, NEW o \in Subject, NEW to \in CaseState,
           McpTransition(a, o, to)
    PROVE  WorkbenchInv'
<1>1. /\ Advance(CaseOf(o), cases[CaseOf(o)].version, <<to>>, a, NoNote)
      /\ audit' = audit /\ resolutions' = resolutions /\ cached' = cached
      /\ screen' = screen /\ request' = request /\ <<to>> \in Seq(CaseState)
  BY DEF McpTransition, serverVars
<1>2. /\ StoreInv' /\ EveryCaseExists'
      /\ \A p \in Subject : IsResolved(p) => cases'[CaseOf(p)] = cases[CaseOf(p)]
  BY <1>1, OrderMoves
<1>3. \A p \in Subject : IsResolved(p) => IsResolved(p)'
  BY <1>2 DEF IsResolved
<1>4. \A u \in Tab : request[u] # NoRequest => request[u].order \in Subject
  BY RequestShape DEF WorkbenchInv
<1>5. WorkbenchTypeOK'
  BY <1>1, <1>2 DEF WorkbenchInv, WorkbenchTypeOK, StoreInv
<1>6. SeenResolvedStands'
  <2>1. \A p \in Subject : cached'[p].state = "RESOLVED" => IsResolved(p)'
    BY <1>1, <1>3 DEF WorkbenchInv, SeenResolvedStands
  <2>2. ASSUME NEW u \in Tab, request[u] # NoRequest, request[u].row.state = "RESOLVED"
        PROVE  cases'[CaseOf(request[u].order)].state = "RESOLVED"
    <3>1. IsResolved(request[u].order)
      BY <2>2 DEF WorkbenchInv, SeenResolvedStands
    <3> QED
      BY <1>2, <1>4, <2>2, <3>1 DEF IsResolved
  <2> QED
    BY <1>1, <2>1, <2>2 DEF SeenResolvedStands, IsResolved
<1>7. AnswersOnRecord'
  BY <1>1, <1>3 DEF WorkbenchInv, AnswersOnRecord, OnRecord
<1>8. OneWinner'
  <2>1. \A u \in Tab : PastWalk(u) => cases'[CaseOf(request[u].order)] = cases[CaseOf(request[u].order)]
    BY <1>2, <1>4 DEF WorkbenchInv, OneWinner, PastWalk, IsResolved
  <2> QED
    BY <1>1, <2>1 DEF WorkbenchInv, OneWinner, PastWalk, MovedIt
<1> QED
  BY <1>2, <1>5, <1>6, <1>7, <1>8 DEF WorkbenchInv, StoreInv

LEMMA RestartKeepsInv ==
    ASSUME WorkbenchInv, Restart
    PROVE  WorkbenchInv'
<1>1. /\ resolutions' = [o \in Subject |-> LoadedResolution(o)]
      /\ cached' = [o \in Subject |-> cases[CaseOf(o)]]
      /\ request' = [t \in Tab |-> NoRequest]
      /\ cases' = cases /\ events' = events /\ audit' = audit /\ screen' = screen
  BY DEF Restart
<1>2. /\ StoreInv' /\ EveryCaseExists'
      /\ \A o \in Subject : cases[CaseOf(o)] \in CaseRow
  BY <1>1, StoreStandsStill
<1>3. \A o \in Subject : /\ LoadedResolution(o) \in Resolution \cup {"none"}
                         /\ LoadedResolution(o) # "none" => OnRecord(audit[o], LoadedResolution(o))
  <2> SUFFICES ASSUME NEW o \in Subject, audit[o] # <<>>
               PROVE  audit[o][Len(audit[o])] \in Resolution /\ OnRecord(audit[o], audit[o][Len(audit[o])])
    BY DEF LoadedResolution
  <2>1. audit[o] \in Seq(Resolution)
    BY DEF WorkbenchInv, WorkbenchTypeOK
  <2>2. Len(audit[o]) \in 1..Len(audit[o])
    BY <2>1, EmptySeq, LenProperties
  <2> QED
    BY <2>1, <2>2, LenProperties DEF OnRecord
<1>4. WorkbenchTypeOK'
  BY <1>1, <1>2, <1>3 DEF WorkbenchInv, WorkbenchTypeOK, StoreInv
<1>5. SeenResolvedStands'
  BY <1>1 DEF SeenResolvedStands, IsResolved
<1>6. AnswersOnRecord'
  <2>1. \A t \in Tab : request'[t] = NoRequest
    BY <1>1
  <2> QED
    BY <1>1, <1>3, <2>1 DEF WorkbenchInv, AnswersOnRecord, IsResolved
<1>7. OneWinner'
  BY <1>1 DEF OneWinner, PastWalk
<1> QED
  BY <1>2, <1>4, <1>5, <1>6, <1>7 DEF WorkbenchInv, StoreInv

\* Every step keeps the invariant.
LEMMA WorkbenchStepKeepsInv == WorkbenchInv /\ [WorkbenchNext]_workbenchVars => WorkbenchInv'
<1> SUFFICES ASSUME WorkbenchInv, [WorkbenchNext]_workbenchVars PROVE WorkbenchInv'
  OBVIOUS
<1>1. ASSUME NEW t \in Tab, LoadPage(t) PROVE WorkbenchInv'
  BY <1>1, LoadPageKeepsInv
<1>2. ASSUME NEW t \in Tab, NEW o \in Subject, NEW res \in Resolution, Post(t, o, res)
      PROVE  WorkbenchInv'
  BY <1>2, PostKeepsInv
<1>3. ASSUME NEW t \in Tab, Walk(t) PROVE WorkbenchInv'
  BY <1>3, WalkKeepsInv
<1>4. ASSUME NEW t \in Tab, SaveResolution(t) PROVE WorkbenchInv'
  BY <1>4, SaveResolutionKeepsInv
<1>5. ASSUME NEW t \in Tab, PublishAnswer(t) PROVE WorkbenchInv'
  BY <1>5, PublishAnswerKeepsInv
<1>6. ASSUME NEW t \in Tab, PublishCase(t) \/ CacheFresh(t) PROVE WorkbenchInv'
  BY <1>6, CachingKeepsInv DEF PublishCase, CacheFresh, AtStep
<1>7. ASSUME NEW t \in Tab, ReadFresh(t) PROVE WorkbenchInv'
  BY <1>7, ReadFreshKeepsInv
<1>8. ASSUME NEW a \in Analyst \ {Human}, NEW o \in Subject, NEW to \in CaseState,
             McpTransition(a, o, to)
      PROVE  WorkbenchInv'
  BY <1>8, McpKeepsInv
<1>9. CASE Restart
  BY <1>9, RestartKeepsInv
<1>10. CASE UNCHANGED workbenchVars
  BY <1>10, PageKeepsInv DEF workbenchVars, WorkbenchInv, WorkbenchTypeOK
<1> QED
  BY <1>1, <1>2, <1>3, <1>4, <1>5, <1>6, <1>7, <1>8, <1>9, <1>10
     DEF WorkbenchNext, HandlerStep

LEMMA WorkbenchInvariant == WorkbenchSpec => []WorkbenchInv
BY WorkbenchStarts, WorkbenchStepKeepsInv, PTL DEF WorkbenchSpec

(***************************************************************************)
(* An order leaves NEEDS YOU only on a recorded answer and with its case   *)
(* resolved, whatever tabs, MCP clients and kills do (do_POST /resolve,    *)
(* build_view, load_resolutions).                                          *)
(***************************************************************************)
THEOREM ReleasesAreRecorded == WorkbenchSpec => [](WorkbenchTypeOK /\ ReleasedOnlyIfRecorded)
<1>1. WorkbenchInv => WorkbenchTypeOK /\ ReleasedOnlyIfRecorded
  <2> SUFFICES ASSUME WorkbenchInv, NEW o \in Subject, Column(o) # "needs_you"
               PROVE  /\ cases[CaseOf(o)].state = "RESOLVED"
                      /\ \E i \in 1..Len(audit[o]) : audit[o][i] = resolutions[o]
    BY DEF WorkbenchInv, ReleasedOnlyIfRecorded
  <2>1. resolutions[o] # "none"
    BY DEF Column
  <2>2. OnRecord(audit[o], resolutions[o])
    BY <2>1 DEF WorkbenchInv, AnswersOnRecord
  <2>3. audit[o] # <<>>
    BY <2>2, EmptySeq DEF OnRecord, WorkbenchInv, WorkbenchTypeOK
  <2> QED
    BY <2>2, <2>3 DEF OnRecord, WorkbenchInv, AnswersOnRecord, IsResolved
<1> QED
  BY <1>1, WorkbenchInvariant, PTL

(***************************************************************************)
(* Of the requests past resolve_case for one order one moved its case, and *)
(* all of them hold the row the store keeps for good (resolve_case).       *)
(***************************************************************************)
THEOREM OneRequestWins == WorkbenchSpec => []OneWinner
BY WorkbenchInvariant, PTL DEF WorkbenchInv

=============================================================================
