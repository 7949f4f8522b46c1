----------------------------- MODULE CaseStore -----------------------------
(***************************************************************************)
(* The exception case store of ledger_daemon/cases.py: two SQLite tables,  *)
(* `cases` (one row per case) and `case_events` (its history), and the two *)
(* operations that write them.  Each operation runs inside one BEGIN       *)
(* IMMEDIATE transaction, so each is one atomic step here.  Who calls them *)
(* and with what they last read is left to the modules that extend this.   *)
(***************************************************************************)
EXTENDS Integers, Sequences

CONSTANTS
    Subject,      \* what a case is about: an order id or a quarantine id
    Reason,       \* the reason codes in use, a subset of REASON_CODES
    Certificate,  \* proof certificate ids a case may be opened with
    Note,         \* evidence refs and metadata a caller attaches to a call
    NoNote,       \* no evidence refs, empty metadata
    Analyst,      \* the actors that move cases
    Daemon,       \* the actor recorded on the opening event
    MaxVersion    \* bound: callers move no case past this version

REASON_CODES == {"AMBIGUOUS_MATCH", "POLICY_HOLD", "POLICY_ESCALATION",
                 "QUARANTINED_SOURCE", "PROOF_UNVERIFIED"}

ASSUME CaseConstants ==
    /\ Reason \subseteq REASON_CODES
    /\ Daemon \notin Analyst
    /\ NoNote \notin Note
    /\ MaxVersion \in Nat \ {0}

VARIABLES
    cases,   \* case id -> the row of table cases
    events   \* case id -> the rows of table case_events, ordered by seq

storeVars == <<cases, events>>

-----------------------------------------------------------------------------
(* The case graph.                                                          *)

CaseState == {"OPEN", "ASSIGNED", "INVESTIGATING", "EVIDENCE_REQUESTED",
              "EVIDENCE_RECEIVED", "VERIFIED", "RESOLVED", "WRITTEN_OFF",
              "ESCALATED"}

TERMINAL_STATES == {"RESOLVED", "WRITTEN_OFF"}

\* The edges written out in the source, before the escalation edges are added.
DeclaredEdges ==
    [s \in CaseState |->
        CASE s = "OPEN"               -> {"ASSIGNED"}
          [] s = "ASSIGNED"           -> {"INVESTIGATING"}
          [] s = "INVESTIGATING"      -> {"EVIDENCE_REQUESTED", "VERIFIED"}
          [] s = "EVIDENCE_REQUESTED" -> {"EVIDENCE_RECEIVED"}
          [] s = "EVIDENCE_RECEIVED"  -> {"VERIFIED", "EVIDENCE_REQUESTED"}
          [] s = "VERIFIED"           -> {"RESOLVED", "WRITTEN_OFF"}
          [] s = "ESCALATED"          -> {"INVESTIGATING", "RESOLVED", "WRITTEN_OFF"}
          [] OTHER                    -> {}]

\* Every nonterminal state but ESCALATED itself may also be escalated.
LEGAL_TRANSITIONS ==
    [s \in CaseState |->
        DeclaredEdges[s] \cup
        IF s \in TERMINAL_STATES \cup {"ESCALATED"} THEN {} ELSE {"ESCALATED"}]

\* The state a walk of `path` from `s` has reached before its i-th hop.
StateBefore(s, path, i) == IF i = 1 THEN s ELSE path[i - 1]

\* Each hop of `path` is an out-edge of the state the hop leaves.
LegalWalk(s, path) ==
    \A i \in 1..Len(path) : path[i] \in LEGAL_TRANSITIONS[StateBefore(s, path, i)]

\* The longest route path_to has to consider (OPEN to EVIDENCE_RECEIVED).
MaxRoute == 5

\* Fault variant: escalating counts as a hop like any other.
RoutesThroughEscalation(start, target) ==
    {r \in UNION {[1..n -> CaseState] : n \in 1..MaxRoute} :
        /\ LegalWalk(start, r)
        /\ r[Len(r)] = target
        /\ \A i \in 1..(Len(r) - 1) : r[i] \notin {start, target}}

\* The walks path_to searches: ESCALATED is never passed through on the way.
Routes(start, target) ==
    {r \in UNION {[1..n -> CaseState] : n \in 1..MaxRoute} :
        /\ LegalWalk(start, r)
        /\ r[Len(r)] = target
        /\ \A i \in 1..(Len(r) - 1) : r[i] \notin {"ESCALATED", start, target}}

\* A breadth-first search finds a shortest route.  The source breaks ties by
\* state name; this graph has none, so CHOOSE picks the same route.
ShortestRoute(start, target) ==
    CHOOSE r \in Routes(start, target) :
        \A q \in Routes(start, target) : Len(r) <= Len(q)

\* The routes a resolution takes; a function, so that TLC computes it once.
RouteToResolved ==
    [s \in {t \in CaseState : Routes(t, "RESOLVED") # {}} |->
        ShortestRoute(s, "RESOLVED")]

\* path_to(s, RESOLVED) raises IllegalTransition where there is no route.
HasRoute(s) == s = "RESOLVED" \/ s \in DOMAIN RouteToResolved
PathToResolved(s) == IF s = "RESOLVED" THEN <<>> ELSE RouteToResolved[s]

-----------------------------------------------------------------------------
(* The rows.  case_id hashes (order id, reason code); the hash is taken to   *)
(* be injective, so the pair itself is the id.                              *)

CaseId == Subject \X Reason

AbsentRow == [state |-> "ABSENT", version |-> 0]

CaseRow == [state : CaseState, version : Nat \ {0}, certificate : Certificate]

EventRow == [seq : Nat \ {0}, from : CaseState, to : CaseState,
             actor : Analyst \cup {Daemon},
             refs : Note \cup {NoNote}, metadata : Note \cup {NoNote}]

Exists(c) == cases[c].version # 0

StoreInit ==
    /\ cases = [c \in CaseId |-> AbsentRow]
    /\ events = [c \in CaseId |-> <<>>]

StoreTypeOK ==
    /\ cases \in [CaseId -> CaseRow \cup {AbsentRow}]
    /\ events \in [CaseId -> Seq(EventRow)]

-----------------------------------------------------------------------------
(* open_case: idempotent per (subject, reason); the first certificate wins.  *)

OpeningEvent == [seq |-> 1, from |-> "OPEN", to |-> "OPEN", actor |-> Daemon,
                 refs |-> NoNote, metadata |-> NoNote]

InsertCase(c, cert) ==
    /\ cases' = [cases EXCEPT ![c] =
                    [state |-> "OPEN", version |-> 1, certificate |-> cert]]
    /\ events' = [events EXCEPT ![c] = <<OpeningEvent>>]

\* Fault variant: an upsert, a re-run starts the case over.
OpenCaseUpsert(c, cert) == InsertCase(c, cert)

OpenCase(c, cert) ==
    IF Exists(c) THEN UNCHANGED storeVars ELSE InsertCase(c, cert)

-----------------------------------------------------------------------------
(* advance: a whole path of declared hops in one transaction, or none of it. *)

\* Fault variant: the version the caller presents is not compared.
AdvanceOutcomeUnversioned(c, expected, path) ==
    IF ~Exists(c) THEN "UnknownCase"
    ELSE IF path = <<>> THEN "unchanged"
    ELSE IF ~LegalWalk(cases[c].state, path) THEN "IllegalTransition"
    ELSE "moved"

\* Fault variant: the hops are not checked against the graph.
AdvanceOutcomeUnchecked(c, expected, path) ==
    IF ~Exists(c) THEN "UnknownCase"
    ELSE IF cases[c].version # expected THEN "VersionConflict"
    ELSE IF path = <<>> THEN "unchanged"
    ELSE "moved"

AdvanceOutcome(c, expected, path) ==
    IF ~Exists(c) THEN "UnknownCase"
    ELSE IF cases[c].version # expected THEN "VersionConflict"
    ELSE IF path = <<>> THEN "unchanged"
    ELSE IF ~LegalWalk(cases[c].state, path) THEN "IllegalTransition"
    ELSE "moved"

\* Fault variant: a one-click path counts as a single version.
NewRowOneVersion(c, path) ==
    [state |-> path[Len(path)], version |-> cases[c].version + 1,
     certificate |-> cases[c].certificate]

NewRow(c, path) ==
    [state |-> path[Len(path)], version |-> cases[c].version + Len(path),
     certificate |-> cases[c].certificate]

NewEvents(c, path, actor, note) ==
    [i \in 1..Len(path) |->
        [seq      |-> cases[c].version + i,
         from     |-> StateBefore(cases[c].state, path, i),
         to       |-> path[i],
         actor    |-> actor,
         refs     |-> note,
         metadata |-> IF i = Len(path) THEN note ELSE NoNote]]

Advance(c, expected, path, actor, note) ==
    IF AdvanceOutcome(c, expected, path) = "moved"
    THEN /\ cases' = [cases EXCEPT ![c] = NewRow(c, path)]
         /\ events' = [events EXCEPT ![c] = @ \o NewEvents(c, path, actor, note)]
    ELSE UNCHANGED storeVars

-----------------------------------------------------------------------------
(***************************************************************************)
(* The row is a projection of the history: cases.py keeps it only so that  *)
(* the workbench can list by state, and says it can be rebuilt from the    *)
(* events.  Its version counts the events, its state is where the last one *)
(* leads, the seq numbers have no gap, and each event leaves the state the *)
(* one before it reached along a declared edge.                            *)
(***************************************************************************)
Chained(log) ==
    \A i \in 1..Len(log) :
        /\ log[i].seq = i
        /\ IF i = 1
           THEN log[i].from = "OPEN" /\ log[i].to = "OPEN"
           ELSE /\ log[i].from = log[i - 1].to
                /\ log[i].to \in LEGAL_TRANSITIONS[log[i].from]

RowIsProjection(c) ==
    IF Exists(c)
    THEN /\ cases[c].version = Len(events[c])
         /\ cases[c].state = events[c][Len(events[c])].to
    ELSE cases[c] = AbsentRow /\ events[c] = <<>>

ProjectionMatchesHistory ==
    \A c \in CaseId : RowIsProjection(c) /\ Chained(events[c])

\* The history of c keeps every event it has, and the case its certificate.
HistoryGrows(c) ==
    /\ Len(events'[c]) >= Len(events[c])
    /\ \A i \in 1..Len(events[c]) : events'[c][i] = events[c][i]
    /\ Exists(c) => cases'[c].certificate = cases[c].certificate

=============================================================================
