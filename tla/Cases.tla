------------------------------- MODULE Cases -------------------------------
(***************************************************************************)
(* Analysts working the case store concurrently.  Each keeps the row it    *)
(* last read of every case (a screen, or an MCP client's view) and presents*)
(* that row's version when it moves the case: one declared hop             *)
(* (`transition`, `case_transition`) or the whole route to RESOLVED        *)
(* (`resolve_case`).  The pipeline opens cases again on every run.         *)
(***************************************************************************)
EXTENDS CaseStore

VARIABLE held         \* analyst -> case id -> the row it last read

vars == <<cases, events, held>>

Init ==
    /\ StoreInit
    /\ held = [a \in Analyst |-> [c \in CaseId |-> AbsentRow]]

TypeOK ==
    /\ StoreTypeOK
    /\ held \in [Analyst -> [CaseId -> CaseRow \cup {AbsentRow}]]

-----------------------------------------------------------------------------
\* open_exception_cases calls open_case for a subject of this run.
PipelineOpens(c, cert) ==
    /\ OpenCase(c, cert)
    /\ UNCHANGED held

\* get, find, by_order, list_cases: the analyst reads the committed row.
Read(a, c) ==
    /\ Exists(c)
    /\ held' = [held EXCEPT ![a][c] = cases[c]]
    /\ UNCHANGED storeVars

\* advance presents the held version; it returns the row it wrote, and a
\* refusal leaves the caller with the row it already had.
Present(a, c, path, note) ==
    /\ held[a][c] # AbsentRow
    /\ cases[c].version + Len(path) <= MaxVersion
    /\ Advance(c, held[a][c].version, path, a, note)
    /\ held' = [held EXCEPT ![a][c] =
                    IF AdvanceOutcome(c, held[a][c].version, path) = "moved"
                    THEN NewRow(c, path) ELSE @]

\* One hop; the target is the caller's and need not be an out-edge.
Transition(a, c, target) == Present(a, c, <<target>>, NoNote)

\* resolve_case: the route is computed from the state on the screen, not from
\* the state in the store.
Resolve(a, c, note) ==
    /\ held[a][c] # AbsentRow
    /\ HasRoute(held[a][c].state)
    /\ Present(a, c, PathToResolved(held[a][c].state), note)

Next ==
    \/ \E c \in CaseId, cert \in Certificate : PipelineOpens(c, cert)
    \/ \E a \in Analyst, c \in CaseId :
        \/ Read(a, c)
        \/ \E target \in CaseState : Transition(a, c, target)
        \/ \E note \in Note : Resolve(a, c, note)

Spec == Init /\ [][Next]_vars

-----------------------------------------------------------------------------
(***************************************************************************)
(* Every row an analyst holds is a row the case really had: the version    *)
(* names a prefix of the history, and the state it shows is where that     *)
(* prefix ends.  Versions therefore identify states; a case that left a    *)
(* state and came back to it does not match a version taken before.        *)
(***************************************************************************)
HeldRowIsPrefix(a, c) ==
    LET row == held[a][c] IN
    row # AbsentRow =>
        /\ Exists(c)
        /\ row.version <= Len(events[c])
        /\ row.state = events[c][row.version].to
        /\ row.certificate = cases[c].certificate

SnapshotsArePrefixes ==
    \A a \in Analyst, c \in CaseId : HeldRowIsPrefix(a, c)

(***************************************************************************)
(* No lost update: whoever moves a case was looking at exactly the row the *)
(* move replaces, and the history names that analyst.  Of two analysts     *)
(* holding one version, the second to commit therefore changes nothing.    *)
(***************************************************************************)
MovedFromCurrentRow(c) ==
    Exists(c) /\ cases'[c] # cases[c] =>
        \E a \in Analyst :
            /\ held[a][c] = cases[c]
            /\ events'[c][Len(events'[c])].actor = a

NoLostUpdate == [][\A c \in CaseId : MovedFromCurrentRow(c)]_vars

(***************************************************************************)
(* case_events is append-only: no step, re-runs of the pipeline included,  *)
(* removes or rewrites an event, and the certificate that first raised a   *)
(* case stays with it.                                                     *)
(***************************************************************************)
HistoryAppendOnly == [][\A c \in CaseId : HistoryGrows(c)]_vars

(***************************************************************************)
(* Escalating is a human judgement about a case, never a waypoint of the   *)
(* one-click route: a move of several hops records no escalation.          *)
(***************************************************************************)
NoSilentEscalation ==
    [][\A c \in CaseId :
        Len(events'[c]) > Len(events[c]) + 1 =>
            \A i \in (Len(events[c]) + 1)..Len(events'[c]) :
                events'[c][i].to # "ESCALATED"]_vars

-----------------------------------------------------------------------------
\* The store implements the linear history.
StateLog(log) == [i \in 1..Len(log) |-> log[i].to]

LinearHistory == INSTANCE CaseHistory WITH
    Cases   <- CaseId,
    First   <- "OPEN",
    Edges   <- {e \in CaseState \X CaseState : e[2] \in LEGAL_TRANSITIONS[e[1]]},
    history <- [c \in CaseId |-> StateLog(events[c])]

ImplementsHistory == LinearHistory!Spec

=============================================================================
