----------------------------- MODULE Workbench -----------------------------
(***************************************************************************)
(* The chase-list server of ledger_daemon/ui.py: browser tabs resolving    *)
(* held orders through a threading HTTP server that shares two in-memory   *)
(* dicts between its request threads, the case store and the audit table   *)
(* behind it (a transaction each), another process moving cases over MCP,  *)
(* and the server being killed and started again.                          *)
(*                                                                         *)
(* One order has one case, raised for HoldReason.  A step is one database  *)
(* transaction, one dict assignment, or one rendering of the page.         *)
(***************************************************************************)
EXTENDS CaseStore

CONSTANTS
    Tab,         \* open browser tabs; each waits for its own request
    HoldReason,  \* why every order here is held
    Human        \* the actor resolve_case records

Resolution == {"paid", "unpaid"}

ASSUME WorkbenchConstants ==
    /\ Reason = {HoldReason}
    /\ Human \in Analyst
    /\ Resolution \subseteq Note

VARIABLES
    audit,        \* order -> the resolutions in the audit table, oldest first
    resolutions,  \* state["resolutions"]: order -> the answer in force
    cached,       \* state["cases"]: order -> the row the server last saw
    screen,       \* tab -> order -> the version its buttons post, 0 for none
    request       \* tab -> its POST /resolve, as far as the handler has got

serverVars == <<resolutions, cached>>
workbenchVars == <<cases, events, audit, resolutions, cached, screen, request>>

CaseOf(o) == <<o, HoldReason>>

NoRequest == [at |-> "idle"]

\* `row` is the cached case the handler works from, then the row it gets back.
Request == [at : {"posted", "walked", "saved", "published", "conflict", "fresh"},
            order : Subject, resolution : Resolution,
            expected : Nat \ {0}, row : CaseRow]

Blank == [o \in Subject |-> 0]

\* The server has just started on an empty database and opened its cases.
WorkbenchInit ==
    /\ \E cert \in Certificate :
        /\ cases = [c \in CaseId |->
                      [state |-> "OPEN", version |-> 1, certificate |-> cert]]
        /\ cached = [o \in Subject |->
                      [state |-> "OPEN", version |-> 1, certificate |-> cert]]
    /\ events = [c \in CaseId |-> <<OpeningEvent>>]
    /\ audit = [o \in Subject |-> <<>>]
    /\ resolutions = [o \in Subject |-> "none"]
    /\ screen = [t \in Tab |-> Blank]
    /\ request = [t \in Tab |-> NoRequest]

WorkbenchTypeOK ==
    /\ StoreTypeOK
    /\ audit \in [Subject -> Seq(Resolution)]
    /\ \A o \in Subject : \A i, j \in 1..Len(audit[o]) :
            i # j => audit[o][i] # audit[o][j]
    /\ resolutions \in [Subject -> Resolution \cup {"none"}]
    /\ cached \in [Subject -> CaseRow]
    /\ screen \in [Tab -> [Subject -> Nat]]
    /\ request \in [Tab -> Request \cup {NoRequest}]

-----------------------------------------------------------------------------
(* GET /app.                                                                *)

\* build_view: the column of a held order.
Column(o) ==
    CASE resolutions[o] = "paid"   -> "blocked"
      [] resolutions[o] = "unpaid" -> "safe"
      [] OTHER                     -> "needs_you"

\* Only the needs_you rows are rendered with buttons.
LoadPage(t) ==
    /\ request[t] = NoRequest
    /\ screen' = [screen EXCEPT ![t] =
                    [o \in Subject |->
                        IF Column(o) = "needs_you" THEN cached[o].version ELSE 0]]
    /\ UNCHANGED <<cases, events, audit, serverVars, request>>

-----------------------------------------------------------------------------
(* POST /resolve.  The page posts the version it was rendered with; the      *)
(* handler works from the case the server has cached.                       *)

Post(t, o, res) ==
    /\ request[t] = NoRequest
    /\ screen[t][o] # 0
    /\ request' = [request EXCEPT ![t] =
                    [at |-> "posted", order |-> o, resolution |-> res,
                     expected |-> screen[t][o], row |-> cached[o]]]
    /\ UNCHANGED <<cases, events, audit, serverVars, screen>>

AtStep(t, at) == request[t] # NoRequest /\ request[t].at = at

\* The handler goes on to step `at`, holding `row`.
Proceed(t, at, row) ==
    request' = [request EXCEPT ![t] =
                    [at |-> at, order |-> request[t].order,
                     resolution |-> request[t].resolution,
                     expected |-> request[t].expected, row |-> row]]

\* The reply arrives; the page reloads and shows nothing until it has.
Reply(t) ==
    /\ request' = [request EXCEPT ![t] = NoRequest]
    /\ screen' = [screen EXCEPT ![t] = Blank]

\* An exception do_POST does not catch: the thread ends, no reply is sent, the
\* page stays as it is.
Dies(t) ==
    /\ request' = [request EXCEPT ![t] = NoRequest]
    /\ UNCHANGED <<cases, events, screen>>

\* resolve_case: the route from the cached state, the version of the screen.
WalkOutcome(r) ==
    IF HasRoute(r.row.state)
    THEN AdvanceOutcome(CaseOf(r.order), r.expected, PathToResolved(r.row.state))
    ELSE "IllegalTransition"

Walk(t) ==
    LET r == request[t]
        c == CaseOf(r.order)
    IN
    /\ AtStep(t, "posted")
    /\ \/ /\ WalkOutcome(r) = "moved"
          /\ Advance(c, r.expected, PathToResolved(r.row.state), Human, r.resolution)
          /\ Proceed(t, "walked", cases'[c])
          /\ UNCHANGED screen
       \/ /\ WalkOutcome(r) = "unchanged"
          /\ Proceed(t, "walked", cases[c])
          /\ UNCHANGED <<cases, events, screen>>
       \/ /\ WalkOutcome(r) = "VersionConflict"
          /\ Proceed(t, "conflict", r.row)
          /\ UNCHANGED <<cases, events, screen>>
       \/ /\ WalkOutcome(r) = "IllegalTransition"
          /\ Dies(t)
    /\ UNCHANGED <<audit, serverVars>>

\* save_resolution: the row's key is (order, resolution), so an answer given
\* before is not written again.
Saved(log, res) ==
    IF \E i \in 1..Len(log) : log[i] = res THEN log ELSE Append(log, res)

SaveResolution(t) ==
    LET r == request[t] IN
    /\ AtStep(t, "walked")
    /\ audit' = [audit EXCEPT ![r.order] = Saved(@, r.resolution)]
    /\ Proceed(t, "saved", r.row)
    /\ UNCHANGED <<cases, events, serverVars, screen>>

\* Fault variant: the answer is in force before it is on record.
PublishAnswerFirst(t) ==
    LET r == request[t] IN
    /\ AtStep(t, "walked") \/ AtStep(t, "saved")
    /\ resolutions' = [resolutions EXCEPT ![r.order] = r.resolution]
    /\ Proceed(t, "published", r.row)
    /\ UNCHANGED <<cases, events, audit, cached, screen>>

PublishAnswer(t) ==
    LET r == request[t] IN
    /\ AtStep(t, "saved")
    /\ resolutions' = [resolutions EXCEPT ![r.order] = r.resolution]
    /\ Proceed(t, "published", r.row)
    /\ UNCHANGED <<cases, events, audit, cached, screen>>

PublishCase(t) ==
    LET r == request[t] IN
    /\ AtStep(t, "published")
    /\ cached' = [cached EXCEPT ![r.order] = r.row]
    /\ Reply(t)
    /\ UNCHANGED <<cases, events, audit, resolutions>>

\* A refused screen: the handler re-reads the case, then caches what it read.
ReadFresh(t) ==
    /\ AtStep(t, "conflict")
    /\ Proceed(t, "fresh", cases[CaseOf(request[t].order)])
    /\ UNCHANGED <<cases, events, audit, serverVars, screen>>

CacheFresh(t) ==
    LET r == request[t] IN
    /\ AtStep(t, "fresh")
    /\ cached' = [cached EXCEPT ![r.order] = r.row]
    /\ Reply(t)
    /\ UNCHANGED <<cases, events, audit, resolutions>>

-----------------------------------------------------------------------------
\* Another process takes one hop with the version it has just read.
McpTransition(a, o, to) ==
    LET c == CaseOf(o) IN
    /\ cases[c].version < MaxVersion
    /\ Advance(c, cases[c].version, <<to>>, a, NoNote)
    /\ UNCHANGED <<audit, serverVars, screen, request>>

\* Fault variant: the server starts without its answers.
NoResolutionLoaded(o) == "none"

\* load_resolutions: the last row of an order is the one in force.
LoadedResolution(o) ==
    IF audit[o] = <<>> THEN "none" ELSE audit[o][Len(audit[o])]

\* The server is killed, with the requests it was serving, and started again:
\* every case exists, so opening them changes nothing.  Tabs stay open.
Restart ==
    /\ resolutions' = [o \in Subject |-> LoadedResolution(o)]
    /\ cached' = [o \in Subject |-> cases[CaseOf(o)]]
    /\ request' = [t \in Tab |-> NoRequest]
    /\ UNCHANGED <<cases, events, audit, screen>>

\* What the thread of a tab's request may do next.
HandlerStep(t) ==
    \/ Walk(t)
    \/ SaveResolution(t)
    \/ PublishAnswer(t)
    \/ PublishCase(t)
    \/ ReadFresh(t)
    \/ CacheFresh(t)

WorkbenchNext ==
    \/ \E t \in Tab :
        \/ LoadPage(t)
        \/ \E o \in Subject, res \in Resolution : Post(t, o, res)
        \/ HandlerStep(t)
    \/ \E a \in Analyst \ {Human}, o \in Subject, to \in CaseState :
        McpTransition(a, o, to)
    \/ Restart

\* A request has a thread of its own, which nothing it does can block for
\* good: a database call waits for the lock, the rest is assignments.  People,
\* MCP clients and kills owe nothing.
Fairness == \A t \in Tab : WF_workbenchVars(HandlerStep(t))

WorkbenchSpec == WorkbenchInit /\ [][WorkbenchNext]_workbenchVars /\ Fairness

-----------------------------------------------------------------------------
(***************************************************************************)
(* A held order leaves NEEDS YOU, for the chase list or for BLOCKED, only  *)
(* on an answer that is in the audit table and so survives the server, and *)
(* with its case resolved, whatever crashed or moved in between.           *)
(***************************************************************************)
ReleasedOnlyIfRecorded ==
    \A o \in Subject :
        Column(o) # "needs_you" =>
            /\ cases[CaseOf(o)].state = "RESOLVED"
            /\ \E i \in 1..Len(audit[o]) : audit[o][i] = resolutions[o]

(***************************************************************************)
(* Of the requests past resolve_case for one order, at most one moved the  *)
(* case: every other had a screen that already showed it resolved.  All of *)
(* them hold the row the store keeps for good.                             *)
(***************************************************************************)
PastWalk(t) == request[t] # NoRequest /\ request[t].at \in {"walked", "saved", "published"}

MovedIt(t) == request[t].expected # cases[CaseOf(request[t].order)].version

OneWinner ==
    \A t \in Tab : PastWalk(t) =>
        /\ request[t].row = cases[CaseOf(request[t].order)]
        /\ request[t].row.state = "RESOLVED"
        /\ MovedIt(t) =>
            \A u \in Tab \ {t} :
                (PastWalk(u) /\ request[u].order = request[t].order) => ~MovedIt(u)

(***************************************************************************)
(* An answer on record takes force: once save_resolution has written it,   *)
(* the order leaves NEEDS YOU, whether the handler lives to publish it or  *)
(* the server is killed first and finds it in the audit table at its next  *)
(* start.                                                                  *)
(***************************************************************************)
RecordedAnswerTakesForce ==
    \A o \in Subject : audit[o] # <<>> ~> Column(o) # "needs_you"
=============================================================================
