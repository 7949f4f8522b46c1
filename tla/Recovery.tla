------------------------------ MODULE Recovery ------------------------------
(***************************************************************************)
(* Money actions from proposal to audit row: the executor                  *)
(* (ledger_daemon/executor.py) as the tool servers (mcp_server.py) and the *)
(* demo command (cli.py) drive it over one database, the batch on disk     *)
(* changing under them.  An action is gated, then performed outside the    *)
(* database, then recorded in it; a server or the demo may be killed       *)
(* between any two of these, and an adapter may fail.                      *)
(*                                                                         *)
(* Every caller leaves the attempt number at 1, so an order and an action  *)
(* type name the audit row.                                                *)
(***************************************************************************)
EXTENDS Policy, Sequences, FiniteSets

CONSTANTS
    Order, Server,
    Situations,  \* what a batch may say of an order
    NoRow,       \* no audit row has this key
    MaxCalls     \* bound on the actions performed per order and type

ASSUME RecoveryConstants ==
    /\ Situations \subseteq Situation
    /\ NoRow \notin Nat
    /\ MaxCalls \in Nat
    /\ Order # {} /\ Server # {} /\ "demo" \notin Server

LINK == "CREATE_PAYMENT_LINK"
DRAFT == "DRAFT_REMINDER"

EventId == Order \X {LINK, DRAFT}
Caller == Server \cup {"demo"}
Evidence == [Order -> Situations]

VARIABLES
    batch,      \* order -> what the files in data/batch say of it
    schema,     \* the audit table exists
    audit,      \* event id -> the amount its row records, or NoRow
    loaded,     \* server -> the batch it reconciled, <<>> when it has to read
    proposals,  \* server -> order -> the amount proposed, 0 for none
    call,       \* caller -> the action it is executing, or Idle
    demo,       \* the demo's stage, and the actions it still has to take
    calls,      \* event id -> the actions performed, in order (history)
    fresh       \* event id -> replies without idempotent_replay (history)

diskVars == <<schema, audit, fresh>>
vars == <<batch, diskVars, loaded, proposals, call, demo, calls>>

Idle == [at |-> "idle"]
NoDemo == [at |-> "idle"]

\* `gated`: what the gate read before it allowed the action.
Call == [at : {"gated", "performed"}, event : EventId, amount : Nat, gated : Situations]

DemoStage == [at : {"generated", "removed"}, batch : Evidence] \cup
             [at : {"executing"}, batch : Evidence, pending : SUBSET EventId]

Init ==
    /\ batch \in Evidence
    /\ schema = TRUE
    /\ audit = [e \in EventId |-> NoRow]
    /\ loaded = [s \in Server |-> <<>>]
    /\ proposals = [s \in Server |-> [o \in Order |-> 0]]
    /\ call = [c \in Caller |-> Idle]
    /\ demo = NoDemo
    /\ calls = [e \in EventId |-> <<>>]
    /\ fresh = [e \in EventId |-> 0]

TypeOK ==
    /\ batch \in Evidence
    /\ schema \in BOOLEAN
    /\ audit \in [EventId -> Nat \cup {NoRow}]
    /\ loaded \in [Server -> Evidence \cup {<<>>}]
    /\ proposals \in [Server -> [Order -> Nat]]
    /\ call \in [Caller -> Call \cup {Idle}]
    /\ demo \in DemoStage \cup {NoDemo}
    /\ calls \in [EventId -> Seq([amount : Nat, gated : Situations])]
    /\ fresh \in [EventId -> Nat]

-----------------------------------------------------------------------------
(* The executor.                                                            *)

Recorded(e) == audit[e] # NoRow

\* attempts: the executor's rows for the order.
Attempts(o) == Cardinality({e \in EventId : e[1] = o /\ Recorded(e)})

Begin(c, e, amount, s) ==
    call' = [call EXCEPT ![c] =
                [at |-> "gated", event |-> e, amount |-> amount, gated |-> s]]

Finish(c) == call' = [call EXCEPT ![c] = Idle]

Performing(c) ==
    LET e == call[c].event IN
    calls' = [calls EXCEPT ![e] =
                Append(@, [amount |-> call[c].amount, gated |-> call[c].gated])]

\* execute, up to the adapter's answer or the draft's file.
Perform(c) ==
    /\ call[c] # Idle /\ call[c].at = "gated"
    /\ Performing(c)
    /\ call' = [call EXCEPT ![c].at = "performed"]
    /\ UNCHANGED <<batch, diskVars, loaded, proposals, demo>>

\* The adapter raises, before the link was created or after (a timeout).
AdapterFails(s) ==
    /\ call[s] # Idle /\ call[s].at = "gated"
    /\ Performing(s) \/ UNCHANGED calls
    /\ Finish(s)
    /\ UNCHANGED <<batch, diskVars, loaded, proposals, demo>>

\* Fault variant: INSERT OR REPLACE.
InsertOrReplace(e, amount) ==
    /\ audit' = [audit EXCEPT ![e] = amount]
    /\ fresh' = [fresh EXCEPT ![e] = @ + 1]

\* audit_write: the primary key refuses a second row of the same event.
Insert(e, amount) ==
    IF Recorded(e)
    THEN UNCHANGED <<audit, fresh>>
    ELSE /\ audit' = [audit EXCEPT ![e] = amount]
         /\ fresh' = [fresh EXCEPT ![e] = @ + 1]

\* Fault variant: the row is written before the action is performed.
RecordEarly(c) ==
    /\ call[c] # Idle
    /\ IF schema
       THEN Insert(call[c].event, call[c].amount)
       ELSE UNCHANGED <<audit, fresh>>
    /\ Finish(c)
    /\ UNCHANGED <<batch, schema, loaded, proposals, demo, calls>>

\* execute, from the insert on.  Without the table the insert raises.
Record(c) ==
    /\ call[c] # Idle /\ call[c].at = "performed"
    /\ IF schema
       THEN Insert(call[c].event, call[c].amount)
       ELSE UNCHANGED <<audit, fresh>>
    /\ Finish(c)
    /\ UNCHANGED <<batch, schema, loaded, proposals, demo, calls>>

-----------------------------------------------------------------------------
(* A tool server.  It answers one request at a time.                        *)

\* _ensure: a batch is read once.
Evident(s) == IF loaded[s] = <<>> THEN batch ELSE loaded[s]

Ensured(s) == loaded' = [loaded EXCEPT ![s] = Evident(s)]

\* reconcile on another directory: the next call reads data/batch again.
ReconcileElsewhere(s) ==
    /\ call[s] = Idle
    /\ loaded' = [loaded EXCEPT ![s] = <<>>]
    /\ UNCHANGED <<batch, diskVars, proposals, call, demo, calls>>

Chased(s, o) == Allows(Evident(s)[o], LINK, Attempts(o), 0, NoConfidence)

\* Proposals are added or replaced, never withdrawn.  Without the audit table
\* counting the attempts raises.
ProposeRecovery(s) ==
    /\ call[s] = Idle
    /\ Ensured(s)
    /\ proposals' = [proposals EXCEPT ![s] =
                        [o \in Order |->
                            IF schema /\ Chased(s, o) THEN ChaseAmount(Evident(s)[o])
                                                      ELSE @[o]]]
    /\ UNCHANGED <<batch, diskVars, call, demo, calls>>

\* Fault variant: what was proposed is not gated again.
ApproveUngated(s, o) ==
    /\ call[s] = Idle
    /\ proposals[s][o] # 0
    /\ Len(calls[<<o, LINK>>]) < MaxCalls
    /\ Ensured(s)
    /\ Begin(s, <<o, LINK>>, proposals[s][o], Evident(s)[o])
    /\ UNCHANGED <<batch, diskVars, proposals, demo, calls>>

\* approve: gated again, on the evidence loaded, for the amount proposed.
Approve(s, o) ==
    /\ call[s] = Idle
    /\ proposals[s][o] # 0
    /\ Len(calls[<<o, LINK>>]) < MaxCalls
    /\ Ensured(s)
    /\ IF schema /\ Chased(s, o)
       THEN Begin(s, <<o, LINK>>, proposals[s][o], Evident(s)[o])
       ELSE UNCHANGED call
    /\ UNCHANGED <<batch, diskVars, proposals, demo, calls>>

\* The server is killed and started again; starting creates the table.
Restart(s) ==
    /\ loaded' = [loaded EXCEPT ![s] = <<>>]
    /\ proposals' = [proposals EXCEPT ![s] = [o \in Order |-> 0]]
    /\ Finish(s)
    /\ schema' = TRUE
    /\ UNCHANGED <<batch, audit, fresh, demo, calls>>

-----------------------------------------------------------------------------
(* The commands.                                                            *)

\* generate: another batch in the same directory.
Generate ==
    /\ batch' \in Evidence
    /\ UNCHANGED <<diskVars, loaded, proposals, call, demo, calls>>

\* demo: another batch, and what reconciliation makes of it ...
DemoGenerate ==
    /\ demo = NoDemo
    /\ batch' \in Evidence
    /\ demo' = [at |-> "generated", batch |-> batch']
    /\ UNCHANGED <<diskVars, loaded, proposals, call, calls>>

\* ... the database file removed ...
DemoRemoveDb ==
    /\ demo.at = "generated"
    /\ schema' = FALSE
    /\ audit' = [e \in EventId |-> NoRow]
    /\ fresh' = [e \in EventId |-> 0]
    /\ demo' = [at |-> "removed", batch |-> demo.batch]
    /\ UNCHANGED <<batch, loaded, proposals, call, calls>>

\* ... an executor opened on it, and every order gated, with no attempts ...
DemoGate ==
    /\ demo.at = "removed"
    /\ schema' = TRUE
    /\ demo' = [at |-> "executing", batch |-> demo.batch,
                pending |-> {e \in EventId : Allows(demo.batch[e[1]], LINK, 0, 0, NoConfidence)}]
    /\ UNCHANGED <<batch, audit, fresh, loaded, proposals, call, calls>>

\* ... and a link, then a draft, for each order allowed.
DemoExecute(e) ==
    /\ demo.at = "executing" /\ e \in demo.pending
    /\ call["demo"] = Idle
    /\ e[2] = DRAFT => <<e[1], LINK>> \notin demo.pending
    /\ Len(calls[e]) < MaxCalls
    /\ demo' = [at |-> "executing", batch |-> demo.batch, pending |-> demo.pending \ {e}]
    /\ Begin("demo", e, ChaseAmount(demo.batch[e[1]]), demo.batch[e[1]])
    /\ UNCHANGED <<batch, diskVars, loaded, proposals, calls>>

\* The demo is done, or is killed.
DemoEnds ==
    /\ demo # NoDemo
    /\ demo' = NoDemo
    /\ Finish("demo")
    /\ UNCHANGED <<batch, diskVars, loaded, proposals, calls>>

-----------------------------------------------------------------------------
ServerStep(s) ==
    \/ ReconcileElsewhere(s)
    \/ ProposeRecovery(s)
    \/ \E o \in Order : Approve(s, o)
    \/ Perform(s)
    \/ Record(s)
    \/ Restart(s)

DemoStep ==
    \/ DemoGenerate
    \/ DemoRemoveDb
    \/ DemoGate
    \/ \E e \in EventId : DemoExecute(e)
    \/ Perform("demo")
    \/ Record("demo")
    \/ DemoEnds

NextServing == (\E s \in Server : ServerStep(s)) \/ Generate

Next ==
    \/ NextServing
    \/ \E s \in Server : AdapterFails(s)
    \/ DemoStep

Spec == Init /\ [][Next]_vars

\* No adapter fails, and no demo starts over from an empty database.
ServingSpec == Init /\ [][NextServing]_vars

-----------------------------------------------------------------------------
(***************************************************************************)
(* An audit row tells of something that happened: an action was performed, *)
(* for the amount the row records, before the row was written.  A failed   *)
(* adapter, a killed server or a race for the key leaves no row behind     *)
(* that nothing stands for.                                                *)
(***************************************************************************)
RowHasAction ==
    \A e \in EventId : Recorded(e) =>
        \E i \in 1..Len(calls[e]) : calls[e][i].amount = audit[e]

(***************************************************************************)
(* "Exactly one audit row survives" any number of executions of the same   *)
(* event, and exactly one caller is told that it wrote it; everyone else   *)
(* learns of a replay (tests/test_idempotency.py).                         *)
(***************************************************************************)
OneCallerIsFirst ==
    \A e \in EventId : fresh[e] = IF Recorded(e) THEN 1 ELSE 0

(***************************************************************************)
(* "Approval does not bypass policy": no link is created and no reminder   *)
(* drafted unless the evidence its caller held at that moment, whatever    *)
(* was proposed earlier and on what evidence, says that the order is       *)
(* chaseable, worth chasing and proven.                                    *)
(***************************************************************************)
Earned(s) ==
    /\ s.verdict \in CHASEABLE_VERDICTS
    /\ s.bank_coverage_ok
    /\ ExpectedValue(s) > COST_WRONG_CHASE_PAISE
    /\ HasProof(s)

NothingBypassesPolicy ==
    \A e \in EventId : \A i \in 1..Len(calls[e]) : Earned(calls[e][i].gated)

-----------------------------------------------------------------------------
(***************************************************************************)
(* "The database rejects duplicate actions": one action is performed once. *)
(* The code breaks this: the key is consulted after the adapter was called *)
(* and refuses the row, not the action.                                    *)
(***************************************************************************)
ActionTakenOnce == \A e \in EventId : Len(calls[e]) <= 1

=============================================================================
