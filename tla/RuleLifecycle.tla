--------------------------- MODULE RuleLifecycle ----------------------------
(***************************************************************************)
(* Learned rules, ledger_daemon/rules.py and replay.py, over one SQLite    *)
(* file: the bootstrap of the analyst registry, one-time capabilities that *)
(* expire, a case resolved under one, the rule compiled from it, its       *)
(* replay, approval and activation.  Callers are processes that may be     *)
(* killed between any two steps; a step is one transaction, or the reads   *)
(* that a call makes before it.                                            *)
(*                                                                         *)
(* A rule's id covers its case, so a rule and its case are one value.  The *)
(* evidence registry is in place and supports the suggested parameters.    *)
(***************************************************************************)
EXTENDS ReplayGate

CONSTANTS
    Rule,            \* rules, and the cases they are compiled from
    Caller,          \* processes
    Operator,        \* processes that bootstrap the registry
    NoOperator,      \* not one of them
    Analyst,         \* human actors
    NoOne,           \* not one of them
    Allowance,       \* operator -> the actions it allows each analyst
    ImportSubject,   \* the subject that names the corpora
    Capability,      \* what analysts may be issued
    Confirmed,       \* corpora of confirmed cases
    Attack,          \* corpora of attacks
    MaxCaseVersion,  \* other moves end at this version of a case (model checking)
    MaxClock         \* the clock stops there (model checking)

HumanAction == {"RESOLVE", "APPROVE", "ACTIVATE", "IMPORT_REPLAY"}
RuleStatus == {"PROPOSED", "REPLAY_PASSED", "APPROVED", "ACTIVE", "REJECTED"}

\* `nonce` tells apart capabilities that agree on everything else.
HumanAuthority ==
    [nonce : Nat, actor : Analyst, action : HumanAction,
     subject : Rule \cup {ImportSubject}, version : Nat \ {0}, expires : Nat]

ASSUME RuleConstants ==
    /\ NoOperator \notin Operator
    /\ NoOne \notin Analyst
    /\ ImportSubject \notin Rule
    /\ Allowance \in [Operator -> [Analyst -> SUBSET HumanAction]]
    /\ Capability \subseteq HumanAuthority
    /\ Confirmed \subseteq Seq(Outcome) \ {<<>>}
    /\ Attack \subseteq Seq(Outcome) \ {<<>>}
    /\ MaxCaseVersion \in Nat \ {0}
    /\ MaxClock \in Nat

VARIABLES
    clock,        \* the UTC second
    registry,     \* analyst_registry: who bootstrapped it
    bootstrap,    \* operators that have looked and found no registry
    cases,        \* rule -> its case: the version it has, or was resolved at, and how
    used,         \* used_human_capabilities
    imported,     \* there is a replay runner with its corpora
    rules,        \* rule_versions: rule -> its rows, oldest first
    call,         \* caller -> the call it is in
    activations   \* the activation receipts handed out

vars == <<clock, registry, bootstrap, cases, used, imported, rules, call, activations>>

Open == [by |-> "open"]
Untrusted == [by |-> "untrusted"]
By(c, teaches) == [by |-> "human", cap |-> c, teaches |-> teaches]

Case ==
    [version : Nat \ {0},
     resolution : {Open, Untrusted}
                  \cup {By(c, teaches) : c \in Capability, teaches \in BOOLEAN}]

NoReplay == [confirmed |-> <<>>, attacks |-> <<>>]
Replay == [confirmed : Confirmed, attacks : Attack]

\* A row of rule_versions; its version is its position.  Approver and activator
\* are there in the statuses that have them, and in no other.
Row ==
    {row \in [status : RuleStatus, author : Analyst, approver : Analyst \cup {NoOne},
              activated_by : Analyst \cup {NoOne}, replay : Replay \cup {NoReplay}] :
        /\ row.approver # NoOne <=> row.status \in {"APPROVED", "ACTIVE"}
        /\ row.activated_by # NoOne <=> row.status = "ACTIVE"}

Idle == [at |-> "idle"]
Verified(c) == [at |-> "verified", cap |-> c, registry |-> registry]
Compiled(r, author) == [at |-> "compiled", rule |-> r, author |-> author]
Replayed(r, expected, replay) ==
    [at |-> "replayed", rule |-> r, expected |-> expected, replay |-> replay]
Activated(r, id, version, actor) ==
    [at |-> "activated", rule |-> r, registry |-> id, version |-> version, actor |-> actor]

VerifiedCall == [at : {"verified"}, cap : Capability, registry : Operator]
CompiledCall == [at : {"compiled"}, rule : Rule, author : Analyst]
ReplayedCall == [at : {"replayed"}, rule : Rule, expected : Nat, replay : Replay]
ActivatedCall ==
    [at : {"activated"}, rule : Rule, registry : Operator, version : Nat, actor : Analyst]

Call == {Idle} \cup VerifiedCall \cup CompiledCall \cup ReplayedCall \cup ActivatedCall

ActivationReceipt ==
    [rule : Rule, version : Nat, history : Seq(Row), registry : Operator, by : Analyst]

TypeOK ==
    /\ clock \in Nat
    /\ registry \in Operator \cup {NoOperator}
    /\ bootstrap \subseteq Operator
    /\ cases \in [Rule -> Case]
    /\ used \subseteq Capability
    /\ imported \in BOOLEAN
    /\ rules \in [Rule -> Seq(Row)]
    /\ call \in [Caller -> Call]
    /\ activations \subseteq ActivationReceipt

Init ==
    /\ clock = 0
    /\ registry = NoOperator
    /\ bootstrap = {}
    /\ cases = [r \in Rule |-> [version |-> 1, resolution |-> Open]]
    /\ used = {}
    /\ imported = FALSE
    /\ rules = [r \in Rule |-> <<>>]
    /\ call = [p \in Caller |-> Idle]
    /\ activations = {}

-----------------------------------------------------------------------------
(* The registry.                                                            *)

\* executescript has committed the transaction that BEGIN IMMEDIATE opened, so
\* the SELECT stands alone.
BootstrapFindsNone(o) ==
    /\ registry = NoOperator
    /\ o \notin bootstrap
    /\ bootstrap' = bootstrap \cup {o}
    /\ UNCHANGED <<clock, registry, cases, used, imported, rules, call, activations>>

\* Fault variant: the row is replaced instead of refused.
BootstrapReplaces(o) ==
    /\ o \in bootstrap
    /\ bootstrap' = bootstrap \ {o}
    /\ registry' = o
    /\ UNCHANGED <<clock, cases, used, imported, rules, call, activations>>

\* Registry and analysts are inserted in one transaction; the primary key
\* refuses a second registry, and its analysts with it.
BootstrapInserts(o) ==
    /\ o \in bootstrap
    /\ bootstrap' = bootstrap \ {o}
    /\ registry' = IF registry = NoOperator THEN o ELSE registry
    /\ UNCHANGED <<clock, cases, used, imported, rules, call, activations>>

\* _verify: the registry in force issued the capability, its actor is allowed
\* the action, and it has not expired.
Valid(c) ==
    /\ registry # NoOperator
    /\ c.action \in Allowance[registry][c.actor]
    /\ clock < c.expires

\* Fault variant: the capability was verified before the transaction.
ConsumableUnchecked(c) == c \notin used

\* _verify_and_consume, in the transaction of the step it stands for.
Consumable(c) == Valid(c) /\ c \notin used

Tick ==
    /\ clock < MaxClock
    /\ clock' = clock + 1
    /\ UNCHANGED <<registry, bootstrap, cases, used, imported, rules, call, activations>>

-----------------------------------------------------------------------------
(* The case.                                                                *)

\* Another analyst moves the case, to a state that is not terminal.
CaseMoves(r) ==
    /\ cases[r].resolution = Open
    /\ cases[r].version < MaxCaseVersion
    /\ cases' = [cases EXCEPT ![r].version = @ + 1]
    /\ UNCHANGED <<clock, registry, bootstrap, used, imported, rules, call, activations>>

\* The case is resolved without a capability, and so without a suggestion, or
\* written off.
CaseClosesUntrusted(r) ==
    /\ cases[r].resolution = Open
    /\ cases' = [cases EXCEPT ![r].resolution = Untrusted]
    /\ UNCHANGED <<clock, registry, bootstrap, used, imported, rules, call, activations>>

-----------------------------------------------------------------------------
(* Human steps: resolve_case, ReplayCorpusStore.bootstrap, approve and      *)
(* activate verify the capability on a connection of their own, and again   *)
(* when they spend it inside the transaction.                               *)

InCall(p, at) == call[p] # Idle /\ call[p].at = at

\* Fault variant: the capability is spent where it is first verified.
PresentSpends(p, c) ==
    /\ call[p] = Idle
    /\ Consumable(c)
    /\ call' = [call EXCEPT ![p] = Verified(c)]
    /\ used' = used \cup {c}
    /\ UNCHANGED <<clock, registry, bootstrap, cases, imported, rules, activations>>

\* Issuing writes nothing, so a capability is issued as it is presented.
Present(p, c) ==
    /\ call[p] = Idle
    /\ Valid(c)
    /\ call' = [call EXCEPT ![p] = Verified(c)]
    /\ UNCHANGED <<clock, registry, bootstrap, cases, used, imported, rules, activations>>

\* The call of p presents a capability for `action` on version n of `subject`.
Presents(p, action, subject, n) ==
    /\ InCall(p, "verified")
    /\ call[p].cap.action = action
    /\ call[p].cap.subject = subject
    /\ call[p].cap.version = n

Spend(p) ==
    /\ Consumable(call[p].cap)
    /\ used' = used \cup {call[p].cap}

Return(p) == call' = [call EXCEPT ![p] = Idle]

\* The resolution teaches a rule if it carries a suggestion and its route went
\* through VERIFIED, which a case escalated before is resolved without.
ResolveCase(p, r) ==
    /\ Presents(p, "RESOLVE", r, cases[r].version)
    /\ cases[r].resolution = Open
    /\ Spend(p)
    /\ \E teaches \in BOOLEAN :
        cases' = [cases EXCEPT ![r].resolution = By(call[p].cap, teaches)]
    /\ Return(p)
    /\ UNCHANGED <<clock, registry, bootstrap, imported, rules, activations>>

ImportReplay(p) ==
    /\ Presents(p, "IMPORT_REPLAY", ImportSubject, 1)
    /\ ~imported
    /\ Spend(p)
    /\ imported' = TRUE
    /\ Return(p)
    /\ UNCHANGED <<clock, registry, bootstrap, cases, rules, activations>>

Latest(r) == rules[r][Len(rules[r])]

\* Fault variant: the version is compared, the status is not.
MayMoveAnyStatus(r, expected, required) ==
    /\ rules[r] # <<>>
    /\ Len(rules[r]) = expected

\* _transition: the caller's version is the latest and has the status required.
MayMove(r, expected, required) ==
    /\ rules[r] # <<>>
    /\ Len(rules[r]) = expected
    /\ Latest(r).status = required

Appends(r, row) == rules' = [rules EXCEPT ![r] = Append(@, row)]

Approve(p, r) ==
    /\ Presents(p, "APPROVE", r, Len(rules[r]))
    /\ MayMove(r, call[p].cap.version, "REPLAY_PASSED")
    /\ Spend(p)
    /\ Appends(r, [status |-> "APPROVED", author |-> Latest(r).author,
                   approver |-> call[p].cap.actor, activated_by |-> NoOne,
                   replay |-> NoReplay])
    /\ Return(p)
    /\ UNCHANGED <<clock, registry, bootstrap, cases, imported, activations>>

Activate(p, r) ==
    /\ Presents(p, "ACTIVATE", r, Len(rules[r]))
    /\ MayMove(r, call[p].cap.version, "APPROVED")
    /\ Spend(p)
    /\ Appends(r, [status |-> "ACTIVE", author |-> Latest(r).author,
                   approver |-> Latest(r).approver, activated_by |-> call[p].cap.actor,
                   replay |-> NoReplay])
    /\ call' = [call EXCEPT ![p] =
                   Activated(r, call[p].registry, Len(rules[r]) + 1, call[p].cap.actor)]
    /\ UNCHANGED <<clock, registry, bootstrap, cases, imported, activations>>

\* Back from the transaction, activate reads the history it puts in the receipt.
ReceiveActivation(p) ==
    /\ InCall(p, "activated")
    /\ activations' = activations \cup
            {[rule |-> call[p].rule, version |-> call[p].version,
              history |-> SubSeq(rules[call[p].rule], 1, call[p].version),
              registry |-> call[p].registry, by |-> call[p].actor]}
    /\ Return(p)
    /\ UNCHANGED <<clock, registry, bootstrap, cases, used, imported, rules>>

-----------------------------------------------------------------------------
(* RuleStore.add and record_replay.                                         *)

\* compile_resolution: a resolution that teaches, by a human whose capability
\* was spent on it and is valid to this day.
Compiles(r, c) ==
    /\ cases[r].resolution = By(c, TRUE)
    /\ c \in used
    /\ Valid(c)

Compile(p, r) ==
    /\ call[p] = Idle
    /\ \E c \in Capability :
        /\ Compiles(r, c)
        /\ call' = [call EXCEPT ![p] = Compiled(r, c.actor)]
    /\ UNCHANGED <<clock, registry, bootstrap, cases, used, imported, rules, activations>>

\* The primary key refuses a proposal that is there already.
Add(p) ==
    /\ InCall(p, "compiled")
    /\ rules[call[p].rule] = <<>>
    /\ Appends(call[p].rule,
               [status |-> "PROPOSED", author |-> call[p].author, approver |-> NoOne,
                activated_by |-> NoOne, replay |-> NoReplay])
    /\ Return(p)
    /\ UNCHANGED <<clock, registry, bootstrap, cases, used, imported, activations>>

\* A receipt of the runner, for the proposal and any two corpora, verified
\* against the latest version.  Running the gate writes nothing.
VerifyReplay(p, r, expected, replay) ==
    /\ call[p] = Idle
    /\ imported
    /\ rules[r] # <<>>
    /\ Latest(r).status = "PROPOSED"
    /\ call' = [call EXCEPT ![p] = Replayed(r, expected, replay)]
    /\ UNCHANGED <<clock, registry, bootstrap, cases, used, imported, rules, activations>>

RecordReplay(p) ==
    LET r == call[p].rule
        replay == call[p].replay
    IN
    /\ InCall(p, "replayed")
    /\ MayMove(r, call[p].expected, "PROPOSED")
    /\ Appends(r, [status |-> ReplayStatus(replay.confirmed, replay.attacks),
                   author |-> Latest(r).author, approver |-> Latest(r).approver,
                   activated_by |-> NoOne, replay |-> replay])
    /\ Return(p)
    /\ UNCHANGED <<clock, registry, bootstrap, cases, used, imported, activations>>

\* The call is refused and rolled back, finds the case resolved and leaves it, or
\* its process is killed.
Fails(p) ==
    /\ call[p] # Idle
    /\ Return(p)
    /\ UNCHANGED <<clock, registry, bootstrap, cases, used, imported, rules, activations>>

-----------------------------------------------------------------------------
Next ==
    \/ \E o \in Operator : BootstrapFindsNone(o) \/ BootstrapInserts(o)
    \/ Tick
    \/ \E r \in Rule : CaseMoves(r) \/ CaseClosesUntrusted(r)
    \/ \E p \in Caller :
        \/ \E c \in Capability : Present(p, c)
        \/ \E r \in Rule :
            \/ ResolveCase(p, r)
            \/ Approve(p, r)
            \/ Activate(p, r)
            \/ Compile(p, r)
            \/ \E expected \in 1..2, replay \in Replay : VerifyReplay(p, r, expected, replay)
        \/ ImportReplay(p)
        \/ ReceiveActivation(p)
        \/ Add(p)
        \/ RecordReplay(p)
        \/ Fails(p)

Spec == Init /\ [][Next]_vars

-----------------------------------------------------------------------------
(* Properties.                                                              *)

\* What the tables say a human did, each as the capability it took would name
\* it: the resolution of a case, an approval, an activation.
Resolutions ==
    {[action |-> "RESOLVE", subject |-> r, version |-> cases[r].version,
      actor |-> cases[r].resolution.cap.actor] :
        r \in {q \in Rule : cases[q].resolution.by = "human"}}

RowsWith(status) ==
    UNION {{<<r, i>> : i \in {j \in DOMAIN rules[r] : rules[r][j].status = status}} :
              r \in Rule}

Approvals ==
    {[action |-> "APPROVE", subject |-> row[1], version |-> row[2] - 1,
      actor |-> rules[row[1]][row[2]].approver] : row \in RowsWith("APPROVED")}

Activations ==
    {[action |-> "ACTIVATE", subject |-> row[1], version |-> row[2] - 1,
      actor |-> rules[row[1]][row[2]].activated_by] : row \in RowsWith("ACTIVE")}

Scope(c) ==
    [action |-> c.action, subject |-> c.subject, version |-> c.version, actor |-> c.actor]

UsedFor(action) == {c \in used : c.action = action}

\* A capability is used up exactly when what it authorized is in the tables,
\* under the name of the human it was issued to, and no step took two: callers
\* that race for one step, and callers killed half-way, lose nothing they hold.
SpentMatchesSteps ==
    LET steps == Resolutions \cup Approvals \cup Activations
        spent == used \ UsedFor("IMPORT_REPLAY")
    IN
    /\ {Scope(c) : c \in spent} = steps
    /\ Cardinality(spent) = Cardinality(steps)
    /\ Cardinality(UsedFor("IMPORT_REPLAY")) = IF imported THEN 1 ELSE 0

\* No step commits under a capability that expired, or that the registry in
\* force does not grant, however long ago it was presented.
SpentWhileValid == [][\A c \in used' \ used : Valid(c)]_vars

\* A case the rule leaves no worse: correct if it was, no paisa more that is
\* wrong, and a proof that holds.
NoWorse(outcome) ==
    /\ outcome.before_correct => outcome.after_correct
    /\ outcome.after_wrong_paise <= outcome.before_wrong_paise
    /\ outcome.after_proof_valid

\* A rule in force came from a human's own resolution of its case and was
\* replayed, in its second version, over corpora of which it harmed no case:
\* no improvement elsewhere pays for one case made worse.
ActiveRuleHarmedNoCase ==
    \A r \in Rule :
        rules[r] # <<>> /\ Latest(r).status = "ACTIVE" =>
            LET replay == rules[r][2].replay IN
            /\ imported
            /\ \E c \in used : cases[r].resolution = By(c, TRUE) /\ Latest(r).author = c.actor
            /\ \A i \in DOMAIN replay.confirmed : NoWorse(replay.confirmed[i])
            /\ \A i \in DOMAIN replay.attacks : NoWorse(replay.attacks[i])

\* validate_activation, whose history hash covers every row up to the version.
ValidatesActivation(receipt) ==
    /\ receipt.registry = registry
    /\ receipt.version \in DOMAIN rules[receipt.rule]
    /\ rules[receipt.rule][receipt.version].status = "ACTIVE"
    /\ rules[receipt.rule][receipt.version].activated_by = receipt.by
    /\ SubSeq(rules[receipt.rule], 1, receipt.version) = receipt.history

\* An activation receipt, once handed out, is good for ever, whatever other
\* operators and callers do afterwards.
ReceiptsStayValid == \A receipt \in activations : ValidatesActivation(receipt)

Statuses(rows) == [i \in DOMAIN rows |-> rows[i].status]

History == INSTANCE RuleHistory WITH
    Rules <- Rule,
    Capabilities <- Capability,
    history <- [r \in Rule |-> Statuses(rules[r])],
    spent <- used

\* However calls interleave and fail, a rule goes through its statuses one at a
\* time and in order, each human step for a capability of its own.
ImplementsRuleHistory == History!Spec

=============================================================================
