---------------------------- MODULE RuleHistory -----------------------------
(***************************************************************************)
(* What the rule store promises, without callers, clocks or tables: a rule *)
(* has one history of statuses, which starts at PROPOSED, is replayed      *)
(* before a human approves it and approved before a human activates it,    *)
(* and each of those two steps spends a capability for exactly that step.  *)
(***************************************************************************)
EXTENDS Sequences, Integers

CONSTANTS
    Rules,        \* rule ids
    Capabilities  \* what humans may have been issued

VARIABLES
    history,      \* rule -> its statuses, oldest first
    spent         \* the capabilities used

vars == <<history, spent>>

Init ==
    /\ history = [r \in Rules |-> <<>>]
    /\ spent = {}

StatusOf(r) == IF history[r] = <<>> THEN "" ELSE history[r][Len(history[r])]

Becomes(r, status) == history' = [history EXCEPT ![r] = Append(@, status)]

Propose(r) ==
    /\ StatusOf(r) = ""
    /\ Becomes(r, "PROPOSED")
    /\ UNCHANGED spent

Replay(r) ==
    /\ StatusOf(r) = "PROPOSED"
    /\ Becomes(r, "REPLAY_PASSED") \/ Becomes(r, "REJECTED")
    /\ UNCHANGED spent

\* A human takes the step `action` on version Len(history[r]) of the rule.
HumanStep(r, action, required, target) ==
    /\ StatusOf(r) = required
    /\ Becomes(r, target)
    /\ \E c \in Capabilities \ spent :
        /\ c.action = action
        /\ c.subject = r
        /\ c.version = Len(history[r])
        /\ spent' = spent \cup {c}

\* A case is resolved, or the corpora imported.
HumanStepElsewhere ==
    /\ \E c \in Capabilities \ spent :
        /\ c.action \in {"RESOLVE", "IMPORT_REPLAY"}
        /\ spent' = spent \cup {c}
    /\ UNCHANGED history

Next ==
    \/ \E r \in Rules :
        \/ Propose(r)
        \/ Replay(r)
        \/ HumanStep(r, "APPROVE", "REPLAY_PASSED", "APPROVED")
        \/ HumanStep(r, "ACTIVATE", "APPROVED", "ACTIVE")
    \/ HumanStepElsewhere

Spec == Init /\ [][Next]_vars

=============================================================================
