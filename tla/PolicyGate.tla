----------------------------- MODULE PolicyGate -----------------------------
(***************************************************************************)
(* How the gate's answer on one order moves as the facts it reads move:    *)
(* the drift authority stated by a later reconciliation, the attempts and  *)
(* contacts counted so far, the confidence of a proposal, the bank feed    *)
(* catching up.  Situations bounds the evidence, MaxCount the counters.    *)
(***************************************************************************)
EXTENDS Policy

CONSTANTS
    Situations,   \* what a reconciliation under no authority may say of the order
    Action,       \* the action types asked for
    Confidence,   \* proposal confidences, in hundredths, or NoConfidence
    MaxCount      \* bound on the attempts and contacts counted

ASSUME PolicyGateConstants ==
    /\ Situations \subseteq Situation
    /\ \A s \in Situations : s.authority = ""
    /\ Confidence \subseteq Nat \cup {NoConfidence}
    /\ MaxCount \in Nat

VARIABLES
    authority,    \* the drift authority the last reconciliation ran under
    situation,    \* the order and its verdict, as last reconciled
    action,       \* the action asked for
    attempts,     \* executor rows counted for the order
    contacts,     \* contacts of the trailing seven days
    confidence    \* of the proposal behind the verdict

gateVars == <<authority, situation, action, attempts, contacts, confidence>>

GateTypeOK ==
    /\ authority \in AuthorityStated
    /\ situation \in Situation
    /\ action \in Action
    /\ attempts \in Nat
    /\ contacts \in Nat
    /\ confidence \in Nat \cup {NoConfidence}

GateInit ==
    /\ authority = ""
    /\ situation \in Situations
    /\ action \in Action
    /\ attempts = 0
    /\ contacts = 0
    /\ confidence \in Confidence

\* Fault variant: the evidence built for a TDS match does not state it.
UnderAuthorityExceptTds(s, state) ==
    [s EXCEPT !.authority =
        IF s.path = "probabilistic" /\ s.verdict # "paid_net_of_tds" THEN state ELSE ""]

\* The same evidence, reconciled under another authority: only the evidence of
\* a fuzzy match, accepted or rejected, states the authority it ran under.
UnderAuthority(s, state) ==
    [s EXCEPT !.authority = IF s.path = "probabilistic" THEN state ELSE ""]

\* The next run, under another authority.
AuthorityMoves ==
    /\ authority' \in AuthorityStated
    /\ situation' = UnderAuthority(situation, authority')
    /\ UNCHANGED <<action, attempts, contacts, confidence>>

\* The bank feed reaches the window the payment could have landed in.
FeedCatchesUp ==
    /\ situation' = [situation EXCEPT !.bank_coverage_ok = TRUE]
    /\ UNCHANGED <<authority, action, attempts, contacts, confidence>>

\* Executor.attempts counts another row.
AnotherAttempt ==
    /\ attempts < MaxCount
    /\ attempts' = attempts + 1
    /\ UNCHANGED <<authority, situation, action, contacts, confidence>>

AnotherContact ==
    /\ contacts < MaxCount
    /\ contacts' = contacts + 1
    /\ UNCHANGED <<authority, situation, action, attempts, confidence>>

\* A proposal less sure than the one before, or the first.
LessConfident ==
    /\ \E c \in Confidence \ {NoConfidence} :
        /\ confidence = NoConfidence \/ c < confidence
        /\ confidence' = c
    /\ UNCHANGED <<authority, situation, action, attempts, contacts>>

GateNext ==
    \/ AuthorityMoves
    \/ FeedCatchesUp
    \/ AnotherAttempt
    \/ AnotherContact
    \/ LessConfident

GateSpec == GateInit /\ [][GateNext]_gateVars

-----------------------------------------------------------------------------
Allowed == Allows(situation, action, attempts, contacts, confidence)

(***************************************************************************)
(* An ALLOW says all of it at once: a chaseable verdict, a bank feed that  *)
(* covers the window, an amount worth more than the harm of a wrong chase, *)
(* and an exact proof or an authorised, calibrated probability that no     *)
(* drift has revoked.                                                      *)
(***************************************************************************)
AllowIsEarned ==
    Allowed =>
        /\ situation.verdict \in CHASEABLE_VERDICTS
        /\ situation.bank_coverage_ok
        /\ 3 * ChaseAmount(situation) > 5 * COST_WRONG_CHASE_PAISE
        /\ situation.path = "exact"
            \/ /\ situation.path = "probabilistic"
               /\ situation.risk_authorized
               /\ situation.calibrated
               /\ situation.authority \notin REVOKED_AUTHORITY_STATES

(***************************************************************************)
(* Pressure only ever removes actions: more attempts, more contacts, a     *)
(* less confident proposal, or an authority revoked cannot turn a refusal  *)
(* into an ALLOW ("revoking authority can only ever remove actions").      *)
(***************************************************************************)
Pressed ==
    /\ attempts' >= attempts
    /\ contacts' >= contacts
    /\ confidence' = confidence \/ confidence = NoConfidence \/ confidence' < confidence
    /\ \/ UNCHANGED <<authority, situation>>
       \/ /\ authority' \in REVOKED_AUTHORITY_STATES
          /\ situation' = UnderAuthority(situation, authority')

PressureNeverAllows == [][(Pressed /\ Allowed') => Allowed]_gateVars

Decided == Evaluate(situation, action, attempts, contacts, confidence)

(***************************************************************************)
(* A revoked authority reaches every fuzzy verdict, in both directions: no *)
(* fuzzy "paid" keeps an order closed and no fuzzy "unpaid" chases one;    *)
(* each is a human's, whichever branch of the matcher wrote its evidence.  *)
(***************************************************************************)
RevocationHoldsFuzzy ==
    (authority \in REVOKED_AUTHORITY_STATES /\ situation.path = "probabilistic") =>
        Decided = Rule("HOLD", "R_DRIFT_HALT")

(***************************************************************************)
(* "A drift halt must never touch an exact-path proof" (cmd_drift_demo):   *)
(* however the authority moves from run to run, the whole decision on an   *)
(* order that an exact path settled stays what it was.                     *)
(***************************************************************************)
ExactUntouchedByDrift ==
    [][(situation.path = "exact" /\ authority' # authority) =>
        Decided' = Decided]_gateVars

=============================================================================
