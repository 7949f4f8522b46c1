----------------------------- MODULE ReplayGate -----------------------------
(***************************************************************************)
(* The gate a proposed rule passes before a human may approve it,          *)
(* ledger_daemon/replay.py.  A corpus is a sequence of recorded outcomes,  *)
(* each the verdict on one case before and after the rule; paise and       *)
(* coverage are counts.                                                    *)
(***************************************************************************)
EXTENDS Integers, Sequences, FiniteSets, Functions

Outcome ==
    [before_correct : BOOLEAN, after_correct : BOOLEAN,
     before_wrong_paise : Nat, after_wrong_paise : Nat, after_proof_valid : BOOLEAN,
     before_safe_coverage : Nat, after_safe_coverage : Nat]

NewWrongVerdicts(outcomes) ==
    Cardinality({i \in DOMAIN outcomes :
                    outcomes[i].before_correct /\ ~outcomes[i].after_correct})

\* Fault variant: paise saved on one case pay for paise lost on another.
NewWrongPaiseNet(outcomes) ==
    SumFunction([i \in DOMAIN outcomes |->
                    outcomes[i].after_wrong_paise - outcomes[i].before_wrong_paise])

NewWrongPaise(outcomes) ==
    SumFunction([i \in DOMAIN outcomes |->
                    LET new == outcomes[i].after_wrong_paise - outcomes[i].before_wrong_paise
                    IN  IF new > 0 THEN new ELSE 0])

ProofsValid(outcomes) == \A i \in DOMAIN outcomes : outcomes[i].after_proof_valid

CoverageChange(outcomes) ==
    SumFunction([i \in DOMAIN outcomes |->
                    outcomes[i].after_safe_coverage - outcomes[i].before_safe_coverage])

\* Coverage is weighed in each corpus by itself, harm over both.
Promotable(confirmed, attacks) ==
    LET outcomes == confirmed \o attacks IN
    /\ NewWrongVerdicts(outcomes) = 0
    /\ NewWrongPaise(outcomes) = 0
    /\ ProofsValid(outcomes)
    /\ CoverageChange(confirmed) >= 0
    /\ CoverageChange(attacks) >= 0

ReplayStatus(confirmed, attacks) ==
    IF Promotable(confirmed, attacks) THEN "REPLAY_PASSED" ELSE "REJECTED"

=============================================================================
