------------------------------- MODULE Policy -------------------------------
(***************************************************************************)
(* The gate in front of every money action, ledger_daemon/policy.py, as    *)
(* operators: R0..R7 and the risk gate in their order, over the fields of  *)
(* an order and its verdict that the rules read.  Amounts are paise.       *)
(***************************************************************************)
EXTENDS Integers

MAX_ATTEMPTS == 3
CONTACT_BUDGET_7D == 2
AFA_LIMIT_PAISE == 1500000
LLM_MIN_CONFIDENCE == 85             \* hundredths
COST_WRONG_CHASE_PAISE == 80000
RECOVERY_RATE_NUM == 6
RECOVERY_RATE_DEN == 10

PROVABLY_PAID == {"settled_clean", "settled_late", "paid_out_of_band",
                  "refunded_then_repaid"}
CHASEABLE_VERDICTS == {"genuinely_unpaid", "partially_paid"}

Verdict ==
    PROVABLY_PAID \cup CHASEABLE_VERDICTS \cup
    {"paid_net_of_tds", "possible_tds_withholding", "failed_not_debited",
     "chargeback_open", "ambiguous"}

ActionType == {"CREATE_PAYMENT_LINK", "DRAFT_REMINDER", "AUTO_CHARGE"}

\* authority.py's states, and "" for a run the drift monitor had no part in.
AuthorityStated == {"", "CALIBRATED", "WARNING", "DEGRADED",
                    "AUTOMATION_HALTED", "RECALIBRATED"}
REVOKED_AUTHORITY_STATES == {"DEGRADED", "AUTOMATION_HALTED"}

\* No model proposed the verdict.
NoConfidence == -1

\* What the gate reads of an order, of its verdict and of the evidence.
\* `calibrated`: risk_calibration_id is a non-empty string.
Situation ==
    [verdict : Verdict, amount : Nat, delta_due : Nat, mandate : BOOLEAN,
     bank_coverage_ok : BOOLEAN,
     path : {"exact", "probabilistic", "manual"}, authority : AuthorityStated,
     risk_authorized : BOOLEAN, calibrated : BOOLEAN]

Rule(outcome, rule) == [outcome |-> outcome, rule_fired |-> rule]

-----------------------------------------------------------------------------
\* R0: a fuzzy verdict under a revoked authority.
DriftHalts(s) == s.path = "probabilistic" /\ s.authority \in REVOKED_AUTHORITY_STATES

\* R1 on the verdicts that may not be chased: VERDICT_DISPOSITION, then _r1.
Disposition(v) ==
    CASE v \in PROVABLY_PAID          -> Rule("DENY", "R1_DENY_ALREADY_PAID")
      [] v = "failed_not_debited"     -> Rule("DENY", "R1_DENY_NOT_A_DEBT")
      [] v = "paid_net_of_tds"        -> Rule("DENY", "R1_DENY_NET_OF_TDS")
      [] v = "chargeback_open"        -> Rule("ESCALATE", "R1_ESCALATE_DISPUTE_OPEN")
      [] v \in {"possible_tds_withholding", "ambiguous"}
                                      -> Rule("HOLD", "R1_HOLD_AMBIGUOUS")

\* Fault variant: the cap is tested for equality.
AttemptCapReachedExactly(attempts) == attempts = MAX_ATTEMPTS

\* R3.
AttemptCapReached(attempts) == attempts >= MAX_ATTEMPTS

\* `delta_due_paise or amount_paise`: a zero delta counts as no delta.
ChaseAmount(s) == IF s.delta_due # 0 THEN s.delta_due ELSE s.amount

\* R5, with floor division.
ExpectedValue(s) == (ChaseAmount(s) * RECOVERY_RATE_NUM) \div RECOVERY_RATE_DEN

\* R6.
NeedsHumanForCharge(s, action) ==
    action = "AUTO_CHARGE" /\ (~s.mandate \/ ChaseAmount(s) > AFA_LIMIT_PAISE)

\* The last gate, and a variant that takes any calibrated score for a proof.
HasProofAnyScore(s) ==
    s.path = "exact" \/ (s.path = "probabilistic" /\ s.calibrated)

HasProof(s) ==
    \/ s.path = "exact"
    \/ s.path = "probabilistic" /\ s.risk_authorized /\ s.calibrated

\* evaluate, from R2 on.
EvaluateChaseable(s, action, attempts, contacts, confidence) ==
    IF ~s.bank_coverage_ok
        THEN Rule("HOLD", "R2_HOLD_INSUFFICIENT_EVIDENCE")
    ELSE IF AttemptCapReached(attempts)
        THEN Rule("DENY", "R3_DENY_MAX_ATTEMPTS")
    ELSE IF contacts >= CONTACT_BUDGET_7D
        THEN Rule("HOLD", "R4_HOLD_CONTACT_BUDGET")
    ELSE IF ExpectedValue(s) <= COST_WRONG_CHASE_PAISE
        THEN Rule("DENY", "R5_DENY_NEGATIVE_EV")
    ELSE IF NeedsHumanForCharge(s, action)
        THEN Rule("ESCALATE", "R6_ESCALATE_AFA_HUMAN")
    ELSE IF confidence # NoConfidence /\ confidence < LLM_MIN_CONFIDENCE
        THEN Rule("HOLD", "R7_HOLD_FOR_HUMAN")
    ELSE IF action \notin ActionType
        THEN Rule("DENY", "R_DEFAULT_DENY")
    ELSE IF ~HasProof(s)
        THEN Rule("HOLD", "R_RISK_BUDGET")
    ELSE Rule("ALLOW", "R_ALLOW")

Evaluate(s, action, attempts, contacts, confidence) ==
    IF DriftHalts(s) THEN Rule("HOLD", "R_DRIFT_HALT")
    ELSE IF s.verdict \notin CHASEABLE_VERDICTS THEN Disposition(s.verdict)
    ELSE EvaluateChaseable(s, action, attempts, contacts, confidence)

Allows(s, action, attempts, contacts, confidence) ==
    Evaluate(s, action, attempts, contacts, confidence).outcome = "ALLOW"

=============================================================================
