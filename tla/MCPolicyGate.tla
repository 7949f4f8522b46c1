---------------------------- MODULE MCPolicyGate ----------------------------
(***************************************************************************)
(* Chaseable orders with every kind of evidence and amounts on both sides  *)
(* of the two limits the rules compare with (133334 paise is the last      *)
(* amount whose expected value does not exceed the cost of a wrong chase,  *)
(* 1500000 the last one a mandate may be charged without a human), and one *)
(* order of each verdict that may not be chased.  Four counts one past the *)
(* attempt cap.                                                            *)
(***************************************************************************)
EXTENDS PolicyGate

\* The evidence recon.py builds: exact proofs need no calibration, a score is
\* authorised only by one, what is left to a human has neither.
Proof == {[path |-> "exact", risk |-> TRUE, calibrated |-> FALSE],
          [path |-> "probabilistic", risk |-> FALSE, calibrated |-> FALSE],
          [path |-> "probabilistic", risk |-> FALSE, calibrated |-> TRUE],
          [path |-> "probabilistic", risk |-> TRUE, calibrated |-> TRUE],
          [path |-> "manual", risk |-> FALSE, calibrated |-> FALSE]}

Said(verdicts, amounts, deltas, covered) ==
    {[verdict |-> v, amount |-> a, delta_due |-> d, mandate |-> m,
      bank_coverage_ok |-> covered, path |-> p.path, authority |-> "",
      risk_authorized |-> p.risk, calibrated |-> p.calibrated] :
        v \in verdicts, a \in amounts, d \in deltas, m \in BOOLEAN, p \in Proof}

MCSituations ==
    Said({"genuinely_unpaid"}, {1500000, 1500001}, {0}, FALSE)
    \cup Said({"partially_paid"}, {1500001}, {133334, 133335}, FALSE)
    \cup Said({"settled_late", "failed_not_debited", "paid_net_of_tds",
               "chargeback_open", "ambiguous"}, {1500001}, {0}, TRUE)

MCConfidence == {NoConfidence, 84, 85}
=============================================================================
