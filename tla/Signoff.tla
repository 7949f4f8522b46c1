------------------------------ MODULE Signoff ------------------------------
(***************************************************************************)
(* ledger_daemon/signoff.py and the summaries panels.py feeds it: what     *)
(* stops a controller from signing, and what is signed with a note.        *)
(***************************************************************************)
EXTENDS Integers, FiniteSets, FiniteSetsExt

CONSTANTS
    MATERIAL_OPEN_PAISE, STALE_CASE_DAYS,
    UI_VERIFY_SAMPLE     \* certificates verified when a page is made

\* proof_summary.  certificates are those loaded, by order; a certificate not in
\* the sample is not verified, an order without one is what "unverified" counts.
Sample(certificates) ==
    {o \in DOMAIN certificates :
        Cardinality({p \in DOMAIN certificates : p < o}) < UI_VERIFY_SAMPLE}

Missing(certificates, orders) == orders \ DOMAIN certificates

\* invalid: the orders whose certificate does not verify.
ProofSummary(certificates, orders, invalid) ==
    [built      |-> Cardinality(DOMAIN certificates),
     rejected   |-> Cardinality(Sample(certificates) \cap invalid),
     unverified |-> Cardinality(Missing(certificates, orders))]

\* exception_summary: what is held in the open cases the screen has, one per
\* subject, and the age of the one longest untouched.  held is the amount of each
\* held order; age, in days, is that of any open case.
ExceptionSummary(cases, held, age) ==
    LET open == {s \in DOMAIN cases : cases[s].open}
    IN  [open_cases |-> Cardinality(open),
         oldest_open_days |-> IF open = {} THEN 0 ELSE age,
         material_open_paise |-> MapThenSumSet(LAMBDA s : held[s], open \cap DOMAIN held)]

\* authority_summary and risk_summary.
Halted(state) == state \in {"DEGRADED", "AUTOMATION_HALTED"}

Blockers(source, proofs, risk) ==
    {b \in {"PROOF_REJECTED", "PROOF_COVERAGE_INCOMPLETE", "SOURCE_FEED_MISSING",
            "NO_ROWS_PROCESSED", "WRONGLY_CHASED", "DUPLICATE_SIDE_EFFECT",
            "RISK_BUDGET_BREACHED"} :
        CASE b = "PROOF_REJECTED"            -> proofs.rejected > 0
          [] b = "PROOF_COVERAGE_INCOMPLETE" -> proofs.unverified > 0
          [] b = "SOURCE_FEED_MISSING"       -> source.feeds_seen < source.feeds_expected
          [] b = "NO_ROWS_PROCESSED"         -> source.accepted =< 0
          [] b = "WRONGLY_CHASED"            -> risk.wrongly_chased_paise # 0
          [] b = "DUPLICATE_SIDE_EFFECT"     -> risk.duplicate_side_effects # 0
          [] b = "RISK_BUDGET_BREACHED"      -> risk.loss_upper_bound_bp > risk.budget_bp}

Caveats(source, exceptions, authority, risk) ==
    {c \in {"MATERIAL_EXCEPTIONS_OPEN", "PROBABILISTIC_AUTHORITY_REVOKED",
            "RISK_AUTHORITY_WITHHELD", "ROWS_QUARANTINED", "DUPLICATE_SOURCE_ROWS",
            "CASES_STALE"} :
        CASE c = "MATERIAL_EXCEPTIONS_OPEN" ->
                exceptions.material_open_paise >= MATERIAL_OPEN_PAISE
          [] c = "PROBABILISTIC_AUTHORITY_REVOKED" -> Halted(authority)
          [] c = "RISK_AUTHORITY_WITHHELD" -> ~risk.authorized
          [] c = "ROWS_QUARANTINED"        -> source.quarantined > 0
          [] c = "DUPLICATE_SOURCE_ROWS"   -> source.duplicates > 0
          [] c = "CASES_STALE"             -> exceptions.oldest_open_days > STALE_CASE_DAYS}

\* decide_signoff: a blocker outranks every caveat.
decide_signoff(source, proofs, exceptions, authority, risk) ==
    LET blockers == Blockers(source, proofs, risk)
        caveats  == Caveats(source, exceptions, authority, risk)
    IN  [status |-> IF blockers # {} THEN "DO_NOT_SIGN"
                    ELSE IF caveats # {} THEN "SIGN_WITH_CAVEATS" ELSE "SIGN",
         blockers |-> blockers, caveats |-> caveats]

=============================================================================
