---------------------------- MODULE Certificates ----------------------------
(***************************************************************************)
(* The proof certificate of a verdict (certificates.py) and what the       *)
(* independent verifier recomputes from it (verifier.py), run beside the   *)
(* matcher: every verdict of a batch is issued and verified against the    *)
(* batch it was made from.  Hashes, identifiers and the shape of the       *)
(* fields bind a certificate to its rows and are taken as intact; the      *)
(* money, the rules and the evidence are what the two programs may         *)
(* disagree on.  The verifier counts calendar days.                        *)
(***************************************************************************)
EXTENDS Matching

Rows(S, status) == {c \in S : captures[c].status = status}
CreditSum(S) == SumFunction([b \in S |-> bank[b].amount])

\* Fault variant: a certificate binds the rows its verdict refers to, no more.
ReferredOnly(o) == verdicts[o].rows

\* The capture rows a certificate binds: those the verdict refers to, all of
\* the order's if it was repaid, and the whole group of every settlement among
\* them.
Claimed(o) ==
    LET referred == verdicts[o].rows \cup
            (IF verdicts[o].verdict = "refunded_then_repaid" THEN RowsOf(o) ELSE {})
    IN  referred \cup {c \in Captures : captures[c].settlement # "" /\
            \E d \in referred : captures[d].settlement = captures[c].settlement}

SettlementPasses == {"pass1_exact_utr", "pass2_amount_date", "pass3_settlement_id"}
Unpriced == {"ambiguous", "possible_tds_withholding", "failed_not_debited"}

\* What the signed terms of a certificate add up to.
TermSum(o) ==
    LET v == verdicts[o]
        invoice ==
            IF v.verdict \in Unpriced \cup {"genuinely_unpaid", "paid_net_of_tds"} THEN 0
            ELSE orders[o].amount - v.received
                 - (IF v.verdict = "partially_paid" THEN v.due ELSE 0)
        evidence ==
            IF v.pass \in SettlementPasses
            THEN NetSum(Claimed(o)) - CreditSum(v.credits)
            ELSE IF v.pass \in {"pass4_fuzzy", "pass4_fuzzy_tds_evidence"}
                    /\ v.verdict \notin Unpriced
            THEN CreditSum(v.credits) - v.received
                 + (IF v.verdict = "refunded_then_repaid" THEN NetSum(Claimed(o)) ELSE 0)
            ELSE 0
    IN  invoice + evidence

\* The money the verdict claims against the invoice, and its sign.
AmountsAgree(o) ==
    LET v == verdicts[o] IN
    /\ TermSum(o) = 0
    /\ v.verdict \in Unpriced \cup {"genuinely_unpaid"} => v.received = 0 /\ v.due = 0
    /\ v.verdict = "partially_paid" =>
          v.received > 0 /\ v.due > 0 /\ orders[o].amount = v.received + v.due
    /\ v.verdict = "paid_net_of_tds" => v.received > 0 /\ v.due = 0
    /\ v.verdict \notin Unpriced \cup {"genuinely_unpaid", "partially_paid", "paid_net_of_tds"}
          => v.received > 0 /\ v.due = 0 /\ orders[o].amount = v.received

RuleVerdicts ==
    [pass1_exact_utr |-> {"settled_clean", "settled_late", "partially_paid"},
     pass2_amount_date |-> {"settled_clean", "settled_late", "partially_paid"},
     pass3_settlement_id |-> {"settled_clean", "settled_late", "partially_paid"},
     pass4_fuzzy |-> {"paid_out_of_band", "refunded_then_repaid", "ambiguous",
                      "possible_tds_withholding"},
     pass4_fuzzy_tds_evidence |-> {"paid_net_of_tds"},
     pass4_rejected |-> {"genuinely_unpaid"},
     gateway_status |-> {"chargeback_open", "failed_not_debited"},
     finance_event_dispute |-> {"chargeback_open"},
     net_arithmetic |-> {"ambiguous"},
     exhausted |-> {"genuinely_unpaid"},
     none |-> {"ambiguous"}]

RuleFits(o) == verdicts[o].verdict \in RuleVerdicts[verdicts[o].pass]

\* One settlement, its complete group, the sum it was paid, and the lateness.
SettlementFits(o) ==
    LET v == verdicts[o]
        claimed == Claimed(o)
        own == claimed \cap RowsOf(o)
        sids == {captures[c].settlement : c \in claimed} \ {""}
        credit == CHOOSE b \in v.credits : TRUE
        refunded == - AmountOf(Rows(own, "refund"))
        lag(rows) == bank[credit].day - LatestDay(rows)
    IN  /\ Cardinality(sids) = 1
        /\ own # {}
        /\ claimed = {c \in Captures : captures[c].settlement \in sids}
        /\ NetSum(claimed) = bank[credit].amount
        /\ v.received = orders[o].amount - refunded
        /\ v.pass = "pass1_exact_utr" => \E c \in claimed : SharedUtr(c, credit)
        /\ v.pass = "pass2_amount_date" => lag(claimed) \in 0..3
        /\ v.pass = "pass3_settlement_id" => bank[credit].settlement \in sids
        /\ v.verdict = "settled_clean" => lag(own) <= 1
        /\ v.verdict = "settled_late" => lag(own) > 1

FuzzyFits(o) ==
    LET v == verdicts[o] IN
    /\ CreditSum(v.credits) = v.received
    /\ v.verdict = "paid_net_of_tds" => v.tds = orders[o].amount - v.received
    /\ v.verdict \in {"paid_out_of_band", "paid_net_of_tds"} => RowsOf(o) = {}
    /\ v.verdict = "refunded_then_repaid" =>
          /\ Claimed(o) = RowsOf(o)
          /\ RowsIn(o, "refund") # {}
          /\ NetSum(RowsOf(o)) = 0

PossibleAmounts(o) == {orders[o].amount} \cup TdsNets(orders[o].amount)

\* Every credit of the statement is looked at again, consumed or not.
NothingLeft(o) ==
    /\ RowsOf(o) = {}
    /\ \A b \in Credits : bank[b].amount \in PossibleAmounts(o) => o \notin batch.named[b]

EvidenceFits(o) ==
    LET v == verdicts[o] IN
    /\ v.pass \in SettlementPasses => SettlementFits(o)
    /\ v.pass \in {"pass4_fuzzy", "pass4_fuzzy_tds_evidence"} /\ v.verdict \notin Unpriced
          => FuzzyFits(o)
    /\ v.pass = "pass4_rejected" =>
          /\ v.credits # {}
          /\ \A b \in v.credits : bank[b].amount \in PossibleAmounts(o)
    /\ v.pass = "gateway_status" =>
          Rows(Claimed(o) \cap RowsOf(o),
               IF v.verdict = "chargeback_open" THEN "chargeback_open" ELSE "failed") # {}
    /\ v.pass = "finance_event_dispute" =>
          \E amount \in 1..orders[o].amount : orders[o].disputes = <<amount>>
    /\ v.pass = "exhausted" => NothingLeft(o)
    /\ v.pass = "none" => RowsIn(o, "captured") # {}
    /\ v.pass = "net_arithmetic" => RowsIn(o, "refund") # {} /\ NetSum(RowsOf(o)) = 0

Verifies(o) == AmountsAgree(o) /\ RuleFits(o) /\ EvidenceFits(o)

-----------------------------------------------------------------------------
(* Where the two programs part.                                            *)

\* Settled, but a captured or refunded row lies outside the one settlement, or
\* the refund leaves nothing received though fees keep the net from zero.
RefundElsewhere(o) ==
    verdicts[o].pass \in SettlementPasses /\
    \/ \E c \in verdicts[o].rows : captures[c].settlement # captures[Min(verdicts[o].rows)].settlement
    \/ Refunded(o) >= orders[o].amount

\* The lag is counted over a new year, 366 days after the last one.
OverNewYear(o) ==
    verdicts[o].verdict = "settled_late" /\
    \E b \in verdicts[o].credits : bank[b].day = YearEnd + 1
        /\ LatestDay(RowsIn(o, "captured")) = YearEnd

\* The lag is counted over a 29 February, a day short: a payout on the second day
\* passes for one on the first, and the match by amount and date takes a credit of
\* the fourth day, or of the day before the capture.
OverLeapDay(o) ==
    \E b \in verdicts[o].credits :
        \/ /\ verdicts[o].verdict = "settled_clean"
           /\ bank[b].day = LatestDay(Claimed(o) \cap RowsOf(o)) + 2
           /\ LeapDay \in {bank[b].day - 2, bank[b].day - 1}
        \/ /\ verdicts[o].pass = "pass2_amount_date"
           /\ LET latest == LatestDay(Claimed(o))
              IN  \/ bank[b].day = LeapDay /\ latest = LeapDay + 1
                  \/ bank[b].day = latest + 4 /\ LeapDay \in latest..(latest + 3)

\* A failed row of the order, settled with the captured ones, is of a later day,
\* from which the lag is short.
FailedLater(o) ==
    verdicts[o].verdict = "settled_late" /\
    \E b \in verdicts[o].credits : \E c \in Rows(Claimed(o) \cap RowsOf(o), "failed") :
        bank[b].day - captures[c].day <= 1

\* A refunded order repaid short, or one whose rows settled beside another's.
RepaidOddly(o) ==
    verdicts[o].verdict = "refunded_then_repaid" /\
    (verdicts[o].received < orders[o].amount \/ Claimed(o) # RowsOf(o))

\* Proven unpaid, beside a refund of it, or beside a credit that names it and
\* that a settlement has.
UnpaidDespiteRow(o) ==
    verdicts[o].pass = "exhausted" /\
    \/ RowsIn(o, "refund") # {}
    \/ \E b \in Credits : o \in batch.named[b] /\ bank[b].amount \in PossibleAmounts(o)
                          /\ (b \in Consumed \/ bank[b].marked)

\* A rejected candidate of an amount only the tax evidence makes possible.
RejectedByEvidence(o) ==
    verdicts[o].pass = "pass4_rejected" /\
    \E b \in verdicts[o].credits : bank[b].amount \notin PossibleAmounts(o)

SeveralDisputes(o) == Len(orders[o].disputes) > 1

\* A dispute over more than the invoice; finance_events asks for a positive amount.
DisputeTooLarge(o) ==
    Len(orders[o].disputes) = 1 /\ orders[o].disputes[1] > orders[o].amount

PartOn(o) ==
    \/ RefundElsewhere(o)
    \/ OverNewYear(o)
    \/ OverLeapDay(o)
    \/ FailedLater(o)
    \/ RepaidOddly(o)
    \/ UnpaidDespiteRow(o)
    \/ RejectedByEvidence(o)
    \/ SeveralDisputes(o)
    \/ DisputeTooLarge(o)

\* The verifier accepts the certificate of every verdict the matcher gives,
\* and refuses exactly those of the nine kinds above (verifier.py:367-627
\* against recon.py:344-527 and certificates.py:340-464).
VerifierAgrees == \A o \in DOMAIN verdicts : Verifies(o) <=> ~PartOn(o)
=============================================================================
