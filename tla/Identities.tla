----------------------------- MODULE Identities -----------------------------
(***************************************************************************)
(* The accounting identities of the finance events, and their proofs: what *)
(* the issuer (identities.py) finds of the events it is handed, and what   *)
(* verify_identity_certificate (verifier.py) makes of the certificate from *)
(* the sources alone.  A claim is a call of the issuer: the rows of the    *)
(* sources by identifier, the subject, and the identifiers the caller      *)
(* picked, in sequences as they may repeat.  Hashes and the shape of rows  *)
(* are taken as intact.                                                    *)
(***************************************************************************)
EXTENDS Integers, Positions, FiniteSetsExt

CONSTANT Claims   \* the calls looked at

VARIABLES
    claim,    \* the one a proof was made of
    answer    \* what verify-proof prints

Net == "IDENTITY_SETTLEMENT_NET_V1"
Coverage == "IDENTITY_INVOICE_COVERAGE_V1"

Term(name, amount, ref) == [name |-> name, amount |-> amount, ref |-> ref]
TermTotal(terms) == SumFunction([i \in DOMAIN terms |-> terms[i].amount])

CaptureTerms(p, row) ==
    <<Term("gateway_capture", row.amount, p), Term("gateway_fee", - row.fee, p),
      Term("gateway_gst", - row.tax, p)>>

ProcessedRefunds(c) ==
    Pick(c.refunds, {i \in 1..Len(c.refunds) : c.rows[c.refunds[i]].status = "processed"})

\* What the issuer is called with: the events are rows of the sources, of their kinds,
\* and of an invoice there are no adjustments, of a settlement no tax.
IsClaim(c) ==
    /\ c.rule \in {Net, Coverage}
    /\ c.subject \in DOMAIN c.rows
    /\ c.rows[c.subject].kind = IF c.rule = Net THEN "settlement" ELSE "order"
    /\ IsSequence(c.captures) /\ IsSequence(c.refunds) /\ IsSequence(c.adjustments)
    /\ \A p \in ToSet(c.captures) : p \in DOMAIN c.rows /\ c.rows[p].kind = "capture"
    /\ \A r \in ToSet(c.refunds) : r \in DOMAIN c.rows /\ c.rows[r].kind = "refund"
    /\ \A a \in ToSet(c.adjustments) : a \in DOMAIN c.rows /\ c.rows[a].kind = "adjustment"
    /\ IF c.rule = Net THEN c.tds = 0 ELSE c.adjustments = <<>>

ASSUME IdentityConstants == \A c \in Claims : IsClaim(c)

-----------------------------------------------------------------------------
\* The issuer.

\* The terms of each event of a list: three of a settled capture, else one.
OfCaptures(c) ==
    [i \in 1..(3 * Len(c.captures)) |->
        LET p == c.captures[1 + ((i - 1) \div 3)]
        IN  CaptureTerms(p, c.rows[p])[1 + ((i - 1) % 3)]]

OfPayments(c) ==
    [i \in 1..Len(c.captures) |-> Term("payment", c.rows[c.captures[i]].amount, c.captures[i])]

OfRefunds(c) ==
    LET refunds == ProcessedRefunds(c)
    IN  [i \in 1..Len(refunds) |-> Term("refund", - c.rows[refunds[i]].amount, refunds[i])]

OfAdjustments(c) ==
    [i \in 1..Len(c.adjustments) |->
        Term("adjustment", c.rows[c.adjustments[i]].amount, c.adjustments[i])]

OfTax(c) ==
    IF c.tds = 0 THEN <<>>
    ELSE <<Term("tds_withheld", c.tds,
                IF c.tds_source_ref = "" THEN c.subject ELSE c.tds_source_ref)>>

Terms(c) ==
    IF c.rule = Net THEN OfCaptures(c) \o OfRefunds(c) \o OfAdjustments(c)
    ELSE OfPayments(c) \o OfRefunds(c) \o OfTax(c)

\* Fault variant: whose events they are is not asked.
Anyones(c) == FALSE

\* FOREIGN_SOURCE: an event of another settlement, order or payment.
Foreign(c) ==
    \/ \E p \in ToSet(c.captures) :
          \/ c.rows[p].status # "captured"
          \/ c.rule = Net /\ c.rows[p].settlement # c.subject
          \/ c.rule = Coverage /\ c.rows[p].order # c.subject
    \/ \E r \in ToSet(ProcessedRefunds(c)) :
          \/ c.rows[r].payment \notin ToSet(c.captures)
          \/ c.rule = Coverage /\ c.rows[r].order # c.subject
    \/ \E a \in ToSet(c.adjustments) : c.rows[a].settlement # c.subject

\* verify_settlement_identity and verify_invoice_identity find no error.
Holds(c) ==
    /\ c.captures # <<>>
    /\ c.rule = Net => c.rows[c.subject].status = "processed"
    /\ c.tds # 0 => c.tds_source_ref # ""
    /\ IsInjective(c.captures \o ProcessedRefunds(c) \o c.adjustments)
    /\ ~Foreign(c)
    /\ c.rows[c.subject].amount = TermTotal(Terms(c))

Referenced(c) == {c.subject} \cup {t.ref : t \in ToSet(Terms(c))}

\* build_identity_certificate raises nothing.
Issued(c) == Holds(c) /\ Referenced(c) \subseteq DOMAIN c.rows

Certificate(c) ==
    [rule |-> c.rule, subject |-> c.subject, lhs |-> c.rows[c.subject].amount,
     rhs |-> TermTotal(Terms(c)), bound |-> Referenced(c), terms |-> Terms(c)]

-----------------------------------------------------------------------------
\* The verifier.

Bound(cert, rows, kind) == {r \in cert.bound \cap DOMAIN rows : rows[r].kind = kind}

\* The captures of the subject, their refunds, and what else belongs to it, among
\* the rows the certificate binds, as the terms they make.
ExpectedTerms(cert, rows) ==
    LET own(p) == IF cert.rule = Net THEN rows[p].settlement ELSE rows[p].order
        captures == {p \in Bound(cert, rows, "capture") :
                        rows[p].status = "captured" /\ own(p) = cert.subject}
        refunds == {r \in Bound(cert, rows, "refund") :
                        /\ rows[r].status = "processed" /\ rows[r].payment \in captures
                        /\ cert.rule = Coverage => rows[r].order = cert.subject}
        adjustments == {a \in Bound(cert, rows, "adjustment") : rows[a].settlement = cert.subject}
        withheld == {e \in Bound(cert, rows, "ledger") :
                        /\ rows[e].event = "tds_withheld" /\ rows[e].source = cert.subject
                        /\ rows[e].direction = "credit"}
    IN  {Term("refund", - rows[r].amount, r) : r \in refunds} \cup
        IF cert.rule = Net
        THEN (UNION {ToSet(CaptureTerms(p, rows[p])) : p \in captures})
             \cup {Term("adjustment", rows[a].amount, a) : a \in adjustments}
        ELSE {Term("payment", rows[p].amount, p) : p \in captures}
             \cup {Term("tds_withheld", rows[e].amount, e) : e \in withheld}

\* Each expected term is there once, and no other; a payment is among them; and the
\* subject is what they add up to.
IdentityVerifies(cert, rows) ==
    /\ cert.bound \subseteq DOMAIN rows
    /\ cert.rule = Net => rows[cert.subject].status = "processed"
    /\ ToSet(cert.terms) = ExpectedTerms(cert, rows) /\ IsInjective(cert.terms)
    /\ \E t \in ToSet(cert.terms) : t.name \in {"gateway_capture", "payment"}
    /\ cert.lhs = rows[cert.subject].amount
    /\ cert.rhs = TermTotal(cert.terms) /\ cert.lhs = cert.rhs

-----------------------------------------------------------------------------
\* finance_scenarios: the matrix the generator issues proofs of, every one but
\* missing_source.

ScenarioNames == {"full_refund", "partial_refund", "open_dispute", "closed_dispute",
    "positive_adjustment", "negative_adjustment", "fee_reversal", "gst_variance",
    "cross_period_settlement", "split_capture_payout", "tds", "missing_source"}

Scenario(name) ==
    LET refunded == CASE name = "full_refund" -> 10000 [] name = "partial_refund" -> 1000
                      [] OTHER -> 0
        adjusted == CASE name = "full_refund" -> 236 [] name = "positive_adjustment" -> 500
                      [] name = "negative_adjustment" -> -500 [] name = "fee_reversal" -> 200
                      [] name = "gst_variance" -> -36 [] OTHER -> 0
        settled == CASE name = "full_refund" -> 0 [] name = "partial_refund" -> 8764
                     [] name = "positive_adjustment" -> 10264
                     [] name = "negative_adjustment" -> 9264 [] name = "fee_reversal" -> 9964
                     [] name = "gst_variance" -> 9728 [] name = "split_capture_payout" -> 29292
                     [] name = "tds" -> 9000 [] OTHER -> 9764
        capture(order, amount, fee, tax) ==
            [kind |-> "capture", order |-> order, amount |-> amount, fee |-> fee, tax |-> tax,
             status |-> "captured", settlement |-> "setl"]
    IN  [rule |-> IF name = "tds" THEN Coverage ELSE Net,
         subject |-> IF name = "tds" THEN "ORD" ELSE "setl",
         captures |-> CASE name = "missing_source" -> <<>>
                        [] name = "split_capture_payout" -> <<"pay", "pay-2">>
                        [] OTHER -> <<"pay">>,
         refunds |-> IF refunded = 0 THEN <<>> ELSE <<"rfnd">>,
         adjustments |-> IF adjusted = 0 THEN <<>> ELSE <<"adj">>,
         tds |-> IF name = "tds" THEN 1000 ELSE 0,
         tds_source_ref |-> IF name = "tds" THEN "tds" ELSE "",
         rows |-> [id \in {"ORD", "setl", "pay", "pay-2", "rfnd", "adj", "tds"} |->
            CASE id = "ORD"  -> [kind |-> "order", amount |-> 10000]
              [] id = "setl" -> [kind |-> "settlement", amount |-> settled, status |-> "processed"]
              [] id = "pay"  -> IF name = "tds" THEN capture("ORD", 9000, 0, 0)
                                ELSE capture("ORD", 10000, 200, 36)
              [] id = "pay-2" -> capture("ORD-2", 20000, 400, 72)
              [] id = "rfnd" -> [kind |-> "refund", payment |-> "pay", order |-> "ORD",
                                 amount |-> refunded, status |-> "processed"]
              [] id = "adj"  -> [kind |-> "adjustment", settlement |-> "setl", amount |-> adjusted]
              [] id = "tds"  -> [kind |-> "ledger", event |-> "tds_withheld", source |-> "ORD",
                                 amount |-> 1000, direction |-> "credit"]]]

-----------------------------------------------------------------------------
\* The file may hold what no issuer wrote: the certificate of any claim.
ProofInit == claim \in Claims /\ answer = "none"

\* cmd_verify_proof, of a finance identity.
VerifyProof ==
    /\ answer = "none"
    /\ answer' = IF IdentityVerifies(Certificate(claim), claim.rows) THEN "VALID" ELSE "INVALID"
    /\ UNCHANGED claim

ProofSpec == ProofInit /\ [][VerifyProof]_<<claim, answer>>

-----------------------------------------------------------------------------
\* The tax withheld is on the issuer's caller's word: the entry it names may be
\* anything.
OnRecord(c) ==
    c.tds # 0 =>
        LET row == c.rows[c.tds_source_ref]
        IN  row.kind = "ledger" /\ row.event = "tds_withheld" /\ row.source = c.subject
            /\ row.direction = "credit" /\ row.amount = c.tds

\* What the issuer finds to hold of the events picked, the verifier finds from the
\* sources alone, and nothing else: no event counted twice, of another order or
\* settlement, pending, or left unpriced gets past it; only a tax that the ledger
\* does not have is issued and then refused.  Of the generator's scenarios every
\* one is verified but the one without a payment.
IdentityAgrees ==
    answer # "none" =>
        /\ answer = "VALID" <=> Issued(claim) /\ OnRecord(claim)
        /\ \A name \in ScenarioNames : claim = Scenario(name) =>
              answer = IF name = "missing_source" THEN "INVALID" ELSE "VALID"

=============================================================================
