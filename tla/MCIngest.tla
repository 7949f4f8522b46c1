------------------------------ MODULE MCIngest ------------------------------
(***************************************************************************)
(* One payment refunded twice, by equal parts, and another that is         *)
(* refunded while the feeds are read; pages of two rows, so that an        *)
(* arrival shifts a row into the next page, and a limit of three, so that  *)
(* feeds are cut.                                                          *)
(***************************************************************************)
EXTENDS Ingest

Order(id, flaws) == [id |-> id, flaws |-> flaws]
Payment(id, order, amount, flaws) ==
    [id |-> id, order |-> order, amount |-> amount, captured |-> TRUE, flaws |-> flaws,
     refunded |-> 0, back |-> 0]
RefundOf(id, payment, order, amount, processed) ==
    [id |-> id, payment |-> payment, order |-> order, amount |-> amount,
     processed |-> processed, flaws |-> {}]
Recon(entity, settled, settlement) ==
    [entity |-> entity, settled |-> settled, settlement |-> settlement]
BankRow(id, flaws) == [id |-> id, flaws |-> flaws]

\* p4 is in flight and r4 still pending.
MCInitialApi ==
    [orders      |-> <<Order("o1", {}), Order("o2", {"FLOAT_MONEY", "MISSING_DATE"})>>,
     payments    |-> <<Payment("p2", "o2", 2, {}), Payment("p1", "o1", 3, {}),
                       [Payment("p4", "o2", 1, {}) EXCEPT !.captured = FALSE]>>,
     refunds     |-> <<RefundOf("r4", "p2", "o2", 1, FALSE), RefundOf("r2", "p1", "none", 1, TRUE),
                       RefundOf("r1", "p1", "o1", 1, TRUE)>>,
     settlements |-> <<[id |-> "s1", processed |-> TRUE, flaws |-> {"MISSING_DATE"}]>>,
     recon       |-> <<Recon("p2", FALSE, "s1"), Recon("p1", TRUE, "s1")>>]

MCIncoming ==
    {<<"refunds", RefundOf("r3", "p2", "o2", 1, TRUE)>>,
     <<"payments", Payment("p3", "o1", 1, {"TAX_OVER_FEE"})>>,
     <<"recon", Recon("p1", TRUE, "not text")>>}

MCStatement == <<BankRow("b1", {}), BankRow("b1", {}), BankRow("b2", {"INVALID_MONEY"})>>
=============================================================================
