------------------------- MODULE MCAuthorityLadder -------------------------
(***************************************************************************)
(* A calibration batch of ten probabilistic orders, their scores tied at   *)
(* the maximum as the matcher's are, and one more order settled on its     *)
(* UTR, whose capture and credit give the lag and the fee.  MIN_WINDOW is  *)
(* ten, so that one row is a tenth.  Each live batch changes one thing:    *)
(* "calm" the order of the rows, "odd" two amounts, "foreign" every        *)
(* amount, "late" the credits' day; "tiny" lacks an order.                 *)
(***************************************************************************)
EXTENDS DriftLadder

MCOrder(i, amount) == [id |-> i, amount |-> amount]

MCCapture(day) == [amount |-> 100000, fee |-> 2000, tax |-> 360, utr |-> "u1", day |-> day]

MCCredit(id, utr, fields) ==
    [id |-> id, kind |-> "credit", utr |-> utr, day |-> 12, narration |-> fields]

MCVerdict(path, score, refs) == [path |-> path, score |-> score, refs |-> refs]

MCBatch(ids, amount(_)) ==
    [orders |-> [i \in DOMAIN ids |-> MCOrder(ids[i], amount(ids[i]))]
                \o <<MCOrder(11, 100000)>>,
     captures |-> <<MCCapture(9), MCCapture(10)>>,
     bank |-> <<MCCredit("b1", "u1", {"mode", "settlement_id"}),
                MCCredit("b2", "", {"mode", "invoice"}),
                [MCCredit("b3", "u1", {"mode"}) EXCEPT !.kind = "debit"]>>,
     verdicts |-> [i \in 1..11 |->
        IF i = 11 THEN MCVerdict("exact", 0, <<"b1">>)
        ELSE MCVerdict("probabilistic", SCORE_PPM, <<"b2", "b3">>)]]

MCIds == [i \in 1..10 |-> i]
MCUsual(i) == IF i <= 5 THEN 45000 ELSE 450000
MCTwoMoved(i) == IF i \in {2, 3} THEN 4500000 ELSE MCUsual(i)
MCHuge(i) == 45000000

MCBaseline == MCBatch(MCIds, MCUsual)

MCLive ==
    [tiny    |-> MCBatch([i \in 1..9 |-> i], MCUsual),
     calm    |-> MCBatch(Reverse(MCIds), MCUsual),
     odd     |-> MCBatch(MCIds, MCTwoMoved),
     foreign |-> MCBatch(MCIds, MCHuge),
     late    |-> ShiftFeed(MCBaseline, 7)]

MCWindow == DOMAIN MCLive

MCSeverity == Reports

\* The ranks by counting are those of a sorted list, ties and negatives among them.
ASSUME RanksAreSorted ==
    \A n \in 1..4 : \A values \in [1..n -> -1..2], k \in 1..n :
        Ranked(values, k) = SortSeq(values, LAMBDA x, y : x < y)[k]
=============================================================================
