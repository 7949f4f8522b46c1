----------------------------- MODULE MCMatching -----------------------------
(***************************************************************************)
(* Four families of batches, each small enough to be listed: the fuzzy    *)
(* one has three orders and up to five credits and every ranking of their  *)
(* weights around the margin; the settlement one two captured orders and   *)
(* one without a capture, with up to two credits that name a settlement,   *)
(* carry its UTR or only its amount; the first capture is of the last day  *)
(* of a year, the second and the credits of the next one; the              *)
(* status one a single order and every pair of gateway rows; the leap one  *)
(* one or two captures around a 29 February, which is day 63, and every    *)
(* day of a payout.  A behaviour is of one batch or of one claim of an     *)
(* identity: up to two picks of two payments, refunds and adjustments, the *)
(* second of each of the claim's or of another subject, and a subject that *)
(* balances or is one paisa off.                                           *)
(***************************************************************************)
EXTENDS Certificates, Identities

An(amount) == [amount |-> amount, due |-> 3, disputes |-> <<>>, tds |-> {}, floor |-> 10]
In(amount, utr, sid, day) ==
    [kind |-> "credit", amount |-> amount, utr |-> utr, settlement |-> sid, marked |-> sid # "",
     day |-> day]
Out(utr) == [In(7, utr, "", 4) EXCEPT !.kind = "debit"]
Row(o, amount, status, sid, utr) ==
    [order |-> o, amount |-> amount, fee |-> IF status = "captured" THEN 200 ELSE 0,
     status |-> status, day |-> 2 + o, settlement |-> sid, utr |-> utr]

Of(os, cs, bs, weight, named) ==
    [orders |-> os, captures |-> cs, bank |-> bs, weight |-> weight, named |-> named]

Named(bs, os) == [b \in 1..Len(bs) |-> os]
Flat(os, bs, w) == [o \in 1..Len(os) |-> [b \in 1..Len(bs) |-> w]]

\* Two credits of one amount: three orders compete, or a third is linked to
\* them by the shortfall of a tax.  Three of one amount, for two orders, are at
\* the limit, four are past it; the third order has credits of its own.
TwoCredits == <<In(10000, "u1", "", 4), In(10000, "u2", "", 5)>>
Competing(third, second) ==
    {Of(<<An(10000), An(10000), An(third)>>, <<>>, <<TwoCredits[1], second>>, w,
        Named(TwoCredits, {1, 2, 3})) :
        w \in {v \in [1..3 -> [1..2 -> {-3, 4, 9, 15}]] : v[3][1] \in {4, 15} /\ v[3][2] \in {4, 9}}}

FuzzyBatches ==
    Competing(10000, TwoCredits[2])
    \cup {b \in Competing(9800, In(9800, "u2", "", 5)) : b.weight[1][2] # -3 /\ b.weight[2][1] = 15}
    \cup {LET bs == TwoCredits \o <<In(third, "u3", "", 5), In(10000, "u4", "", 4), In(20000, "", "", 5)>>
          IN  Of(<<An(10000), An(10000), An(20000)>>, <<>>, bs,
                 [o \in 1..3 |-> [b \in 1..5 |-> w[o] + b]], Named(bs, {1})) :
             w \in [1..3 -> {4, 9, 15}], third \in {10000, 20000}}

\* Both captures pay 9800 out, alone or together; the third order is of 9800.
SettlementCredit == {In(amount, utr, sid, day) :
    amount \in {9800, 19600}, utr \in {"", "u1", "u2"}, sid \in {"", "s1", "s2"},
    day \in {4, 6}}

SettlementBatches ==
    {LET os == <<An(10000), An(10000), An(9800)>>
     IN  Of(os, <<Row(1, 10000, "captured", s.first, s.utr), Row(2, 10000, "captured", s.second, s.utr)>>,
            bs, Flat(os, bs, 15), Named(bs, named)) :
        s \in {[first |-> "s1", second |-> "s2", utr |-> "u1"],
               [first |-> "s1", second |-> "s2", utr |-> ""],
               [first |-> "s1", second |-> "s1", utr |-> "u1"],
               [first |-> "s1", second |-> "", utr |-> ""]},
        bs \in {<<>>} \cup {<<b>> : b \in SettlementCredit}
               \cup {<<b, c>> : b, c \in {x \in SettlementCredit : x.day = 4 \/ x.amount = 9800}},
        named \in {{}, {3}}}

GatewayPaid == Row(1, 10000, "captured", "s1", "u1")

\* One order, up to two gateway rows of it or of a neighbour.
GatewayRow ==
    {Row(1, 10000, "captured", sid, "") : sid \in {"s1", ""}}
    \cup {[GatewayPaid EXCEPT !.fee = 0]}
    \cup {Row(1, -amount, "refund", sid, "") : amount \in {4000, 10000}, sid \in {"s1", "s2", ""}}
    \cup {Row(1, 10000, "failed", "", ""), Row(1, 10000, "chargeback_open", "s1", "")}
    \cup {Row(2, 10000, "captured", "s1", "")}

OneOrder(rows, tds, credit, rest, w) ==
    LET os == <<[An(10000) EXCEPT !.tds = tds], An(500)>>
        bs == <<credit>> \o rest
    IN  Of(os, rows, bs, Flat(os, bs, w), Named(bs, {1}))

StatusBatches ==
    {OneOrder(rows, tds, In(amount, "u1", sid, 4), <<>>, 15) :
        rows \in {<<r, s>> : r, s \in GatewayRow}, tds \in {{}, {500}},
        amount \in {10000, 9800, 9500, 5800}, sid \in {"", "s1"}}
    \cup {OneOrder(rows, tds, In(amount, "u1", "", 4), rest, w) :
        rows \in {<<>>} \cup {<<r>> : r \in GatewayRow}, tds \in {{}, {500}, {200}},
        amount \in {10000, 9800, 9500}, rest \in {<<>>, <<Out("u1")>>}, w \in {9, 15}}
    \cup {LET os == <<[An(10000) EXCEPT !.disputes = d]>> IN Of(os, <<>>, <<>>, <<<<>>>>, <<>>) :
             d \in {<<10000>>, <<10001>>, <<4000, 6000>>}}
    \cup {LET os == <<[An(10000) EXCEPT !.tds = {500}], [An(10000) EXCEPT !.tds = {500}]>>
              bs == <<In(9500, "u1", "", 4)>>
          IN  Of(os, <<>>, bs, <<<<15>>, <<w>>>>, Named(bs, {1})) : w \in {4, 9, 15}}
    \cup {OneOrder(<<GatewayPaid, [GatewayPaid EXCEPT !.status = "failed", !.day = day]>>, {},
                   In(19600, "u1", "s1", 6), <<>>, 15) : day \in {3, 4, 5}}
    \cup {OneOrder(rows, {}, [In(amount, "u1", "", 4) EXCEPT !.marked = TRUE], <<>>, 15) :
              rows \in {<<>>, <<GatewayPaid>>}, amount \in {10000, 9800}}

\* One order or two, captured around the leap day and paid out up to five days later.
LeapBatches ==
    LET At(row, day) == [row EXCEPT !.day = day]
        Two(day, other, row, credit) ==
            OneOrder(<<At(GatewayPaid, day), At(row, other)>>, {}, credit, <<>>, 15)
    IN  {OneOrder(<<At(GatewayPaid, day)>>, {}, In(9800, utr, sid, paid), <<>>, 15) :
            day \in 61..65, utr \in {"", "u1"}, sid \in {"", "s1"}, paid \in 61..69}
        \cup {Two(day, day, Row(1, -4000, "refund", "s1", ""), In(5800, "", "", paid)) :
                 day \in 61..65, paid \in 61..69}
        \cup {Two(day, other, Row(2, 10000, "captured", "s1", ""), In(19600, utr, "", paid)) :
                 day \in 61..65, other \in 62..64, utr \in {"", "u1"}, paid \in 61..69}
        \cup {Two(day, other, [GatewayPaid EXCEPT !.status = "failed"], In(19600, utr, "", paid)) :
                 day \in 61..65, other \in 62..64, utr \in {"", "u1"}, paid \in 61..69}

Picks(a, b) == {<<>>, <<a>>, <<b>>, <<a, a>>, <<a, b>>}

\* The sources of a claim: the first of each kind is the subject's own.
Events(second, ledger) ==
    "p1" :> [kind |-> "capture", order |-> "o1", amount |-> 10, fee |-> 2, tax |-> 1,
             status |-> "captured", settlement |-> "s1"] @@
    "p2" :> [kind |-> "capture", order |-> second.order, amount |-> 20, fee |-> 4, tax |-> 0,
             status |-> second.status, settlement |-> second.settlement] @@
    "r1" :> [kind |-> "refund", payment |-> "p1", order |-> "o1", amount |-> 10,
             status |-> "processed"] @@
    "r2" :> [kind |-> "refund", payment |-> "p2", order |-> second.order, amount |-> 5,
             status |-> second.refund] @@
    "a1" :> [kind |-> "adjustment", settlement |-> "s1", amount |-> 3] @@
    "a2" :> [kind |-> "adjustment", settlement |-> second.settlement, amount |-> -3] @@
    "t1" :> ledger

Seconds == {[order |-> "o1", status |-> "captured", settlement |-> "s1", refund |-> "processed"],
            [order |-> "o2", status |-> "captured", settlement |-> "s1", refund |-> "pending"],
            [order |-> "o2", status |-> "captured", settlement |-> "s2", refund |-> "processed"],
            [order |-> "o1", status |-> "failed", settlement |-> "s1", refund |-> "processed"]}

Ledgers == {[kind |-> "ledger", event |-> "tds_withheld", source |-> source, amount |-> 4,
             direction |-> direction] : source \in {"o1", "o2"}, direction \in {"credit", "debit"}}

\* The subject's amount is what the terms add up to, or a paisa more.
Balanced(call, rows, subject, off) ==
    LET at(amount) == call @@ [rows |-> call.subject :> [subject EXCEPT !.amount = amount] @@ rows]
    IN  at(TermTotal(Terms(at(0))) + off)

SettlementClaims ==
    {Balanced([rule |-> Net, subject |-> "s1", captures |-> ps, refunds |-> rs,
               adjustments |-> as, tds |-> 0, tds_source_ref |-> ""],
              Events(second, CHOOSE l \in Ledgers : TRUE),
              [kind |-> "settlement", amount |-> 0, status |-> status], off) :
        ps \in Picks("p1", "p2"), rs \in Picks("r1", "r2"), as \in Picks("a1", "a2"),
        second \in Seconds, status \in {"processed", "pending"}, off \in {0, 1}}

InvoiceClaims ==
    {Balanced([rule |-> Coverage, subject |-> "o1", captures |-> ps, refunds |-> rs,
               adjustments |-> <<>>, tds |-> tds.amount, tds_source_ref |-> tds.ref],
              Events(second, ledger), [kind |-> "order", amount |-> 0], off) :
        ps \in Picks("p1", "p2"), rs \in Picks("r1", "r2"),
        tds \in [amount : {0, 4, 5}, ref : {"", "t1", "gone", "p1"}],
        second \in Seconds, ledger \in Ledgers, off \in {0, 1}}

MCClaims == SettlementClaims \cup InvoiceClaims \cup {Scenario(name) : name \in ScenarioNames}

MCBatches == FuzzyBatches \cup SettlementBatches \cup StatusBatches \cup LeapBatches

NoClaim == [rule |-> "none"]

MCInit ==
    \/ Init /\ claim = NoClaim /\ answer = "none"
    \/ batch = (CHOOSE b \in Batches : TRUE) /\ Init /\ ProofInit

MCNext ==
    \/ claim = NoClaim /\ Next /\ UNCHANGED <<claim, answer>>
    \/ claim # NoClaim /\ VerifyProof /\ UNCHANGED vars

MCSpec == MCInit /\ [][MCNext]_<<vars, claim, answer>>
=============================================================================
