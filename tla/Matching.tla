------------------------------ MODULE Matching ------------------------------
(***************************************************************************)
(* reconcile (recon.py): one batch of orders, gateway rows and bank rows,  *)
(* joined in passes.  Settlements are joined first, in the order in which  *)
(* the captures name them, each to one bank credit; the orders that have   *)
(* no gateway row, or a refund of all they paid, are then matched with the *)
(* credits that are left, component by component; last, every order gets   *)
(* its verdict.                                                            *)
(*                                                                         *)
(* Rows are named by their index, for identifiers are unique.  The names   *)
(* and dates that score a pair are its weight, in points; the probability  *)
(* thresholds are points too, for P(match) grows with the weight.  "" is   *)
(* the empty reference, 0 no credit.                                       *)
(***************************************************************************)
EXTENDS Integers, Sequences, FiniteSets, FiniteSetsExt, Functions

CONSTANTS
    Batches,               \* the batches to reconcile
    TIE_MARGIN_POINTS,
    MAX_COMPONENT_EDGES,
    MatchPoints,           \* the weight from which 1 - P(match) <= q_hat
    YearEnd,               \* the last day of a year, on the calendar's count
    LeapDay                \* a 29 February, 60 days into its year, on the same count

Status == {"captured", "failed", "refund", "chargeback_open"}

\* An order is of some amount, a refund is negative and every other row is not;
\* the contract of a source refuses what is not.  disputes are the amounts of the
\* order's open disputes.  A narration may be marked as a settlement's without
\* naming it in the form the matcher reads.
Order == [amount : Nat \ {0}, due : Nat, disputes : Seq(Nat \ {0}), tds : SUBSET Nat, floor : Int]
Capture == [order : Nat, amount : Int \ {0}, fee : Nat, status : Status, day : Nat,
            settlement : STRING, utr : STRING]
BankTxn == [kind : {"credit", "debit"}, amount : Nat \ {0}, utr : STRING,
            settlement : STRING, marked : BOOLEAN, day : Nat]

\* What the sources hold of a batch, the weight of a pair, and the orders a
\* credit's narration may name.
IsBatch(b) ==
    /\ b.orders \in Seq(Order)
    /\ b.captures \in Seq(Capture)
    /\ \A i \in 1..Len(b.captures) : b.captures[i].status = "refund" <=> b.captures[i].amount < 0
    /\ b.bank \in Seq(BankTxn)
    /\ \A i \in 1..Len(b.bank) : b.bank[i].settlement # "" => b.bank[i].marked
    /\ b.weight \in [1..Len(b.orders) -> [1..Len(b.bank) -> Int]]
    /\ b.named \in [1..Len(b.bank) -> SUBSET (1..Len(b.orders))]

ASSUME MatchingConstants ==
    /\ \A b \in Batches : IsBatch(b)
    /\ TIE_MARGIN_POINTS \in Nat
    /\ MAX_COMPONENT_EDGES \in Nat
    /\ MatchPoints \in Int
    /\ YearEnd \in Nat /\ LeapDay \in Nat
    /\ LeapDay >= YearEnd + 60 \/ YearEnd >= LeapDay + 306

VARIABLES
    batch,
    pc,          \* the stage of the run
    hits,        \* the credit and the pass of every settlement joined so far
    assignment,  \* what pass 4 chose for an order
    verdicts     \* the verdicts given so far

vars == <<batch, pc, hits, assignment, verdicts>>

orders == batch.orders
captures == batch.captures
bank == batch.bank
Orders == 1..Len(orders)
Captures == 1..Len(captures)
Credits == {b \in 1..Len(bank) : bank[b].kind = "credit"}

-----------------------------------------------------------------------------
(* Dates and money.                                                        *)

\* _day_delta counts 366 days to every year and 28 to every February, so the day
\* after a 29 February has its number.  Bound: one new year and one leap day.
Ordinal(day) ==
    day + (IF day > YearEnd THEN 1 ELSE 0) - (IF day > LeapDay THEN 1 ELSE 0)
DayDelta(from, to) == Ordinal(to) - Ordinal(from)

\* The statement reaches three days past the given one.
Covered(day) == DayDelta(Max({bank[b].day : b \in 1..Len(bank)} \cup {0}), day) <= -3

NetOf(c) == captures[c].amount - captures[c].fee
NetSum(rows) == SumFunctionOnSet([c \in rows |-> NetOf(c)], rows)

STATUTORY_TDS_RATES_BP == {100, 200, 1000}
TdsNets(amount) == {amount - ((amount * bp) \div 10000) : bp \in STATUTORY_TDS_RATES_BP}

RowsOf(o) == {c \in Captures : captures[c].order = o}
RowsIn(o, status) == {c \in RowsOf(o) : captures[c].status = status}
LatestDay(rows) == Max({captures[c].day : c \in rows})

-----------------------------------------------------------------------------
(* Passes 1 to 3: a settlement and the one credit that paid it out.        *)

Settlements == {captures[c].settlement : c \in Captures} \ {""}
Group(sid) == {c \in Captures : captures[c].settlement = sid}
Expected(sid) == NetSum(Group(sid))
Paying(sid) == {b \in Credits : bank[b].amount = Expected(sid)}
Consumed == {hits[sid].credit : sid \in DOMAIN hits} \ {0}

\* Of the credits that name the settlement, only the last is looked at.
Pass3(sid) ==
    {b \in Paying(sid) : b = Max({x \in Credits : bank[x].settlement = sid} \cup {0})}

\* The first capture of the group whose UTR a credit of that amount carries.
SharedUtr(c, b) == bank[b].utr # "" /\ bank[b].utr = captures[c].utr
Pass1(sid) ==
    {b \in Paying(sid) : \E c \in Group(sid) :
        /\ SharedUtr(c, b)
        /\ \A d \in Group(sid), x \in Paying(sid) :
               SharedUtr(d, x) => d > c \/ (d = c /\ x >= b)}

\* Only this pass asks whether another settlement has the credit already.
Pass2(sid) ==
    IF Expected(sid) = 0 THEN {}
    ELSE {b \in Paying(sid) \ Consumed :
              DayDelta(LatestDay(Group(sid)), bank[b].day) \in 0..3}

SettlementHit(sid) ==
    IF Pass3(sid) # {} THEN [credit |-> Min(Pass3(sid)), pass |-> "pass3_settlement_id"]
    ELSE IF Pass1(sid) # {} THEN [credit |-> Min(Pass1(sid)), pass |-> "pass1_exact_utr"]
    ELSE IF Pass2(sid) # {} THEN [credit |-> Min(Pass2(sid)), pass |-> "pass2_amount_date"]
    ELSE [credit |-> 0, pass |-> ""]

-----------------------------------------------------------------------------
(* Pass 4: the orders without a gateway row, or refunded in full, and the  *)
(* credits of a compatible amount that no settlement has consumed.         *)

RefundNetZero(o) ==
    /\ RowsIn(o, "refund") # {}
    /\ RowsOf(o) = RowsIn(o, "captured") \cup RowsIn(o, "refund")
    /\ NetSum(RowsOf(o)) = 0

FuzzyOrders == {o \in Orders : RowsOf(o) = {} \/ RefundNetZero(o)}

\* Fault variant: the credits that settlements have consumed stay in the pool.
WholePool == {b \in Credits : ~bank[b].marked}

Pool == {b \in Credits \ Consumed : ~bank[b].marked}

CandidateAmounts(o) ==
    {orders[o].amount} \cup TdsNets(orders[o].amount)
    \cup {orders[o].amount - t : t \in {u \in orders[o].tds : u < orders[o].amount}}

Edges(o) == {b \in Pool : bank[b].amount \in CandidateAmounts(o)}
Weight(o, b) == batch.weight[o][b]

\* The orders that a chain of shared candidates joins to o: every set of orders
\* that holds o and all who share a candidate with a member has them.
Closed(S) == \A p \in S, q \in FuzzyOrders : Edges(p) \cap Edges(q) # {} => q \in S
Component(o) ==
    {p \in FuzzyOrders : \A S \in SUBSET FuzzyOrders : o \in S /\ Closed(S) => p \in S}

\* One credit or none for every order of a set, no credit twice.
Matchings(S) ==
    {m \in [S -> Pool \cup {0}] :
        /\ \A o \in S : m[o] \in Edges(o) \cup {0}
        /\ \A o, p \in S : m[o] = m[p] /\ m[o] # 0 => o = p}

Total(m) == SumFunction([o \in DOMAIN m |-> IF m[o] = 0 THEN 0 ELSE Weight(o, m[o])])

Optimal(S) == {m \in Matchings(S) : \A n \in Matchings(S) : Total(n) <= Total(m)}

NearOptimal(S) ==
    {m \in Matchings(S) : \A n \in Matchings(S) : Total(m) >= Total(n) - TIE_MARGIN_POINTS}

\* Fault variant: every order takes its best candidate, whoever else has it.
GreedyAssignment(S) ==
    {[o \in S |-> [credit |-> m[o], tie |-> FALSE]] :
        m \in {n \in [S -> Pool \cup {0}] : \A o \in S :
            /\ n[o] \in Edges(o) \cup {0}
            /\ \A b \in Edges(o) : n[o] # 0 /\ Weight(o, b) <= Weight(o, n[o])}}

\* Fault variant: a tie is one between optimal assignments only.
TieAtOptimum(S) ==
    {[o \in S |-> [credit |-> m[o], tie |-> \E n \in Optimal(S) : n[o] # m[o]]] :
        m \in Optimal(S)}

\* The assignments _assign_component may return; it takes the first optimum,
\* but where optima differ the order is tied and its credit is not used.
ComponentAssignment(S) ==
    {[o \in S |-> [credit |-> m[o], tie |-> \E n \in NearOptimal(S) : n[o] # m[o]]] :
        m \in Optimal(S)}

EdgeCount(S) == SumFunction([o \in S |-> Cardinality(Edges(o))])

-----------------------------------------------------------------------------
(* Verdicts.  A verdict keeps the pass behind it, the automation path, the *)
(* rows it refers to and the money it claims.                              *)

Abstain == [verdict |-> "ambiguous", pass |-> "none", path |-> "manual", rows |-> {},
         credits |-> {}, tds |-> 0, received |-> 0, due |-> 0, covered |-> TRUE]

Chargeback(o) ==
    LET frozen == [Abstain EXCEPT !.verdict = "chargeback_open", !.path = "exact",
                               !.received = orders[o].amount]
    IN  IF orders[o].disputes # <<>> THEN [frozen EXCEPT !.pass = "finance_event_dispute"]
        ELSE [frozen EXCEPT !.pass = "gateway_status", !.rows = RowsIn(o, "chargeback_open")]

\* The settlement looked up is that of the order's first captured row.
HitOf(o) ==
    LET sid == captures[Min(RowsIn(o, "captured"))].settlement
    IN  IF sid \in DOMAIN hits THEN hits[sid] ELSE [credit |-> 0, pass |-> ""]

AmountOf(rows) == SumFunction([c \in rows |-> captures[c].amount])
Refunded(o) == - AmountOf(RowsIn(o, "refund"))

Settled(o) ==
    LET latest == LatestDay(RowsIn(o, "captured"))
        hit == HitOf(o)
        lag == DayDelta(latest, bank[hit.credit].day)
        proven == [Abstain EXCEPT
            !.pass = hit.pass, !.path = "exact", !.credits = {hit.credit},
            !.rows = RowsIn(o, "captured") \cup RowsIn(o, "refund"),
            !.received = orders[o].amount - Refunded(o), !.due = Refunded(o)]
    IN  IF hit.credit = 0
        THEN [Abstain EXCEPT !.rows = RowsIn(o, "captured"), !.covered = Covered(latest)]
        ELSE [proven EXCEPT !.verdict =
                 IF RowsIn(o, "refund") # {} THEN "partially_paid"
                 ELSE IF lag <= 1 THEN "settled_clean" ELSE "settled_late"]

\* conformal.decide, and the floor below which a match costs too much if wrong.
Decision(o, weight) ==
    LET match == weight >= MatchPoints
        nonMatch == weight <= - MatchPoints
    IN  IF match /\ ~nonMatch /\ weight >= orders[o].floor THEN "MATCH"
        ELSE IF nonMatch /\ ~match THEN "NON_MATCH" ELSE "AMBIGUOUS"

DuplicateUtr(b) ==
    bank[b].utr # "" /\ \E x \in 1..Len(bank) \ {b} : bank[x].utr = bank[b].utr

\* A match whose credit falls short is closed by typed evidence of the tax only.
Matched(o, b) ==
    LET amount == bank[b].amount
        withheld == IF RefundNetZero(o) THEN 0 ELSE orders[o].amount - amount
        paid == [Abstain EXCEPT !.pass = "pass4_fuzzy", !.path = "probabilistic",
                             !.credits = {b}, !.received = amount]
    IN  IF withheld > 0 /\ withheld \in orders[o].tds
        THEN [paid EXCEPT !.verdict = "paid_net_of_tds",
                          !.pass = "pass4_fuzzy_tds_evidence", !.tds = withheld]
        ELSE IF withheld > 0 /\ amount \in TdsNets(orders[o].amount)
        THEN [Abstain EXCEPT !.verdict = "possible_tds_withholding",
                          !.pass = "pass4_fuzzy", !.credits = {b}]
        ELSE [paid EXCEPT !.verdict = IF RefundNetZero(o) THEN "refunded_then_repaid"
                                      ELSE "paid_out_of_band"]

\* Fault variant: an order whose candidates were all rejected counts as proven
\* unpaid, like one that had none.
UnpaidByExhaustion(o, chosen) ==
    [Abstain EXCEPT !.verdict = "genuinely_unpaid", !.pass = "exhausted", !.path = "exact",
                 !.covered = Covered(orders[o].due)]

\* Unpaid is an exact proof only if there was no candidate to reject.
Unpaid(o, chosen) ==
    LET unpaid == [Abstain EXCEPT !.verdict = "genuinely_unpaid", !.path = "probabilistic",
                               !.covered = Covered(orders[o].due)]
        edges == IF o \in FuzzyOrders THEN Edges(o) ELSE {}
    IN  IF chosen # 0 THEN [unpaid EXCEPT !.pass = "pass4_fuzzy", !.credits = {chosen}]
        ELSE IF edges # {} THEN [unpaid EXCEPT !.pass = "pass4_rejected", !.credits = edges]
        ELSE [unpaid EXCEPT !.pass = "exhausted", !.path = "exact"]

Fuzzy(o) ==
    LET choice == IF o \in FuzzyOrders THEN assignment[o] ELSE [credit |-> 0, tie |-> FALSE]
        b == choice.credit
        decision == IF b = 0 THEN "NON_MATCH" ELSE Decision(o, Weight(o, b))
        held == [Abstain EXCEPT !.pass = "pass4_fuzzy", !.credits = {b}]
    IN  IF choice.tie THEN [held EXCEPT !.credits = Edges(o)]
        ELSE IF b # 0 /\ DuplicateUtr(b) THEN held
        ELSE IF decision = "MATCH" THEN Matched(o, b)
        ELSE IF decision = "AMBIGUOUS" THEN [held EXCEPT !.path = "probabilistic"]
        ELSE IF RefundNetZero(o) THEN [Abstain EXCEPT !.pass = "net_arithmetic", !.rows = RowsOf(o)]
        ELSE Unpaid(o, b)

\* _resolve, top to bottom.
Resolve(o) ==
    IF orders[o].disputes # <<>> \/ RowsIn(o, "chargeback_open") # {} THEN Chargeback(o)
    ELSE IF RowsIn(o, "captured") # {} /\ ~RefundNetZero(o) THEN Settled(o)
    ELSE IF RowsIn(o, "failed") # {} /\ RowsIn(o, "refund") = {} /\ RowsIn(o, "captured") = {}
    THEN [Abstain EXCEPT !.verdict = "failed_not_debited", !.pass = "gateway_status",
                      !.path = "exact", !.rows = RowsIn(o, "failed")]
    ELSE Fuzzy(o)

-----------------------------------------------------------------------------
(* The run.                                                                *)

Init ==
    /\ batch \in Batches
    /\ pc = "settle"
    /\ hits = <<>>
    /\ assignment = <<>>
    /\ verdicts = <<>>

Unjoined == {c \in Captures : captures[c].settlement \notin DOMAIN hits \cup {""}}

\* A dict with more entries.
Extended(f, g) ==
    [x \in DOMAIN f \cup DOMAIN g |-> IF x \in DOMAIN f THEN f[x] ELSE g[x]]

First(S) == {x \in S : \A y \in S : x <= y}

\* The next settlement, in the order of the first capture that names it.
JoinSettlement ==
    /\ pc = "settle"
    /\ \E c \in First(Unjoined) :
          LET sid == captures[c].settlement
          IN  hits' = Extended(hits, [s \in {sid} |-> SettlementHit(s)])
    /\ UNCHANGED <<batch, pc, assignment, verdicts>>

CloseSettlements ==
    /\ pc = "settle"
    /\ Unjoined = {}
    /\ pc' = "assign"
    /\ UNCHANGED <<batch, hits, assignment, verdicts>>

Unassigned == FuzzyOrders \ DOMAIN assignment

AssignComponent ==
    /\ pc = "assign"
    /\ \E o \in First(Unassigned) :
          /\ EdgeCount(Component(o)) <= MAX_COMPONENT_EDGES
          /\ \E a \in ComponentAssignment(Component(o)) : assignment' = Extended(assignment, a)
    /\ UNCHANGED <<batch, pc, hits, verdicts>>

\* Too entangled to be enumerated: every order of the component is held.
AbstainOnComponent ==
    /\ pc = "assign"
    /\ \E o \in First(Unassigned) :
          /\ EdgeCount(Component(o)) > MAX_COMPONENT_EDGES
          /\ assignment' = Extended(assignment,
                 [p \in Component(o) |-> [credit |-> 0, tie |-> TRUE]])
    /\ UNCHANGED <<batch, pc, hits, verdicts>>

CloseAssignment ==
    /\ pc = "assign"
    /\ Unassigned = {}
    /\ pc' = "resolve"
    /\ UNCHANGED <<batch, hits, assignment, verdicts>>

Unresolved == Orders \ DOMAIN verdicts

ResolveOrder ==
    /\ pc = "resolve"
    /\ \E o \in First(Unresolved) : verdicts' = Extended(verdicts, [p \in {o} |-> Resolve(p)])
    /\ UNCHANGED <<batch, pc, hits, assignment>>

Next ==
    \/ JoinSettlement
    \/ CloseSettlements
    \/ AssignComponent
    \/ AbstainOnComponent
    \/ CloseAssignment
    \/ ResolveOrder

Spec == Init /\ [][Next]_vars

-----------------------------------------------------------------------------
(* Properties.                                                             *)

Verdict == {"settled_clean", "settled_late", "paid_out_of_band", "refunded_then_repaid",
            "partially_paid", "paid_net_of_tds", "possible_tds_withholding",
            "genuinely_unpaid", "failed_not_debited", "chargeback_open", "ambiguous"}

\* The type invariant: settlements and orders of this batch only, each with a
\* credit of the bank or none, and verdicts of the closed taxonomy.
TypeOK ==
    /\ IsBatch(batch)
    /\ pc \in {"settle", "assign", "resolve"}
    /\ DOMAIN hits \subseteq Settlements
    /\ \A sid \in DOMAIN hits : hits[sid].credit \in Credits \cup {0}
    /\ DOMAIN assignment \subseteq FuzzyOrders
    /\ \A o \in DOMAIN assignment : assignment[o].credit \in Credits \cup {0}
    /\ DOMAIN verdicts \subseteq Orders
    /\ \A o \in DOMAIN verdicts :
          /\ verdicts[o].verdict \in Verdict
          /\ verdicts[o].credits \subseteq Credits

Paid == {"settled_clean", "settled_late", "partially_paid", "paid_out_of_band",
         "refunded_then_repaid", "paid_net_of_tds"}
PaidOrders == {o \in DOMAIN verdicts : verdicts[o].verdict \in Paid}

\* A credit that pass 4 gave to an order proves the payment of no other order,
\* neither in pass 4 nor as the payout of a settlement (recon.py:159-162,
\* 271-272).
FuzzyCreditProvesOnce ==
    \A o, p \in PaidOrders :
        o # p /\ verdicts[o].path = "probabilistic"
            => verdicts[o].credits \cap verdicts[p].credits = {}

Enumerated == {o \in FuzzyOrders : EdgeCount(Component(o)) <= MAX_COMPONENT_EDGES}

\* Solving the components one by one gives an optimum over all orders at once,
\* those of components past the limit aside (recon.py:118-173).
AssignmentIsOptimal ==
    pc = "resolve" /\ verdicts = <<>> =>
        [o \in Enumerated |-> assignment[o].credit] \in Optimal(Enumerated)

\* An order is tied exactly if two assignments of the whole batch, both within
\* the margin of the best, disagree about it, so what is near the optimum of a
\* component is near that of the batch (recon.py:167-172, 318-321); an order of a
\* component past the limit is always held.
TiesAreExact ==
    pc = "resolve" /\ verdicts = <<>> =>
        \A o \in FuzzyOrders : assignment[o].tie <=>
            \/ o \notin Enumerated
            \/ \E m, n \in NearOptimal(Enumerated) : m[o] # n[o]

\* An order is proven unpaid only if no credit outside the settlements has an
\* amount it may have paid; without that proof it is unpaid only because the
\* assignment gave its candidates away, never on a low probability: a credit
\* that is chosen and not tied scores too high for that (recon.py:420-435,
\* 520-526).
\* An order with a refund but no capture is left out: pass 4 does not look for
\* its credits, and recon.py:521-524 calls it exhausted all the same.
UnpaidIsProven ==
    \A o \in DOMAIN verdicts :
        verdicts[o].verdict = "genuinely_unpaid" /\ RowsIn(o, "refund") = {} =>
            /\ verdicts[o].path = "exact" =>
                  \A b \in Credits : bank[b].amount \in CandidateAmounts(o) =>
                      b \in Consumed \/ bank[b].marked
            /\ verdicts[o].path # "exact" => verdicts[o].pass = "pass4_rejected"
=============================================================================
