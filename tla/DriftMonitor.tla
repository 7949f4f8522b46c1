---------------------------- MODULE DriftMonitor ----------------------------
(***************************************************************************)
(* The distribution-shift monitor of ledger_daemon/drift.py: a batch and   *)
(* its verdicts are reduced to one row of integers per order on the        *)
(* probabilistic path, and the rows of a window are scored against those   *)
(* of the calibration batch by five signals.  All arithmetic is on         *)
(* integers; ppm and bp are the code's millionths and ten-thousandths.     *)
(***************************************************************************)
EXTENDS Integers, Positions, FiniteSetsExt

CONSTANTS
    MIN_WINDOW,    \* a window with fewer rows is refused
    MAX_DIGITS     \* bound on the digits of an amount

ASSUME MonitorConstants == MIN_WINDOW \in Nat \ {0} /\ MAX_DIGITS \in 0..1000

SCORE_PPM == 1000000
BP == 10000
NOMINAL_TAIL_BP == 1000

-----------------------------------------------------------------------------
(* Statistics.                                                             *)

\* sorted(values)[k - 1]: fewer than k are less, and at least k are no greater.
Ranked(values, k) ==
    CHOOSE v \in ToSet(values) :
        /\ Cardinality({i \in DOMAIN values : values[i] < v}) < k
        /\ k =< Cardinality({i \in DOMAIN values : values[i] =< v})

\* The lower median.
Median(values) ==
    IF values = <<>> THEN 0 ELSE Ranked(values, ((Len(values) - 1) \div 2) + 1)

MeanPpm(values) ==
    IF values = <<>> THEN 0
    ELSE MapThenSumSet(LAMBDA i : values[i], DOMAIN values) \div Len(values)

Percentile(values, pct) ==
    IF values = <<>> THEN 0 ELSE Ranked(values, (((Len(values) - 1) * pct) \div 100) + 1)

CountOf(x, values) == Cardinality({i \in DOMAIN values : values[i] = x})

ShareBp(bucket, buckets) == (CountOf(bucket, buckets) * BP) \div Len(buckets)

Abs(n) == IF n < 0 THEN -n ELSE n

TotalVariationBp(baseline, live) ==
    SumFunction([b \in ToSet(baseline) \cup ToSet(live) |->
                    Abs(ShareBp(b, baseline) - ShareBp(b, live))]) \div 2

-----------------------------------------------------------------------------
(* The signals.  A row of a window is [score, bucket, lag, fee, reference].*)

Field(rows, name) == [i \in DOMAIN rows |-> rows[i][name]]

\* The least difference that is a warning, and the least that is severe.
THRESHOLDS ==
    [parse_rate |-> <<100000, 250000>>, nonconformity |-> <<2000, 4000>>,
     amount_bucket |-> <<2000, 4000>>, date_lag |-> <<2, 5>>, fee_rate |-> <<100, 300>>]

SIGNALS == DOMAIN THRESHOLDS

Grade(signal, delta) ==
    IF delta >= THRESHOLDS[signal][2] THEN "SEVERE"
    ELSE IF delta >= THRESHOLDS[signal][1] THEN "WARNING" ELSE "HEALTHY"

\* Fault variant: the tail is what lies at or below the percentile.
TailWithTies(baseline, live) ==
    LET p10 == Percentile(Field(baseline, "score"), 10) IN
    (Cardinality({i \in DOMAIN live : live[i].score <= p10}) * BP) \div Len(live)

\* The share of the window strictly below the weakest tenth of the baseline.
TailBp(baseline, live) ==
    LET p10 == Percentile(Field(baseline, "score"), 10) IN
    (Cardinality({i \in DOMAIN live : live[i].score < p10}) * BP) \div Len(live)

Moved(baseline, live, field) ==
    Abs(Median(Field(live, field)) - Median(Field(baseline, field)))

\* Only a parse rate that falls and a tail that grows are drift.
Deltas(baseline, live) ==
    [parse_rate    |-> Max({0, MeanPpm(Field(baseline, "reference"))
                                 - MeanPpm(Field(live, "reference"))}),
     nonconformity |-> Max({0, TailBp(baseline, live) - NOMINAL_TAIL_BP}),
     amount_bucket |-> TotalVariationBp(Field(baseline, "bucket"), Field(live, "bucket")),
     date_lag      |-> Moved(baseline, live, "lag"),
     fee_rate      |-> Moved(baseline, live, "fee")]

Grades(baseline, live) == {Grade(s, Deltas(baseline, live)[s]) : s \in SIGNALS}

\* Fault variant: the window takes the severity of its best signal.
BestGrade(baseline, live) ==
    LET grades == Grades(baseline, live) IN
    IF Len(live) < MIN_WINDOW THEN "UNDERSIZED"
    ELSE IF "HEALTHY" \in grades THEN "HEALTHY"
    ELSE IF "WARNING" \in grades THEN "WARNING" ELSE "SEVERE"

\* observe: the severity of the worst signal, none on too few rows.
Observe(baseline, live) ==
    LET grades == Grades(baseline, live) IN
    IF Len(live) < MIN_WINDOW THEN "UNDERSIZED"
    ELSE IF "SEVERE" \in grades THEN "SEVERE"
    ELSE IF "WARNING" \in grades THEN "WARNING" ELSE "HEALTHY"

-----------------------------------------------------------------------------
(* A batch reduced to rows.  Days are those of one year, on which the      *)
(* code's day count is exact; a narration is the set of fields the parser  *)
(* recovers from it.                                                       *)

REFERENCE_FIELDS == {"settlement_id", "invoice", "upi_ref", "vpa"}

\* _amount_bucket: the powers of ten an amount reaches.
AmountBucket(paise) == Cardinality({k \in 1..MAX_DIGITS : paise >= 10 ^ k})

NarrationScorePpm(fields) == IF fields \cap REFERENCE_FIELDS # {} THEN SCORE_PPM ELSE 0

FeeRates(captures) ==
    LET priced == Pick(captures, {i \in DOMAIN captures : captures[i].amount > 0}) IN
    [i \in DOMAIN priced |->
        ((priced[i].fee + priced[i].tax) * BP) \div priced[i].amount]

\* The last capture with a UTR gives the day its credit is counted from.
Carrying(captures, utr) == {i \in DOMAIN captures : utr # "" /\ captures[i].utr = utr}

Lags(captures, bank) ==
    LET joined == Pick(bank, {i \in DOMAIN bank :
                      bank[i].kind = "credit" /\ Carrying(captures, bank[i].utr) # {}})
    IN  [i \in DOMAIN joined |->
            joined[i].day - captures[Max(Carrying(captures, joined[i].utr))].day]

\* The narrations of the credits a verdict cites, in the order it cites them.
Cited(refs, bank) ==
    LET credit(id) == {i \in DOMAIN bank : bank[i].id = id /\ bank[i].kind = "credit"}
        known == Pick(refs, {i \in DOMAIN refs : credit(refs[i]) # {}})
    IN  [i \in DOMAIN known |-> bank[Max(credit(known[i]))].narration]

\* The orders whose verdict took the probabilistic path, by id.
Judged(batch) ==
    {id \in {o.id : o \in ToSet(batch.orders)} \cap DOMAIN batch.verdicts :
        batch.verdicts[id].path = "probabilistic"}

\* The row of one order; the lag and the fee are the batch's own.
RowOf(batch, order) ==
    LET verdict == batch.verdicts[order.id]
        cited == Cited(verdict.refs, batch.bank)
    IN  [score     |-> verdict.score,
         bucket    |-> AmountBucket(order.amount),
         lag       |-> Median(Lags(batch.captures, batch.bank)),
         fee       |-> Median(FeeRates(batch.captures)),
         reference |-> MeanPpm([i \in DOMAIN cited |-> NarrationScorePpm(cited[i])])]

\* observations: one row per judged order, in the order of the ids.
Observations(batch) ==
    [k \in 1..Cardinality(Judged(batch)) |->
        RowOf(batch, CHOOSE o \in ToSet(batch.orders) : o.id = Nth(Judged(batch), k))]

\* A batch as it is loaded: an order id names one order, an identifier sorts as
\* a number, money and days are integers.
IsBatch(batch) ==
    /\ IsSequence(batch.orders) /\ IsSequence(batch.captures) /\ IsSequence(batch.bank)
    /\ \A o, p \in ToSet(batch.orders) : o.id \in Nat /\ (o.id = p.id => o = p)
    /\ \A c \in ToSet(batch.captures) : {c.amount, c.fee, c.tax, c.day} \subseteq Int
    /\ \A t \in ToSet(batch.bank) : t.day \in Int
    /\ \A id \in DOMAIN batch.verdicts :
          batch.verdicts[id].score \in Int /\ IsSequence(batch.verdicts[id].refs)

\* shift_feed: every credit reaches the bank so many days later.
ShiftFeed(batch, days) ==
    [batch EXCEPT !.bank =
        [i \in DOMAIN batch.bank |->
            IF batch.bank[i].kind = "credit" THEN [batch.bank[i] EXCEPT !.day = @ + days]
            ELSE batch.bank[i]]]
=============================================================================
