------------------------------- MODULE Ingest -------------------------------
(***************************************************************************)
(* ledger_daemon/ingest.py: one directory that `ingest` fills from a       *)
(* provider whose collections grow while they are read page by page, and   *)
(* into which `import` (parsers.write_bank_csv) drops a bank statement.     *)
(* One process at a time runs, may be killed at any step, and is run       *)
(* again.                                                                  *)
(***************************************************************************)
EXTENDS SourceContracts

CONSTANTS
    InitialApi,  \* what the provider holds at first: a sequence per feed, newest first
    Incoming,    \* what may be created there later: pairs of a feed and an item
    Statement,   \* the rows of a statement that parse_statement returns
    Page,        \* rows asked for at a time by fetch_all
    ReconPage,   \* the same by fetch_settlement_recon
    Limit,       \* --limit
    MaxRuns      \* bound: runs of either command

VARIABLES
    api,        \* the provider's collections
    runs,       \* runs started; the current one is the last
    job, pc,    \* what the process runs and where it is, "idle" between runs
    at,         \* the feed or the file it is at
    fetched,    \* the rows read per feed
    mapped,     \* the rows offered to each file
    tally,      \* rows skipped and rows quarantined by the mappers
    linked,     \* captures joined to a settlement
    seen,       \* ids known to the quarantine store of the process
    journal,    \* quarantine.jsonl
    files,      \* the batch files: the run that opened them, the rows, whether closed
    manifest,   \* source_manifest.json: per source the run and its summary
    receipt,    \* razorpay_test_mode_receipt.json
    returned    \* what the last run returned, if it did

run == <<runs, job, pc, at, fetched, mapped, tally, linked, seen, returned>>
disk == <<journal, files, manifest, receipt>>
vars == <<api, run, disk>>

FEEDS == <<"orders", "payments", "refunds", "settlements", "recon">>
MAPS == <<"orders", "payments", "refunds", "settlements">>
FILES == <<"order", "capture", "bank_txn", "finance_event">>

ASSUME IngestConstants ==
    /\ {Page, ReconPage, Limit} \subseteq Nat \ {0} /\ MaxRuns \in Nat
    /\ DOMAIN InitialApi = ToSet(FEEDS)
    /\ \A f \in ToSet(FEEDS) : IsSequence(InitialApi[f])
    /\ IsSequence(Statement)
    /\ \A new \in Incoming : new[1] \in ToSet(FEEDS)

\* The items of a feed, whenever they are created.
Held(feed) == ToSet(InitialApi[feed]) \cup {new[2] : new \in {n \in Incoming : n[1] = feed}}

\* What the provider keeps to: an id names one payment and no refund, a refund
\* that names an order names its payment's, and money is integral or flagged.
ASSUME ProviderConstants ==
    /\ \A p \in Held("payments") :
         /\ DOMAIN p = {"id", "order", "amount", "captured", "flaws", "refunded", "back"}
         /\ "FLOAT_MONEY" \notin p.flaws => p.amount \in Int
         /\ \A q \in Held("payments") : p.id = q.id => p = q
         /\ \A r \in Held("refunds") :
              /\ p.id # r.id
              /\ r.payment = p.id => r.order \in {"none", p.order}
    /\ \A r \in Held("refunds") :
         r.flaws \cap {"FLOAT_MONEY", "INVALID_MONEY"} = {} => r.amount \in Nat \ {0}

NoFile == [by |-> 0, rows |-> <<>>, whole |-> TRUE]
NoReceipt == [by |-> 0]
NotReturned == [quarantined |-> -1]

Init ==
    /\ api = InitialApi /\ runs = 0
    /\ job = "none" /\ pc = "idle" /\ at = 1
    /\ fetched = [f \in ToSet(FEEDS) |-> <<>>]
    /\ mapped = [s \in SourceKind |-> <<>>]
    /\ tally = [skipped |-> 0, quarantined |-> 0] /\ linked = 0
    /\ seen = {} /\ journal = EmptyJournal
    /\ files = [s \in SourceKind |-> NoFile]
    /\ manifest = [s \in SourceKind |-> [by |-> 0]]
    /\ receipt = NoReceipt /\ returned = NotReturned

-----------------------------------------------------------------------------
\* The provider.  A payment is served with the total refunded so far, and a
\* state that follows from it.

\* The processed refunds of a payment in a list, by position, and their total.
RefundsOf(refunds, p) ==
    {i \in DOMAIN refunds : refunds[i].payment = p.id /\ refunds[i].processed}

Repaid(refunds, p) ==
    SumFunction([i \in RefundsOf(refunds, p) |-> refunds[i].amount])

RefundedOf(p) == Repaid(api.refunds, p)

Served(feed, item) ==
    IF feed # "payments" THEN item
    ELSE [item EXCEPT !.refunded = IF "NO_TOTAL" \in item.flaws THEN 0 ELSE RefundedOf(item),
                      !.back = RefundedOf(item)]

\* Something is created: it is the first of its collection from now on.
Arrives ==
    \E new \in Incoming :
        /\ \A i \in 1..Len(api[new[1]]) : api[new[1]][i] # new[2]
        /\ api' = [api EXCEPT ![new[1]] = <<new[2]>> \o @]
        /\ UNCHANGED <<run, disk>>

-----------------------------------------------------------------------------
\* Reading a feed.

Start(what) ==
    /\ pc = "idle" /\ runs < MaxRuns
    /\ runs' = runs + 1 /\ job' = what
    /\ fetched' = [f \in ToSet(FEEDS) |-> <<>>]
    /\ tally' = [skipped |-> 0, quarantined |-> 0] /\ linked' = 0
    /\ returned' = NotReturned
    /\ UNCHANGED <<api, disk>>

StartIngest ==
    /\ Start("ingest")
    /\ pc' = "fetch" /\ at' = 1
    /\ mapped' = [s \in SourceKind |-> <<>>] /\ seen' = {}

\* A slice of a list: what is there of it.
Slice(rows, first, last) == SubSeq(rows, first, Min({last, Len(rows)}))

\* Fault variant: only a full result ends the reading.
EndsAtLimitOnly(batch, count, rows) == Len(rows) >= Limit

Cut(rows) == Slice(rows, 1, Limit)

\* A short page, or enough rows.
Ends(batch, count, rows) == Len(batch) < count \/ Len(rows) >= Limit

\* fetch_all and fetch_settlement_recon: a page at an offset of what is there now.
FetchPage ==
    LET feed  == FEEDS[at]
        skip  == Len(fetched[feed])
        count == IF feed = "recon" THEN Min({ReconPage, Limit - skip}) ELSE Page
        page  == Slice(api[feed], skip + 1, skip + count)
        batch == [i \in 1..Len(page) |-> Served(feed, page[i])]
        rows  == fetched[feed] \o batch
    IN  /\ pc = "fetch"
        /\ fetched' = [fetched EXCEPT ![feed] = Cut(rows)]
        /\ IF ~Ends(batch, count, rows) THEN UNCHANGED <<pc, at>>
           ELSE /\ at' = IF feed = "recon" THEN 1 ELSE at + 1
                /\ pc' = IF feed = "refunds" THEN "cover"
                         ELSE IF feed = "recon" THEN "open" ELSE "fetch"
        /\ UNCHANGED <<api, disk, runs, job, mapped, tally, linked, seen, returned>>

GiveUp == pc' = "idle" /\ UNCHANGED <<runs, job, at, fetched, mapped, tally, linked, seen, returned>>

\* _get raises IngestError, whatever the provider answers that is not a page.
FetchFails == pc = "fetch" /\ GiveUp /\ UNCHANGED <<api, disk>>

-----------------------------------------------------------------------------
\* Mapping.  A row is skipped, refused with a code, or mapped.

\* What each mapper checks of its own, before the contract and in this order.
MAPPER_CHECKS ==
    [orders      |-> <<"MALFORMED_SOURCE", "MISSING_DATE">>,
     payments    |-> <<"FLOAT_FEE", "TAX_OVER_FEE", "MALFORMED_SOURCE", "MISSING_DATE">>,
     refunds     |-> <<"FLOAT_MONEY", "INVALID_MONEY", "MISSING_ORDER_ID",
                       "MALFORMED_SOURCE", "MISSING_DATE">>,
     settlements |-> <<"MISSING_DATE", "MALFORMED_SOURCE">>]

Skipped(feed, item) ==
    CASE feed = "orders"      -> FALSE
      [] feed = "payments"    -> ~item.captured \/ item.order = "none"
      [] feed = "refunds"     -> ~item.processed
      [] feed = "settlements" -> ~item.processed

\* The order of a refund: its own, or that of its payment among those read.
OrderOf(refund) ==
    LET known == {i \in DOMAIN fetched.payments : fetched.payments[i].id = refund.payment}
    IN  IF refund.order # "none" \/ known = {} THEN refund.order
        ELSE fetched.payments[Max(known)].order

Flaws(feed, item) ==
    item.flaws \cup IF feed = "refunds" /\ OrderOf(item) = "none"
                    THEN {"MISSING_ORDER_ID"} ELSE {}

Checks(feed) == MAPPER_CHECKS[feed] \o CONTRACT

Refused(feed, item) ==
    ~Skipped(feed, item) /\ Flaws(feed, item) \cap ToSet(Checks(feed)) # {}

Mapped(feed, item) ==
    CASE feed = "orders"      -> [id |-> item.id, flaws |-> {}]
      [] feed = "settlements" -> [id |-> item.id, flaws |-> {}]
      [] feed = "payments"    -> [id |-> item.id, flaws |-> {}, order |-> item.order,
                                  amount |-> item.amount, settlement |-> "none"]
      [] feed = "refunds"     -> [id |-> item.id, flaws |-> {}, order |-> OrderOf(item),
                                  amount |-> -item.amount, settlement |-> "none"]

Kind(feed) ==
    CASE feed = "orders" -> "order" [] feed = "settlements" -> "bank_txn" [] OTHER -> "capture"

\* ensure_refund_coverage: the refunds read, each seen once and well formed, add
\* up to the total each payment states, and its state agrees with that total.

WellFormed(refunds) == \A i \in 1..Len(refunds) : ~Refused("refunds", refunds[i])

\* Fault variant: a refund listed twice counts twice.
EachOnceUnchecked(refunds) == TRUE

EachOnce(refunds) ==
    \A i, j \in 1..Len(refunds) :
        i # j /\ refunds[i].processed /\ refunds[j].processed => refunds[i].id # refunds[j].id

\* refund_status and status follow what was returned; the total may be absent.
StateAgrees(p) ==
    /\ "FLOAT_MONEY" \notin p.flaws /\ p.amount > 0 /\ p.refunded =< p.amount
    /\ p.back = p.refunded

RefundsRead(p) == Repaid(fetched.refunds, p)

Covered ==
    /\ WellFormed(fetched.refunds) /\ EachOnce(fetched.refunds)
    /\ \A i \in 1..Len(fetched.payments) :
          LET p == fetched.payments[i] IN StateAgrees(p) /\ RefundsRead(p) = p.refunded

Cover ==
    /\ pc = "cover"
    /\ IF Covered
       THEN /\ pc' = "fetch"
            /\ UNCHANGED <<runs, job, at, fetched, mapped, tally, linked, seen, returned>>
       ELSE GiveUp
    /\ UNCHANGED <<api, disk>>

-----------------------------------------------------------------------------
\* The rows.  Every rejected row is a line of the journal before anything else
\* happens to it.

Journal(ids) ==
    LET written == AppendAll(journal.lines, seen, ids)
    IN  /\ journal' = [journal EXCEPT !.lines = written.lines]
        /\ seen' = written.seen

\* QuarantineStore(...): a line that does not parse ends the run.
Open(next) ==
    IF Loads(journal)
    THEN /\ seen' = LoadIds(journal) /\ pc' = next /\ at' = 1
         /\ UNCHANGED <<runs, job, fetched, mapped, tally, linked, returned>>
    ELSE GiveUp

OpenStore == pc = "open" /\ Open("map") /\ UNCHANGED <<api, disk>>

\* The positions of the rows of a feed that are skipped, and of those refused.
SkippedAt(feed) == {i \in DOMAIN fetched[feed] : Skipped(feed, fetched[feed][i])}
RefusedAt(feed) == {i \in DOMAIN fetched[feed] : Refused(feed, fetched[feed][i])}

\* The ids _map_api_rows appends for a feed, in order.
MapperIds(feed) ==
    LET refused == Pick(fetched[feed], RefusedAt(feed))
    IN  [i \in 1..Len(refused) |->
            QuarantineId(Kind(feed), refused[i],
                         FirstFlaw(Checks(feed), Flaws(feed, refused[i])))]

\* _map_api_rows of one feed.
MapFeed ==
    LET feed == MAPS[at]
        kept == Pick(fetched[feed],
                     DOMAIN fetched[feed] \ (SkippedAt(feed) \cup RefusedAt(feed)))
    IN  /\ pc = "map"
        /\ Journal(MapperIds(feed))
        /\ mapped' = [mapped EXCEPT ![Kind(feed)] =
                         @ \o [i \in 1..Len(kept) |-> Mapped(feed, kept[i])]]
        /\ tally' = [skipped |-> tally.skipped + Cardinality(SkippedAt(feed)),
                     quarantined |-> tally.quarantined + Len(MapperIds(feed))]
        /\ pc' = CASE feed = "refunds" -> "link" [] feed = "settlements" -> "store"
                    [] OTHER -> "map"
        /\ at' = at + 1
        /\ UNCHANGED <<api, runs, job, fetched, linked, returned, files, manifest, receipt>>

\* apply_settlement_recon: the last settled row that names a capture joins it;
\* a settlement that is not text raises, and no one catches it.
SettlementOf(capture) ==
    LET named == SelectSeq(fetched.recon, LAMBDA r : r.entity = capture.id /\ r.settled)
    IN  IF named = <<>> THEN "none" ELSE named[Len(named)].settlement

Link ==
    /\ pc = "link"
    /\ LET captures == mapped.capture
       IN  IF \E i \in DOMAIN captures : SettlementOf(captures[i]) = "not text" THEN GiveUp
           ELSE /\ mapped' = [mapped EXCEPT !.capture =
                                 [i \in 1..Len(captures) |->
                                    [captures[i] EXCEPT !.settlement = SettlementOf(captures[i])]]]
                /\ linked' = Cardinality({i \in DOMAIN captures : SettlementOf(captures[i]) # "none"})
                /\ pc' = "map"
                /\ UNCHANGED <<runs, job, at, fetched, tally, seen, returned>>
    /\ UNCHANGED <<api, disk>>

-----------------------------------------------------------------------------
\* The files.  write_batch makes a store of its own; write_bank_csv does the
\* same for one file.

SecondStore == pc = "store" /\ Open("write") /\ UNCHANGED <<api, disk>>

StartImport ==
    /\ Start("import")
    /\ mapped' = [s \in SourceKind |-> IF s = "bank_txn" THEN Statement ELSE <<>>]
    /\ IF Loads(journal) THEN pc' = "write" /\ at' = 3 /\ seen' = LoadIds(journal)
       ELSE pc' = "idle" /\ at' = 3 /\ seen' = {}

\* validate_rows, then open(path, "w").
WriteFile ==
    LET s == FILES[at] IN
    /\ pc = "write" /\ Journal(RejectedIds(s, mapped[s]))
    /\ files' = [files EXCEPT ![s] = [by |-> runs, rows |-> <<>>, whole |-> FALSE]]
    /\ pc' = "fill"
    /\ UNCHANGED <<api, runs, job, at, fetched, mapped, tally, linked, returned, manifest, receipt>>

FillFile ==
    LET s == FILES[at] IN
    /\ pc = "fill"
    /\ files' = [files EXCEPT ![s].rows = AcceptedRows(mapped[s]), ![s].whole = TRUE]
    /\ IF job = "import" \/ at = Len(FILES) THEN pc' = "manifest" /\ at' = at
       ELSE pc' = "write" /\ at' = at + 1
    /\ UNCHANGED <<api, runs, job, fetched, mapped, tally, linked, seen, returned,
                   journal, manifest, receipt>>

Entry(s) == Summary(s, mapped[s])

\* write_source_manifest: the entries of the sources written, in one rename.
WriteManifest ==
    /\ pc = "manifest"
    /\ manifest' = [s \in SourceKind |->
                       IF job = "import" /\ s # "bank_txn" THEN manifest[s]
                       ELSE [by |-> runs, summary |-> Entry(s)]]
    /\ pc' = IF job = "import" THEN "idle" ELSE "receipt"
    /\ UNCHANGED <<api, runs, job, at, fetched, mapped, tally, linked, seen, returned,
                   journal, files, receipt>>

\* What the manifest says, read back, goes into the receipt and is returned.
Finish ==
    LET rejected == SumFunction([s \in SourceKind |-> manifest[s].summary.quarantined]) IN
    /\ pc = "receipt"
    /\ receipt' = [by       |-> runs,
                   manifest |-> manifest,
                   fetched  |-> [f \in ToSet(FEEDS) |-> Len(fetched[f])],
                   accepted |-> [s \in SourceKind \ {"finance_event"} |->
                                    manifest[s].summary.accepted],
                   linked   |-> linked]
    /\ returned' = [quarantined |-> tally.quarantined + rejected,
                    skipped     |-> tally.skipped,
                    accepted    |-> receipt'.accepted]
    /\ pc' = "idle"
    /\ UNCHANGED <<api, runs, job, at, fetched, mapped, tally, linked, seen,
                   journal, files, manifest>>

-----------------------------------------------------------------------------
\* Kills.  What the step under way had done of its writes stays: some of the
\* lines, the last of them torn, or some of the rows.

Pending ==
    CASE pc = "map"   -> MapperIds(MAPS[at])
      [] pc = "write" -> RejectedIds(FILES[at], mapped[FILES[at]])
      [] OTHER        -> <<>>

Killed == pc # "idle" /\ GiveUp /\ UNCHANGED <<api, disk>>

KilledJournalling ==
    /\ pc \in {"map", "write"}
    /\ LET written == AppendAll(journal.lines, seen, Pending).lines IN
       \E n \in Len(journal.lines)..Len(written), torn \in BOOLEAN :
          /\ n > Len(journal.lines) \/ torn
          /\ torn => n < Len(written)
          /\ journal' = [lines |-> SubSeq(written, 1, n), torn |-> torn]
    /\ GiveUp /\ UNCHANGED <<api, files, manifest, receipt>>

KilledFilling ==
    /\ pc = "fill"
    /\ LET s == FILES[at] IN
       \E n \in 1..Cardinality(Accepted(mapped[s])) :
          files' = [files EXCEPT ![s].rows = SubSeq(AcceptedRows(mapped[s]), 1, n)]
    /\ GiveUp /\ UNCHANGED <<api, journal, manifest, receipt>>

RunStep ==
    \/ FetchPage \/ Cover \/ OpenStore \/ MapFeed \/ Link
    \/ SecondStore \/ WriteFile \/ FillFile \/ WriteManifest \/ Finish

Next ==
    \/ Arrives
    \/ StartIngest \/ StartImport
    \/ RunStep
    \/ FetchFails \/ Killed \/ KilledJournalling \/ KilledFilling

\* The process is scheduled, and every request to the provider ends.
Spec == Init /\ [][Next]_vars /\ WF_vars(RunStep)

-----------------------------------------------------------------------------
\* Type correctness: where a run is, and what it holds, is what the code has.
TypeOK ==
    /\ runs \in 0..MaxRuns /\ job \in {"none", "ingest", "import"}
    /\ pc \in {"idle", "fetch", "cover", "open", "map", "link", "store", "write",
               "fill", "manifest", "receipt"}
    /\ at \in 1..5
    /\ \A f \in ToSet(FEEDS) : Len(fetched[f]) =< Limit
    /\ \A s \in SourceKind : files[s].by \in 0..runs /\ manifest[s].by \in 0..runs
    /\ receipt.by \in 0..runs
    /\ seen \subseteq ToSet(journal.lines) /\ journal.torn \in BOOLEAN

\* The rows of a file that are of an order, and the payments read that are.
RowsOf(rows, o) == {i \in DOMAIN rows : rows[i].order = o}
Paid(o) == {p \in ToSet(fetched.payments) : p.order = o /\ p.captured}

\* ensure_refund_coverage: what a completed gateway_captures.csv says an order
\* received is never more than the payments of that run say, captured less
\* refunded, whatever pages were cut, shifted or capped while refunds arrived.
NoRefundIsLost ==
    LET file == files.capture IN
    (job = "ingest" /\ file.by = runs /\ file.whole) =>
        \A o \in {file.rows[i].order : i \in DOMAIN file.rows} :
            SumFunction([i \in RowsOf(file.rows, o) |-> file.rows[i].amount])
                =< SumFunction([p \in Paid(o) |-> p.amount - p.refunded])

\* No row disappears: of a run that returned, every row fetched is accepted,
\* skipped for its state or counted as quarantined; each of the last is in the
\* journal; and no run, however its predecessors were killed, writes a line twice.
NothingVanishes ==
    /\ returned # NotReturned =>
         /\ SumFunction([f \in ToSet(MAPS) |-> Len(fetched[f])])
               = returned.skipped + returned.quarantined + SumFunction(returned.accepted)
         /\ \A f \in ToSet(MAPS) : \A item \in ToSet(fetched[f]) : Refused(f, item) =>
              \E line \in ToSet(journal.lines) : line.source = Kind(f) /\ line.raw = item
         /\ \A s \in SourceKind : \A i \in (1..Len(mapped[s])) \ Accepted(mapped[s]) :
              \E line \in ToSet(journal.lines) : line.source = s /\ line.raw = mapped[s][i]
    /\ IsInjective(journal.lines)

\* The order of the writes: a manifest entry describes a file that was complete
\* before it, or that a later run has replaced since; and a receipt a manifest.
\* So if nothing was opened after the receipt, all of them are of one run.
DiskOrder ==
    /\ \A s \in SourceKind :
         /\ files[s].by >= manifest[s].by /\ manifest[s].by >= receipt.by
         /\ files[s].by = manifest[s].by /\ manifest[s].by > 0 =>
              /\ files[s].whole
              /\ files[s].rows = manifest[s].summary.hashes
              /\ Len(files[s].rows) = manifest[s].summary.accepted
    /\ \A s \in SourceKind : receipt.by > 0 /\ manifest[s].by = receipt.by =>
         receipt.manifest[s] = manifest[s]

\* Every run ends: paging stops, whatever is created meanwhile and however short
\* the collections are.
EveryRunEnds == (pc # "idle") ~> (pc = "idle")

=============================================================================
