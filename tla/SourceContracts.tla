-------------------------- MODULE SourceContracts --------------------------
(***************************************************************************)
(* ledger_daemon/source_contracts.py and quarantine.py: what a row must    *)
(* satisfy before reconciliation may see it, and the journal of the rows   *)
(* that do not.  A row is its identifier and the set of its flaws; the     *)
(* text of a field is abstracted to whether a check fails on it.  Hashes   *)
(* are taken to be injective: a raw hash is the row.                       *)
(***************************************************************************)
EXTENDS Integers, Positions

SourceKind == {"order", "capture", "bank_txn", "finance_event"}

\* The checks of validate_row, in the order of the code.
CONTRACT == <<"INVALID_SCHEMA", "MISSING_ID", "MISSING_FIELD", "UNKNOWN_FIELD",
              "FLOAT_MONEY", "INVALID_TYPE", "INVALID_MONEY", "INVALID_DATE",
              "INVALID_ENUM", "WRONG_SIGN">>

\* The code a failed check is reported with: some share one.
ErrorCode(check) ==
    IF check \in {"WRONG_SIGN", "TAX_OVER_FEE"} THEN "INVALID_MONEY"
    ELSE IF check = "FLOAT_FEE" THEN "FLOAT_MONEY" ELSE check

\* The error raised for a set of flaws: that of the first check that fails.
FirstFlaw(checks, flaws) ==
    LET i == CHOOSE i \in 1..Len(checks) :
                /\ checks[i] \in flaws
                /\ \A j \in 1..(i - 1) : checks[j] \notin flaws
    IN  ErrorCode(checks[i])

Rejects(row) == row.flaws \cap ToSet(CONTRACT) # {}

\* The positions validate_rows accepts: valid rows whose identifier no valid
\* row before them has.
Accepted(rows) ==
    {i \in 1..Len(rows) :
        /\ ~Rejects(rows[i])
        /\ \A j \in 1..(i - 1) : ~Rejects(rows[j]) => rows[j].id # rows[i].id}

AcceptedRows(rows) == Pick(rows, Accepted(rows))

QuarantineId(source, raw, code) == [source |-> source, raw |-> raw, code |-> code]

\* The quarantine ids of the rows that are not accepted, in order.
RejectedIds(source, rows) ==
    LET rejected == Pick(rows, (1..Len(rows)) \ Accepted(rows))
    IN  [i \in 1..Len(rejected) |->
            QuarantineId(source, rejected[i],
                IF Rejects(rejected[i]) THEN FirstFlaw(CONTRACT, rejected[i].flaws)
                ELSE "DUPLICATE_ID")]

\* Fault variant: the summary counts the rows it was offered.
SummaryOfOffered(source, rows) ==
    [accepted |-> Len(rows), quarantined |-> 0, hashes |-> rows]

\* IngestionSummary.
Summary(source, rows) ==
    [accepted    |-> Cardinality(Accepted(rows)),
     quarantined |-> Len(rows) - Cardinality(Accepted(rows)),
     hashes      |-> AcceptedRows(rows)]

-----------------------------------------------------------------------------
\* A QuarantineStore is the set of ids it has seen, read from the file when it
\* was made; the file is a sequence of ids, and whether its last line is torn.

EmptyJournal == [lines |-> <<>>, torn |-> FALSE]

\* _load_ids parses every line: a torn one raises, and no store is made.
Loads(journal) == ~journal.torn

\* Fault variant: a store that starts empty.
LoadNothing(journal) == {}

LoadIds(journal) == ToSet(journal.lines)

\* append, for each id in turn: an id the store has seen is not written again.
AppendAll(lines, seen, ids) ==
    FoldLeft(LAMBDA s, q : IF q \in s.seen THEN s
                           ELSE [lines |-> Append(s.lines, q), seen |-> s.seen \cup {q}],
             [lines |-> lines, seen |-> seen], ids)

=============================================================================
