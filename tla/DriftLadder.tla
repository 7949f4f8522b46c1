---------------------------- MODULE DriftLadder -----------------------------
(***************************************************************************)
(* The monitor and the ladder together, as drift-demo and the judge run    *)
(* them (cli.py, judge.py): each live batch is reduced to rows, scored     *)
(* against the calibration batch, and its report applied to the ladder.    *)
(* The properties speak of the rows, not of the severities.                *)
(***************************************************************************)
EXTENDS AuthorityLadder, DriftMonitor

CONSTANTS
    Baseline,    \* the calibration batch
    Live         \* Window -> the live batch

Reference == Observations(Baseline)
Rows == [w \in Window |-> Observations(Live[w])]
Reports == [w \in Window |-> Observe(Reference, Rows[w])]

\* The constructor refuses a baseline too small to be compared with.
ASSUME WatchConstants ==
    /\ IsBatch(Baseline) /\ \A w \in Window : IsBatch(Live[w])
    /\ Len(Reference) >= MIN_WINDOW
    /\ Severity = Reports

-----------------------------------------------------------------------------
\* The windows that have every row as often, in proportion, as the baseline.
Honest ==
    {w \in Window :
        \A row \in ToSet(Reference) \cup ToSet(Rows[w]) :
            CountOf(row, Rows[w]) * Len(Reference) = CountOf(row, Reference) * Len(Rows[w])}

(***************************************************************************)
(* A stream that resembles the calibration batch keeps its authority:      *)
(* none is revoked before two windows that differ from it in distribution. *)
(* The scores tie at their maximum, where a measured tenth is not a tenth  *)
(* (the comment on NOMINAL_TAIL_BP).                                       *)
(***************************************************************************)
HonestStreamKeepsAuthority ==
    state \in REVOKED_STATES =>
        Cardinality({i \in 1..Len(history) : history[i].window \notin Honest}) >= 2

Short == {w \in Window : Len(Rows[w]) < MIN_WINDOW}

\* No order of the window is of the size of any the thresholds were fitted on.
Foreign ==
    {w \in Window \ Short :
        ToSet(Field(Rows[w], "bucket")) \cap ToSet(Field(Reference, "bucket")) = {}}

(***************************************************************************)
(* A stream that has nothing in common with the calibration batch is       *)
(* halted by its third window, whatever its other four signals say and     *)
(* however many windows too small to score come in between.                *)
(***************************************************************************)
ForeignStreamIsHalted ==
    \A i \in 1..Len(history) :
        LET since == i..Len(history) IN
        /\ \A j \in since : history[j].window \in Foreign \cup Short
        /\ Cardinality({j \in since : history[j].window \in Foreign}) >= SEVERE_WINDOWS_TO_HALT
        => state = "AUTOMATION_HALTED"
=============================================================================
