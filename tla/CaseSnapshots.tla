--------------------------- MODULE CaseSnapshots ---------------------------
(***************************************************************************)
(* A reader that takes a case's history while analysts move the case, and  *)
(* later checks it.  CaseStore.events makes two SELECTs, first the events  *)
(* and then the row, each its own read transaction: the pair may be torn.  *)
(* AuthenticatedCaseEvents.verify reads both again and compares; the rule  *)
(* compiler (rules.py compile_resolution) learns only from a history that  *)
(* verifies and ends in RESOLVED.                                          *)
(***************************************************************************)
EXTENDS CaseStore

VARIABLES
    step,    \* how far the reader is
    target,  \* the case it reads
    log,     \* the events of the snapshot
    row,     \* the row of the snapshot
    relog    \* the events verify read

readerVars == <<step, target, log, row, relog>>
snapshotVars == <<cases, events, step, target, log, row, relog>>

Step == {"idle", "logRead", "held", "relogRead", "verified", "refused"}

ReaderInit ==
    /\ StoreInit
    /\ step = "idle"
    /\ target \in CaseId
    /\ log = <<>>
    /\ row = AbsentRow
    /\ relog = <<>>

ReaderTypeOK ==
    /\ StoreTypeOK
    /\ step \in Step
    /\ target \in CaseId
    /\ log \in Seq(EventRow)
    /\ row \in CaseRow \cup {AbsentRow}
    /\ relog \in Seq(EventRow)

-----------------------------------------------------------------------------
Opens(c, cert) ==
    /\ OpenCase(c, cert)
    /\ UNCHANGED readerVars

\* An analyst with the current version moves the case; a stale one would
\* change nothing.
Moves(a, c, to) ==
    /\ cases[c].version < MaxVersion
    /\ Advance(c, cases[c].version, <<to>>, a, NoNote)
    /\ UNCHANGED readerVars

-----------------------------------------------------------------------------
\* events(case_id), the first SELECT.
ReadLog(c) ==
    /\ step = "idle"
    /\ step' = "logRead"
    /\ target' = c
    /\ log' = events[c]
    /\ UNCHANGED <<cases, events, row, relog>>

\* The second SELECT.  No row is UnknownCase: the reader has no snapshot.
ReadRow ==
    /\ step = "logRead"
    /\ step' = IF Exists(target) THEN "held" ELSE "idle"
    /\ row' = cases[target]
    /\ UNCHANGED <<cases, events, target, log, relog>>

\* verify(): events(case_id) again.
VerifyLog ==
    /\ step = "held"
    /\ step' = "relogRead"
    /\ relog' = events[target]
    /\ UNCHANGED <<cases, events, target, log, row>>

\* Fault variant: the events are compared, the row is not.
SnapshotMatchesLogOnly == relog = log

\* content_hash covers the row and the events; certificate_id is in the row.
SnapshotMatches == relog = log /\ cases[target] = row

VerifyRow ==
    /\ step = "relogRead"
    /\ step' = IF SnapshotMatches THEN "verified" ELSE "refused"
    /\ UNCHANGED <<cases, events, target, log, row, relog>>

\* The reader drops what it has and starts over.
Drop ==
    /\ step \in {"held", "verified", "refused"}
    /\ step' = "idle"
    /\ log' = <<>>
    /\ row' = AbsentRow
    /\ relog' = <<>>
    /\ UNCHANGED <<cases, events, target>>

ReaderNext ==
    \/ \E c \in CaseId, cert \in Certificate : Opens(c, cert)
    \/ \E a \in Analyst, c \in CaseId, to \in CaseState : Moves(a, c, to)
    \/ \E c \in CaseId : ReadLog(c)
    \/ ReadRow
    \/ VerifyLog
    \/ VerifyRow
    \/ Drop

ReaderSpec == ReaderInit /\ [][ReaderNext]_snapshotVars

-----------------------------------------------------------------------------
IsPrefixOfHistory(s) ==
    /\ Len(s) <= Len(events[target])
    /\ \A i \in 1..Len(s) : s[i] = events[target][i]

(***************************************************************************)
(* A torn snapshot is torn one way only: its row is at least as new as its *)
(* events, and each is what the case once was.                             *)
(***************************************************************************)
SnapshotTornOneWay ==
    step \in {"held", "relogRead", "verified", "refused"} =>
        /\ IsPrefixOfHistory(log)
        /\ Len(log) <= row.version
        /\ row.version <= Len(events[target])
        /\ row.state = events[target][row.version].to

(***************************************************************************)
(* verify() answers for one moment: as it returns True, the store's events *)
(* and row are the snapshot's, though it read them one after the other     *)
(* while analysts were moving the case.  No torn snapshot verifies.        *)
(***************************************************************************)
VerifiedIsCurrent ==
    [][(step # "verified" /\ step' = "verified") =>
        /\ events[target] = log
        /\ cases[target] = row
        /\ row.version = Len(log)]_snapshotVars

(***************************************************************************)
(* What the rule compiler relies on: a history that verified and ends in   *)
(* RESOLVED is the case's history for good, so nothing read from it can    *)
(* have gone stale by the time the proposal is written.                    *)
(***************************************************************************)
VerifiedResolutionStands ==
    (step = "verified" /\ log[Len(log)].to = "RESOLVED") =>
        events[target] = log /\ cases[target] = row

=============================================================================
