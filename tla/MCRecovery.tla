----------------------------- MODULE MCRecovery -----------------------------
(***************************************************************************)
(* One order and two servers beside the demo.  The batch may say that the  *)
(* order is unpaid, partly paid or paid.  MaxCalls stops a caller from     *)
(* starting, not from going on: with 1, three callers may still race to    *)
(* perform the first action and for its key.                               *)
(***************************************************************************)
EXTENDS Recovery, TLC

Exact(verdict, delta) ==
    [verdict |-> verdict, amount |-> 500000, delta_due |-> delta, mandate |-> FALSE,
     bank_coverage_ok |-> TRUE, path |-> "exact", authority |-> "",
     risk_authorized |-> TRUE, calibrated |-> FALSE]

Unpaid == Exact("genuinely_unpaid", 0)
PartlyPaid == Exact("partially_paid", 200000)
Paid == Exact("settled_late", 0)

MCSituations == {Unpaid, PartlyPaid, Paid}
ServerSymmetry == Permutations(Server)
=============================================================================
