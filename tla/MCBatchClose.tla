---------------------------- MODULE MCBatchClose ----------------------------
(***************************************************************************)
(* Two batches, the first under two settings.  Order 1 is gone from the    *)
(* second, so its certificate is stale there; order 2 is ambiguous in the  *)
(* first and held for another reason in the second, so it gets two cases.  *)
(* The first batch has finance events, which order 2 binds and order 1     *)
(* does not.                                                               *)
(***************************************************************************)
EXTENDS BatchClose
CONSTANTS b1, b2, s1, s2

MCOrdersOf == b1 :> {1, 2} @@ b2 :> {2}
MCUnbound == b1 :> {1} @@ b2 :> {}
MCCloses == {[batch |-> b1, setting |-> s1], [batch |-> b1, setting |-> s2],
             [batch |-> b2, setting |-> s1]}
MCAmbiguous == b1 :> {2} @@ b2 :> {}
MCOutcome == b1 :> (1 :> "ESCALATE" @@ 2 :> "HOLD") @@ b2 :> (2 :> "HOLD")
MCHeld == b1 :> (2 :> 5) @@ b2 :> (2 :> 7)
Fed == [feeds_seen |-> 3, feeds_expected |-> 3, accepted |-> 4, quarantined |-> 0, duplicates |-> 0]
Safe == [authorized |-> TRUE, loss_upper_bound_bp |-> 0, budget_bp |-> 10,
         wrongly_chased_paise |-> 0, duplicate_side_effects |-> 0]
MCFacts ==
    b1 :> [source |-> Fed, authority |-> "CALIBRATED", risk |-> Safe, age |-> 0] @@
    b2 :> [source |-> [Fed EXCEPT !.quarantined = 1], authority |-> "DEGRADED",
           risk |-> [Safe EXCEPT !.authorized = FALSE], age |-> 31]
=============================================================================
