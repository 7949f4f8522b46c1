-------------------------- MODULE MCCaseSnapshots --------------------------
(***************************************************************************)
(* One case, one analyst, one reader.  A reader changes nothing in the     *)
(* store, so more of them add no behaviour.  MaxVersion 6 lets the case be *)
(* resolved or escalated between any two reads.                            *)
(***************************************************************************)
EXTENDS CaseSnapshots
=============================================================================
