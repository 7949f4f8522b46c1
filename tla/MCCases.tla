------------------------------ MODULE MCCases ------------------------------
(***************************************************************************)
(* Two analysts and one case, which either of two certificates may raise.  *)
(* MaxVersion 8 leaves room for the longest route to a resolution, for an  *)
(* escalation and for a second request for evidence.                       *)
(***************************************************************************)
EXTENDS Cases
=============================================================================
