--------------------------- MODULE BundleRegister ---------------------------
(***************************************************************************)
(* What a proof bundle promises whoever reads its manifest: a bundle is    *)
(* issued only as a whole.  While it is being replaced it is torn, and a   *)
(* run that dies leaves it so.                                             *)
(***************************************************************************)
CONSTANTS Bundle, NoBundle

VARIABLES
    issued,   \* the bundle the manifest names
    whole     \* whether every certificate it names is in its file

Init == issued = NoBundle /\ whole = TRUE

\* The certificates of another bundle replace those of this one, or the same
\* ones are written again.
Rewrite == whole' \in BOOLEAN /\ UNCHANGED issued

\* A bundle is issued when all of it is there, whatever was there before.
Publish == issued' \in Bundle /\ whole' = TRUE

Spec == Init /\ [][Rewrite \/ Publish]_<<issued, whole>>

=============================================================================
