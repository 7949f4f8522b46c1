---------------------------- MODULE MCWorkbench ----------------------------
(***************************************************************************)
(* One held order, two tabs, one analyst on MCP.  MaxVersion 3 lets the    *)
(* case be escalated, resolved and written off over MCP, at any moment of  *)
(* either tab's request.                                                   *)
(***************************************************************************)
EXTENDS Workbench
=============================================================================
