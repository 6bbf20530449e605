----------------------------- MODULE MCFindings -----------------------------
(***************************************************************************)
(* Findings for TLC: a cap of two findings, so that both workers and the   *)
(* merge replace and drop, and room for two events.                        *)
(***************************************************************************)
EXTENDS Findings
=============================================================================
