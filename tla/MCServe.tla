------------------------------- MODULE MCServe -------------------------------
(***************************************************************************)
(* Serve for TLC. A day is two clock units and the lookback two or three,  *)
(* so a window covers parts of two or three days and a key leaves the seen *)
(* set six or seven units after it was read.                               *)
(***************************************************************************)
EXTENDS Serve, TLC

\* The keys are interchangeable. Used by the runs that check safety only.
Symmetry == Permutations(Object)
=============================================================================
