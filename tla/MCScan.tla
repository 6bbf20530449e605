------------------------------- MODULE MCScan -------------------------------
(***************************************************************************)
(* Scan for TLC: three day prefixes, one with two pages and a skipped key, *)
(* one with more keys than a single fetch worker buffers, one empty.       *)
(***************************************************************************)
EXTENDS Scan, TLC

CONSTANTS p1, p2, p3, a, b, c, d, e

MCPages == p1 :> <<<<a, b>>, <<c>>>> @@ p2 :> <<<<d, e>>>> @@ p3 :> <<<<>>>>
=============================================================================
