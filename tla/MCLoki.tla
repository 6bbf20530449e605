------------------------------- MODULE MCLoki -------------------------------
(***************************************************************************)
(* Loki for TLC: a stream of three lines and one of two, two writers,      *)
(* batches of two lines, two attempts, and room for four held lines.       *)
(***************************************************************************)
EXTENDS Loki

MCLine == {<<1, 1>>, <<1, 2>>, <<1, 3>>, <<2, 1>>, <<2, 2>>}
=============================================================================
