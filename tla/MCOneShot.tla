------------------------------ MODULE MCOneShot -----------------------------
(***************************************************************************)
(* OneShot for TLC: two records, two severities of which one finding is    *)
(* retained, two workers, and buffers of two lines.                        *)
(***************************************************************************)
EXTENDS OneShot

MCFindingLine(s) == <<"finding", s>>
MCRecord == {<<"record", 1>>, <<"record", 2>>}
MCLine == MCRecord \cup {<<"finding", 1>>, <<"finding", 2>>}
MCJWriter == {"w1", "w2", "main"}
=============================================================================
