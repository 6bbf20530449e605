------------------------------ MODULE MCServer ------------------------------
(***************************************************************************)
(* Records for TLC: two in one minute, one without a status and one later. *)
(***************************************************************************)
EXTENDS Server

MCRecord == {[id |-> 1, minute |-> 1, status |-> "200"],
             [id |-> 2, minute |-> 1, status |-> ""],
             [id |-> 3, minute |-> 2, status |-> "404"]}
=============================================================================
