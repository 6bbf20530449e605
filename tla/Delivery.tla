------------------------------ MODULE Delivery ------------------------------
(***************************************************************************)
(* What a sink promises (internal/sink/sink.go): it takes lines, some of   *)
(* them are answered by the backend, and Close returns nil only if all of  *)
(* them are. obs.finish and with it every commit of serve rest on this.    *)
(***************************************************************************)
CONSTANT Line

VARIABLES taken,     \* the lines written
          answered,  \* the lines the backend stored, or refused for their age
          outcome    \* "open", then the result of Close: "nil" or "error"

deliveryVars == <<taken, answered, outcome>>

Init == taken = {} /\ answered = {} /\ outcome = "open"

Take == /\ outcome = "open"
        /\ \E l \in Line \ taken : taken' = taken \cup {l}
        /\ \E S \in SUBSET taken' : answered' = answered \cup S
        /\ UNCHANGED outcome

Answer == /\ outcome = "open"
          /\ \E S \in SUBSET taken : answered' = answered \cup S
          /\ UNCHANGED <<taken, outcome>>

Close == /\ outcome = "open"
         /\ \/ outcome' = "nil" /\ taken = answered
            \/ outcome' = "error"
         /\ UNCHANGED <<taken, answered>>

Next == Take \/ Answer \/ Close

Spec == Init /\ [][Next]_deliveryVars
=============================================================================
