-------------------------------- MODULE Sweep --------------------------------
(***************************************************************************)
(* What one scan promises its caller, said without workers and channels.   *)
(*                                                                         *)
(* Every wanted key is dealt with once: it is read, or it is given up and  *)
(* an error says so. The scan succeeds when nothing is left to deal with.  *)
(* It may fail only if it was cancelled, and what it did then is void.     *)
(* This is the scan that Serve takes for granted.                          *)
(***************************************************************************)
CONSTANT Wanted     \* the keys the scan is to read

VARIABLES got,      \* keys whose records were visited
          givenUp,  \* keys that were not read
          reported, \* an error was collected
          cancelled,
          result    \* "none" until the scan returns, then "ok" or "error"

sweepVars == <<got, givenUp, reported, cancelled, result>>

Left == Wanted \ (got \cup givenUp)

Init == /\ got = {} /\ givenUp = {}
        /\ reported = FALSE /\ cancelled = FALSE
        /\ result = "none"

Read == /\ result = "none"
        /\ \E k \in Left : got' = got \cup {k}
        /\ reported' \in {reported, TRUE}
        /\ UNCHANGED <<givenUp, cancelled, result>>

\* A scan that was cancelled may give up keys after it has returned.
GiveUp == /\ result # "ok"
          /\ \E K \in SUBSET Left : givenUp' = givenUp \cup K
          /\ reported' = TRUE
          /\ UNCHANGED <<got, cancelled, result>>

Cancel == cancelled' = TRUE /\ UNCHANGED <<got, givenUp, reported, result>>

Return == /\ result = "none"
          /\ \/ result' = "ok" /\ Left = {}
             \/ result' = "error" /\ cancelled
          /\ UNCHANGED <<got, givenUp, reported, cancelled>>

Next == Read \/ GiveUp \/ Cancel \/ Return

Spec == Init /\ [][Next]_sweepVars
=============================================================================
