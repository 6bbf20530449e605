------------------------------- MODULE Ledger -------------------------------
(***************************************************************************)
(* What `ctaudit serve` promises, said without ticks, scans or pruning.    *)
(*                                                                         *)
(* Log objects arrive in a bucket. Each one is entered in the books at     *)
(* most once per process lifetime, as of some instant, and only after Loki *)
(* has answered for every record of it that the window ending at that      *)
(* instant selects. A restart loses the books and nothing else.            *)
(*                                                                         *)
(* The actions constrain the primed variables instead of quantifying over  *)
(* all instants, so that TLC can evaluate them on a given step.            *)
(***************************************************************************)
EXTENDS Integers

CONSTANTS Object,    \* the keys of the log objects
          Lookback,  \* size of the rolling window
          None       \* the value of a time that is not set

VARIABLES arrived,   \* arrived[k]: when object k was delivered, or None
          times,     \* times[k]: the event times of the records of k
          answered,  \* the lines <<k, t>> Loki accepted or refused for their age
          books      \* books[k]: the window end k was entered under, or None

ledgerVars == <<arrived, times, answered, books>>

\* The lines of the records of k that the window [u - Lookback, u) selects.
Lines(k, u) == {<<k, t>> : t \in {x \in times[k] : u - Lookback <= x /\ x < u}}

Init == /\ arrived = [k \in Object |-> None]
        /\ times = [k \in Object |-> {}]
        /\ answered = {}
        /\ books = [k \in Object |-> None]

\* An object is immutable: it arrives once, with all its records.
Arrive(k) == /\ arrived[k] = None
             /\ arrived' = [arrived EXCEPT ![k] = arrived'[k]]
             /\ times' = [times EXCEPT ![k] = times'[k]]
             /\ UNCHANGED <<answered, books>>

Answer == /\ answered \subseteq answered'
          /\ UNCHANGED <<arrived, times, books>>

\* A batch S is entered at once, under one window end. No object of it was
\* entered before, and Loki has answered for every line it owes.
Enter(S) == /\ \A k, l \in S : books'[k] = books'[l]
            /\ \A k \in S : /\ arrived[k] # None
                            /\ books[k] = None /\ books'[k] # None
                            /\ Lines(k, books'[k]) \subseteq answered
            /\ books' = [k \in Object |-> IF k \in S THEN books'[k] ELSE books[k]]
            /\ UNCHANGED <<arrived, times, answered>>

\* The process dies; lines on their way to Loki may still arrive.
Forget == /\ books' = [k \in Object |-> None]
          /\ answered \subseteq answered'
          /\ UNCHANGED <<arrived, times>>

Next == \/ \E k \in Object : Arrive(k)
        \/ Answer
        \/ \E S \in SUBSET Object : Enter(S)
        \/ Forget

Spec == Init /\ [][Next]_ledgerVars
=============================================================================
