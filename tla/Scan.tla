-------------------------------- MODULE Scan --------------------------------
(***************************************************************************)
(* The generic scan of internal/engine/scan.go: a feeder hands prefixes to *)
(* the list workers over an unbuffered channel, the list workers walk each *)
(* prefix page by page and send the wanted keys over a buffered channel to *)
(* the fetch workers, and each of those folds what it reads into a shard   *)
(* of its own. The caller may cancel the context at any moment.            *)
(*                                                                         *)
(* One action is one step of one goroutine up to its next channel          *)
(* operation, store call or end. The seen set does not change during a     *)
(* scan, so keep and skip are one constant set; an object's records are    *)
(* left to Serve and only the outcome of reading it is kept.               *)
(***************************************************************************)
EXTENDS Integers, Sequences, FiniteSets

CONSTANTS Prefix,       \* the day prefixes of the scope
          Pages,        \* Pages[p]: the pages of p, each a sequence of keys
          Skip,         \* keys that keep or skip drops
          ListWorker, FetchWorker,
          Pools,        \* the sets of fetch workers that a scan may start
          MaxErrs,      \* maxRecordedErrors
          None

Keys(p) == UNION {{Pages[p][n][i] : i \in 1 .. Len(Pages[p][n])} : n \in 1 .. Len(Pages[p])}
AllKeys == UNION {Keys(p) : p \in Prefix}
Wanted == AllKeys \ Skip

ASSUME ScanAssumption ==
  /\ IsFiniteSet(ListWorker) /\ ListWorker # {}
  /\ IsFiniteSet(FetchWorker) /\ Pools \subseteq (SUBSET FetchWorker) \ {{}}
  /\ IsFiniteSet(Prefix)
  /\ \A p \in Prefix : Pages[p] \in Seq(Seq(Keys(p))) /\ Pages[p] # <<>>
  /\ \A p, q \in Prefix : p # q => Keys(p) \cap Keys(q) = {}
  /\ \A p \in Prefix : \A m, n \in 1 .. Len(Pages[p]) :
       \A i \in 1 .. Len(Pages[p][m]), j \in 1 .. Len(Pages[p][n]) :
         Pages[p][m][i] = Pages[p][n][j] => m = n /\ i = j  \* a listing names a key once
  /\ MaxErrs \in Nat \ {0}
  /\ None \notin AllKeys \cup Prefix

VARIABLES
  unfed,        \* prefixes the feeder still holds
  prefixClosed, \* prefixCh is closed
  lister,       \* lister[i]: what list worker i is about
  keyCh,        \* the buffered keys
  keyClosed,    \* keyCh is closed
  fetching,     \* fetching[j]: the key fetch worker j reads, or None
  fetchDone,    \* fetch workers that returned
  got,          \* got[j]: readKeys of fetch worker j
  scanned,      \* scanned[j]: its objectsScanned
  errs,         \* errs[j]: length of its errs
  listErrs,     \* length of listErrs
  missed,       \* history: wanted keys on pages that were not listed
  failed,       \* history: keys that were fetched and not read
  started,      \* the fetch workers of this scan; the others count as returned
  cancelled,    \* the context is done
  result        \* "none" until scan returns, then "ok" or "error"

listVars == <<unfed, prefixClosed, lister, listErrs, missed>>
fetchVars == <<fetching, fetchDone, got, scanned, errs, failed>>
run == <<started, cancelled>>
vars == <<listVars, keyCh, keyClosed, fetchVars, run, result>>

\* What a list worker does: it waits for a prefix, asks for a page of it, sends
\* the rest of a page, or has returned.
Idle == [pc |-> "idle", prefix |-> None, page |-> 0, rest |-> <<>>]
List(p, n) == [pc |-> "list", prefix |-> p, page |-> n, rest |-> <<>>]
Emit(p, n, s) == [pc |-> "emit", prefix |-> p, page |-> n, rest |-> s]
Gone == [pc |-> "done", prefix |-> None, page |-> 0, rest |-> <<>>]

KeyChCap == 2 * Cardinality(started)

\* The wanted keys on the pages of p from the n-th on.
KeysFrom(p, n) == (UNION {{Pages[p][m][i] : i \in 1 .. Len(Pages[p][m])}
                             : m \in n .. Len(Pages[p])}) \ Skip
-----------------------------------------------------------------------------
Init == /\ unfed = Prefix /\ prefixClosed = FALSE
        /\ lister = [i \in ListWorker |-> Idle]
        /\ keyCh = <<>> /\ keyClosed = FALSE
        /\ started \in Pools
        /\ fetching = [j \in FetchWorker |-> None] /\ fetchDone = FetchWorker \ started
        /\ got = [j \in FetchWorker |-> {}]
        /\ scanned = [j \in FetchWorker |-> 0]
        /\ errs = [j \in FetchWorker |-> 0]
        /\ listErrs = 0 /\ missed = {} /\ failed = {}
        /\ cancelled = FALSE /\ result = "none"

\* The caller's context ends.
Cancel == /\ ~cancelled
          /\ cancelled' = TRUE
          /\ UNCHANGED <<started, listVars, keyCh, keyClosed, fetchVars, result>>

\* The feeder and a list worker that ranges over prefixCh meet. (A wrong
\* variant: every list worker walks all the prefixes.)
FedAll(p) == unfed
Fed(p) == unfed \ {p}

Feed(i, p) == /\ ~prefixClosed /\ p \in unfed /\ lister[i] = Idle
              /\ unfed' = Fed(p)
              /\ lister' = [lister EXCEPT ![i] = List(p, 1)]
              /\ UNCHANGED <<prefixClosed, keyCh, keyClosed, fetchVars, listErrs,
                             missed, run, result>>

\* The feeder ends: no prefix is left, or the context is done.
StopFeeding == /\ ~prefixClosed
               /\ unfed = {} \/ cancelled
               /\ prefixClosed' = TRUE
               /\ UNCHANGED <<unfed, lister, keyCh, keyClosed, fetchVars, listErrs,
                              missed, run, result>>

\* The next thing after page n of p: another page, or another prefix.
After(p, n) == IF n < Len(Pages[p]) THEN List(p, n + 1) ELSE Idle

ListPage(i) == /\ lister[i].pc = "list"
               /\ lister' = [lister EXCEPT ![i] = Emit(@.prefix, @.page, Pages[@.prefix][@.page])]
               /\ UNCHANGED <<unfed, prefixClosed, keyCh, keyClosed, fetchVars, listErrs,
                              missed, run, result>>

\* A page cannot be listed: the rest of the prefix is given up. (A wrong
\* variant: the error goes to the log alone.)
ListPageSilent(i) ==
  /\ lister[i].pc = "list"
  /\ missed' = missed \cup KeysFrom(lister[i].prefix, lister[i].page)
  /\ lister' = [lister EXCEPT ![i] = Idle]
  /\ UNCHANGED <<unfed, prefixClosed, keyCh, keyClosed, fetchVars, listErrs, run, result>>

ListPageFails(i) ==
  /\ lister[i].pc = "list"
  /\ listErrs' = IF listErrs < MaxErrs THEN listErrs + 1 ELSE listErrs
  /\ missed' = missed \cup KeysFrom(lister[i].prefix, lister[i].page)
  /\ lister' = [lister EXCEPT ![i] = Idle]
  /\ UNCHANGED <<unfed, prefixClosed, keyCh, keyClosed, fetchVars, run, result>>

\* The keys of a page one by one: an unwanted key is dropped, a wanted one is
\* sent when keyCh has room. (A wrong variant: it is dropped when there is none.)
SendKeyOrDrop(i) ==
  /\ lister[i].pc = "emit" /\ lister[i].rest # <<>>
  /\ lister' = [lister EXCEPT ![i].rest = Tail(@)]
  /\ keyCh' = IF Head(lister[i].rest) \notin Skip /\ Len(keyCh) < KeyChCap
              THEN Append(keyCh, Head(lister[i].rest)) ELSE keyCh
  /\ UNCHANGED <<unfed, prefixClosed, keyClosed, fetchVars, listErrs, missed, run, result>>

SendKey(i) ==
  /\ lister[i].pc = "emit" /\ lister[i].rest # <<>>
  /\ Head(lister[i].rest) \notin Skip => Len(keyCh) < KeyChCap
  /\ lister' = [lister EXCEPT ![i].rest = Tail(@)]
  /\ keyCh' = IF Head(lister[i].rest) \in Skip THEN keyCh ELSE Append(keyCh, Head(lister[i].rest))
  /\ UNCHANGED <<unfed, prefixClosed, keyClosed, fetchVars, listErrs, missed, run, result>>

\* Blocked on a wanted key, the worker leaves when the context is done. (A
\* wrong variant: it does not watch the context.)
LeaveNever(i) == FALSE /\ UNCHANGED vars
Leave(i) == /\ cancelled /\ lister[i].pc = "emit" /\ lister[i].rest # <<>>
            /\ Head(lister[i].rest) \notin Skip
            /\ lister' = [lister EXCEPT ![i] = Gone]
            /\ UNCHANGED <<unfed, prefixClosed, keyCh, keyClosed, fetchVars, listErrs,
                           missed, run, result>>

EndPage(i) == /\ lister[i].pc = "emit" /\ lister[i].rest = <<>>
              /\ lister' = [lister EXCEPT ![i] = After(@.prefix, @.page)]
              /\ UNCHANGED <<unfed, prefixClosed, keyCh, keyClosed, fetchVars, listErrs,
                             missed, run, result>>

StopListing(i) == /\ lister[i] = Idle /\ prefixClosed
                  /\ lister' = [lister EXCEPT ![i] = Gone]
                  /\ UNCHANGED <<unfed, prefixClosed, keyCh, keyClosed, fetchVars, listErrs,
                                 missed, run, result>>

\* listWG.Wait, close(keyCh). (A wrong variant: closed with the prefixes.)
NoPrefix == prefixClosed
NoLister == \A i \in ListWorker : lister[i] = Gone

CloseKeys == /\ ~keyClosed /\ NoLister
             /\ keyClosed' = TRUE
             /\ UNCHANGED <<listVars, keyCh, fetchVars, run, result>>

\* A fetch worker takes a key, unless the context is done: then it returns,
\* and the key is dropped.
Receive(j) == /\ j \notin fetchDone /\ fetching[j] = None /\ keyCh # <<>>
              /\ keyCh' = Tail(keyCh)
              /\ IF cancelled
                 THEN fetchDone' = fetchDone \cup {j} /\ UNCHANGED fetching
                 ELSE fetching' = [fetching EXCEPT ![j] = Head(keyCh)] /\ UNCHANGED fetchDone
              /\ UNCHANGED <<listVars, keyClosed, got, scanned, errs, failed, run, result>>

Drained(j) == /\ j \notin fetchDone /\ fetching[j] = None
              /\ keyCh = <<>> /\ keyClosed
              /\ fetchDone' = fetchDone \cup {j}
              /\ UNCHANGED <<listVars, keyCh, keyClosed, fetching, got, scanned, errs,
                             failed, run, result>>

\* Errors are collected up to a cap. (A wrong variant: without it.)
MoreErrsUncapped(j) == [errs EXCEPT ![j] = @ + 1]
MoreErrs(j) == [errs EXCEPT ![j] = IF @ < MaxErrs THEN @ + 1 ELSE @]

\* The object is read to the end, perhaps with bad lines.
FetchReads(j, bad) ==
  /\ fetching[j] # None
  /\ got' = [got EXCEPT ![j] = @ \cup {fetching[j]}]
  /\ scanned' = [scanned EXCEPT ![j] = @ + 1]
  /\ errs' = IF bad THEN MoreErrs(j) ELSE errs
  /\ fetching' = [fetching EXCEPT ![j] = None]
  /\ UNCHANGED <<listVars, keyCh, keyClosed, fetchDone, failed, run, result>>

\* It is not: it cannot be opened, decoded or read to the end.
FetchFails(j) ==
  /\ fetching[j] # None
  /\ failed' = failed \cup {fetching[j]}
  /\ errs' = MoreErrs(j)
  /\ fetching' = [fetching EXCEPT ![j] = None]
  /\ UNCHANGED <<listVars, keyCh, keyClosed, fetchDone, got, scanned, run, result>>

\* fetchWG.Wait, then ctx.Err decides. (A wrong variant: a cancelled scan does
\* not wait for its workers.)
WorkersOut == cancelled \/ fetchDone = FetchWorker
WorkersIn == fetchDone = FetchWorker

Return == /\ result = "none" /\ WorkersIn
          /\ result' = IF cancelled THEN "error" ELSE "ok"
          /\ UNCHANGED <<listVars, keyCh, keyClosed, fetchVars, run>>
-----------------------------------------------------------------------------
Feeder == StopFeeding \/ \E i \in ListWorker, p \in unfed : Feed(i, p)
ListStep(i) == \/ ListPage(i) \/ ListPageFails(i) \/ SendKey(i) \/ Leave(i)
               \/ EndPage(i) \/ StopListing(i)
FetchStep(j) == \/ Receive(j) \/ Drained(j) \/ FetchFails(j)
                \/ \E bad \in BOOLEAN : FetchReads(j, bad)

AllDone == /\ result # "none" /\ prefixClosed /\ NoLister /\ keyClosed
           /\ fetchDone = FetchWorker
Stop == AllDone /\ UNCHANGED vars

Next == \/ Cancel
        \/ Feeder \/ CloseKeys \/ Return
        \/ \E i \in ListWorker : ListStep(i)
        \/ \E j \in FetchWorker : FetchStep(j)
        \/ Stop

Spec == Init /\ [][Next]_vars

\* Every goroutine that can take a step takes one; store calls return.
FairSpec == /\ Spec
            /\ WF_vars(Feeder) /\ WF_vars(CloseKeys) /\ WF_vars(Return)
            /\ \A i \in ListWorker : WF_vars(ListStep(i))
            /\ \A j \in FetchWorker : WF_vars(FetchStep(j))
-----------------------------------------------------------------------------
GotKeys == UNION {got[j] : j \in FetchWorker}
Errors == listErrs > 0 \/ \E j \in FetchWorker : errs[j] > 0

ListerOK(l) == \/ l \in {Idle, Gone}
               \/ \E p \in Prefix : \E n \in 1 .. Len(Pages[p]) :
                    \/ l = List(p, n)
                    \/ l.rest \in Seq(Keys(p)) /\ l = Emit(p, n, l.rest)

TypeOK ==
  /\ unfed \subseteq Prefix /\ prefixClosed \in BOOLEAN
  /\ DOMAIN lister = ListWorker /\ \A i \in ListWorker : ListerOK(lister[i])
  /\ keyCh \in Seq(Wanted) /\ Len(keyCh) <= KeyChCap /\ keyClosed \in BOOLEAN
  /\ fetching \in [FetchWorker -> Wanted \cup {None}] /\ FetchWorker \ started \subseteq fetchDone /\ fetchDone \subseteq FetchWorker
  /\ got \in [FetchWorker -> SUBSET Wanted] /\ scanned \in [FetchWorker -> Nat]
  /\ errs \in [FetchWorker -> 0 .. MaxErrs] /\ listErrs \in 0 .. MaxErrs
  /\ missed \subseteq Wanted /\ failed \subseteq Wanted
  /\ cancelled \in BOOLEAN /\ result \in {"none", "ok", "error"}

\* However the keys are spread over the workers, no object is counted twice:
\* the sum of objectsScanned is the number of distinct keys read.
ScannedOnce == \A j, l \in FetchWorker : /\ scanned[j] = Cardinality(got[j])
                                         /\ j # l => got[j] \cap got[l] = {}

\* keyCh is closed only when nobody can send on it any more: a send on a closed
\* channel panics.
NoSendOnClosed == keyClosed => \A i \in ListWorker : lister[i].pc # "emit"

\* A scan without error and without collected errors has read every wanted key.
CleanIsComplete == result = "ok" /\ ~Errors => GotKeys = Wanted

\* The caller closes the sink as soon as scan returns, and no writer may be
\* used after that: nothing is folded into a shard any more.
QuietAfterReturn == [][result # "none" => UNCHANGED <<got, scanned, errs, failed>>]_vars

\* A scan ends, also a cancelled one, and leaves no goroutine behind.
WindsDown == <>[]AllDone

\* The abstract specification.
SweepOf == INSTANCE Sweep WITH got <- GotKeys, givenUp <- missed \cup failed,
                               reported <- Errors
ImplementsSweep == SweepOf!Spec
=============================================================================
