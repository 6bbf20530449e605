---------------------------- MODULE EngineProofs ----------------------------
(***************************************************************************)
(* The proofs about the two stages of a CloudTrail run: the scan, and the  *)
(* detectors of its workers with their merge.                              *)
(***************************************************************************)
EXTENDS Scan, Findings, FiniteSetTheorems, TLAPS

(***************************************************************************)
(* The scan, for every set of prefixes, pages and workers. The argument is *)
(* about where a wanted key is: in a prefix not fed yet, ahead of a list   *)
(* worker, in keyCh, in the hands of a fetch worker, read, failed or       *)
(* missed. A key is in one place at most, and as long as nobody cancels it *)
(* is in one place at least.                                               *)
(***************************************************************************)
Elems(s) == {s[x] : x \in 1 .. Len(s)}
Once(s) == \A x, y \in 1 .. Len(s) : s[x] = s[y] => x = y

\* The wanted keys that a list worker has still to send.
Ahead(l) == IF l.pc = "list" THEN KeysFrom(l.prefix, l.page)
            ELSE IF l.pc = "emit" THEN (Elems(l.rest) \ Skip) \cup KeysFrom(l.prefix, l.page + 1)
            ELSE {}

Kind == {"unfed", "ahead", "queued", "fetching", "got", "failed", "missed"}
Who(a) == IF a = "ahead" THEN ListWorker
          ELSE IF a \in {"fetching", "got"} THEN FetchWorker ELSE {None}

\* The keys at a place: of its kind, and its worker's where it has one.
Holds(a, w) == CASE a = "unfed" -> (UNION {Keys(p) : p \in unfed}) \ Skip
                 [] a = "ahead" -> Ahead(lister[w])
                 [] a = "queued" -> Elems(keyCh)
                 [] a = "fetching" -> {fetching[w]} \ {None}
                 [] a = "got" -> got[w]
                 [] a = "failed" -> failed
                 [] a = "missed" -> missed

\* A key is in one place at most.
Apart == \A a, b \in Kind : \A v \in Who(a), w \in Who(b) :
           a # b \/ v # w => Holds(a, v) \cap Holds(b, w) = {}

\* A key is in one place at least, unless the scan was cancelled.
Placed == result = "ok" \/ ~cancelled
          => \A k \in Wanted : \E a \in Kind : \E w \in Who(a) : k \in Holds(a, w)

\* Nor is it twice in keyCh or in what is left of a page.
NoRepeats == /\ Once(keyCh)
             /\ \A i \in ListWorker : lister[i].pc = "emit" =>
                  /\ Once(lister[i].rest)
                  /\ Elems(lister[i].rest) \cap KeysFrom(lister[i].prefix, lister[i].page + 1) = {}

\* The order in which the stages end.
Ends == /\ prefixClosed /\ ~cancelled => unfed = {}
        /\ \A i \in ListWorker : lister[i] = Gone /\ ~cancelled => prefixClosed
        /\ keyClosed => NoLister
        /\ \A j \in FetchWorker : j \in fetchDone => fetching[j] = None
        /\ \A j \in started : j \in fetchDone /\ ~cancelled => keyClosed /\ keyCh = <<>>
        /\ result # "none" => fetchDone = FetchWorker
        /\ result = "ok" => unfed = {} /\ keyClosed /\ keyCh = <<>>
        /\ result = "error" => cancelled
        /\ started \in Pools

\* What was given up is reported.
Told == /\ missed # {} => listErrs > 0
        /\ failed # {} => \E j \in FetchWorker : errs[j] > 0

Counts == \A j \in FetchWorker : IsFiniteSet(got[j]) /\ scanned[j] = Cardinality(got[j])

IInv == TypeOK /\ Apart /\ Placed /\ NoRepeats /\ Ends /\ Told /\ Counts
-----------------------------------------------------------------------------
\* What the phases of a list worker carry.
LEMMA ListerFacts ==
  ASSUME NEW l, ListerOK(l)
  PROVE  /\ l.pc \in {"idle", "done", "list", "emit"}
         /\ l.pc = "idle" <=> l = Idle
         /\ l.pc = "done" <=> l = Gone
         /\ l.pc = "list" => l = List(l.prefix, l.page)
         /\ l.pc = "emit" => l = Emit(l.prefix, l.page, l.rest) /\ l.rest \in Seq(Keys(l.prefix))
         /\ l.pc \in {"list", "emit"} => l.prefix \in Prefix /\ l.page \in 1 .. Len(Pages[l.prefix])
<1>1. CASE l \in {Idle, Gone}
  BY <1>1 DEF Idle, Gone
<1>2. CASE \E p \in Prefix : \E n \in 1 .. Len(Pages[p]) : l = List(p, n)
  BY <1>2 DEF Idle, Gone, List
<1>3. CASE \E p \in Prefix : \E n \in 1 .. Len(Pages[p]) :
             l.rest \in Seq(Keys(p)) /\ l = Emit(p, n, l.rest)
  BY <1>3 DEF Idle, Gone, Emit
<1> QED
  BY <1>1, <1>2, <1>3 DEF ListerOK

\* A list worker that sends the rest of a page.
LEMMA EmitFacts ==
  ASSUME NEW p, NEW n, NEW s
  PROVE  /\ Emit(p, n, s).pc = "emit" /\ Emit(p, n, s).prefix = p /\ Emit(p, n, s).page = n
         /\ Emit(p, n, s).rest = s /\ Emit(p, n, s) # Gone
         /\ Ahead(Emit(p, n, s)) = (Elems(s) \ Skip) \cup KeysFrom(p, n + 1)
  BY DEF Emit, Gone, Ahead

\* The pages of a prefix hold its keys, each once.
LEMMA PageFacts ==
  ASSUME NEW p \in Prefix
  PROVE  /\ Len(Pages[p]) \in Nat \ {0}
         /\ KeysFrom(p, 1) = Keys(p) \ Skip
         /\ KeysFrom(p, Len(Pages[p]) + 1) = {}
         /\ \A n \in 1 .. Len(Pages[p]) :
              /\ Pages[p][n] \in Seq(Keys(p)) /\ Once(Pages[p][n])
              /\ Elems(Pages[p][n]) \cap KeysFrom(p, n + 1) = {}
              /\ KeysFrom(p, n) = (Elems(Pages[p][n]) \ Skip) \cup KeysFrom(p, n + 1)
              /\ KeysFrom(p, n) \subseteq Keys(p) \ Skip
<1>1. Pages[p] \in Seq(Seq(Keys(p))) /\ Pages[p] # <<>>
  BY ScanAssumption
<1>2. Len(Pages[p]) \in Nat \ {0} /\ \A n \in 1 .. Len(Pages[p]) : Pages[p][n] \in Seq(Keys(p))
  BY <1>1
<1>3. KeysFrom(p, 1) = Keys(p) \ Skip
  BY DEF KeysFrom, Keys
<1>4. KeysFrom(p, Len(Pages[p]) + 1) = {}
  <2>1. (Len(Pages[p]) + 1) .. Len(Pages[p]) = {}
    BY <1>2
  <2> QED  BY <2>1 DEF KeysFrom
<1>5. ASSUME NEW n \in 1 .. Len(Pages[p])
      PROVE  /\ Once(Pages[p][n])
             /\ Elems(Pages[p][n]) \cap KeysFrom(p, n + 1) = {}
             /\ KeysFrom(p, n) = (Elems(Pages[p][n]) \ Skip) \cup KeysFrom(p, n + 1)
             /\ KeysFrom(p, n) \subseteq Keys(p) \ Skip
  <2>1. n .. Len(Pages[p]) = {n} \cup ((n + 1) .. Len(Pages[p])) /\ n \notin (n + 1) .. Len(Pages[p])
        /\ n .. Len(Pages[p]) \subseteq 1 .. Len(Pages[p])
        /\ (n + 1) .. Len(Pages[p]) \subseteq 1 .. Len(Pages[p])
    BY <1>2
  <2>2. KeysFrom(p, n) = (Elems(Pages[p][n]) \ Skip) \cup KeysFrom(p, n + 1)
    BY <2>1 DEF KeysFrom, Elems
  <2>3. KeysFrom(p, n) \subseteq Keys(p) \ Skip
    BY <2>1 DEF KeysFrom, Keys
  <2>4. Once(Pages[p][n])
    BY ScanAssumption DEF Once
  <2>5. Elems(Pages[p][n]) \cap KeysFrom(p, n + 1) = {}
    <3> SUFFICES ASSUME NEW x \in 1 .. Len(Pages[p][n]), NEW m \in (n + 1) .. Len(Pages[p]),
                        NEW y \in 1 .. Len(Pages[p][m]), Pages[p][n][x] = Pages[p][m][y]
                 PROVE  FALSE
      BY DEF Elems, KeysFrom
    <3> QED  BY <2>1, ScanAssumption
  <2> QED  BY <2>2, <2>3, <2>4, <2>5
<1> QED
  BY <1>2, <1>3, <1>4, <1>5

\* Taking the head of a sequence that repeats nothing.
LEMMA TailFacts ==
  ASSUME NEW S, NEW s \in Seq(S), s # <<>>, Once(s)
  PROVE  /\ Head(s) \in S /\ Tail(s) \in Seq(S) /\ Once(Tail(s)) /\ Len(Tail(s)) = Len(s) - 1
         /\ Elems(s) = {Head(s)} \cup Elems(Tail(s)) /\ Head(s) \notin Elems(Tail(s))
<1>1. /\ Len(s) \in Nat \ {0} /\ Head(s) = s[1] /\ Head(s) \in S
      /\ Tail(s) \in Seq(S) /\ Len(Tail(s)) = Len(s) - 1
      /\ \A x \in 1 .. Len(s) - 1 : Tail(s)[x] = s[x + 1]
  OBVIOUS
<1>2. Once(Tail(s))
  BY <1>1 DEF Once
<1>3. Head(s) \notin Elems(Tail(s))
  BY <1>1 DEF Once, Elems
<1>4. Elems(s) = {Head(s)} \cup Elems(Tail(s))
  <2>1. \A x \in 1 .. Len(s) : x = 1 \/ x - 1 \in 1 .. Len(s) - 1
    BY <1>1
  <2>2. Elems(s) \subseteq {Head(s)} \cup Elems(Tail(s))
    <3> SUFFICES ASSUME NEW x \in 1 .. Len(s) PROVE s[x] \in {Head(s)} \cup Elems(Tail(s))
      BY DEF Elems
    <3>1. CASE x = 1
      BY <1>1, <3>1
    <3>2. CASE x - 1 \in 1 .. Len(s) - 1
      <4>1. Tail(s)[x - 1] = s[x]
        BY <1>1, <3>2
      <4> QED  BY <1>1, <3>2, <4>1 DEF Elems
    <3> QED  BY <2>1, <3>1, <3>2
  <2>3. {Head(s)} \cup Elems(Tail(s)) \subseteq Elems(s)
    <3>1. \A x \in 1 .. Len(s) - 1 : x + 1 \in 1 .. Len(s)
      BY <1>1
    <3> QED  BY <1>1, <3>1 DEF Elems
  <2> QED  BY <2>2, <2>3
<1> QED
  BY <1>1, <1>2, <1>3, <1>4

\* Appending something new to one.
LEMMA AppendFacts ==
  ASSUME NEW S, NEW s \in Seq(S), NEW e \in S, Once(s), e \notin Elems(s)
  PROVE  /\ Append(s, e) \in Seq(S) /\ Once(Append(s, e)) /\ Len(Append(s, e)) = Len(s) + 1
         /\ Elems(Append(s, e)) = Elems(s) \cup {e}
<1> DEFINE t == Append(s, e)
<1>1. /\ Len(s) \in Nat /\ t \in Seq(S) /\ Len(t) = Len(s) + 1 /\ t[Len(s) + 1] = e
      /\ \A x \in 1 .. Len(s) : t[x] = s[x]
  OBVIOUS
<1> HIDE DEF t
<1>2. 1 .. Len(t) = 1 .. Len(s) \cup {Len(s) + 1}
  BY <1>1
<1>3. Elems(t) = Elems(s) \cup {e}
  BY <1>1, <1>2 DEF Elems
<1>4. Once(t)
  BY <1>1, <1>2 DEF Once, Elems
<1> QED
  BY <1>1, <1>3, <1>4 DEF t
-----------------------------------------------------------------------------
\* What each place holds, before and after a step.
LEMMA Places ==
  ASSUME NEW w
  PROVE  /\ Holds("unfed", w) = (UNION {Keys(p) : p \in unfed}) \ Skip
         /\ Holds("unfed", w)' = (UNION {Keys(p) : p \in unfed'}) \ Skip
         /\ Holds("ahead", w) = Ahead(lister[w]) /\ Holds("ahead", w)' = Ahead(lister'[w])
         /\ Holds("queued", w) = Elems(keyCh) /\ Holds("queued", w)' = Elems(keyCh')
         /\ Holds("fetching", w) = {fetching[w]} \ {None}
         /\ Holds("fetching", w)' = {fetching'[w]} \ {None}
         /\ Holds("got", w) = got[w] /\ Holds("got", w)' = got'[w]
         /\ Holds("failed", w) = failed /\ Holds("failed", w)' = failed'
         /\ Holds("missed", w) = missed /\ Holds("missed", w)' = missed'
  BY DEF Holds, Ahead, KeysFrom, Elems, Keys

\* What a step does not touch holds what it held.
LEMMA Untouched ==
  ASSUME NEW w
  PROVE  /\ unfed' = unfed => Holds("unfed", w)' = Holds("unfed", w)
         /\ lister' = lister => Holds("ahead", w)' = Holds("ahead", w)
         /\ keyCh' = keyCh => Holds("queued", w)' = Holds("queued", w)
         /\ fetching' = fetching => Holds("fetching", w)' = Holds("fetching", w)
         /\ got' = got => Holds("got", w)' = Holds("got", w)
         /\ failed' = failed => Holds("failed", w)' = Holds("failed", w)
         /\ missed' = missed => Holds("missed", w)' = Holds("missed", w)
  BY Places

\* The keys of K, and no others, go from place (a, v) to place (b, w).
Moved(K, a, v, b, w) ==
  /\ K \subseteq Holds(a, v)
  /\ \A c \in Kind : \A u \in Who(c) :
       Holds(c, u)' = (IF c = a /\ u = v THEN Holds(c, u) \ K ELSE Holds(c, u))
                      \cup (IF c = b /\ u = w THEN K ELSE {})

\* Keys that move from one place to another are in one place still.
LEMMA MoveKeeps ==
  ASSUME Apart, Placed, UNCHANGED <<result, cancelled>>,
         NEW a \in Kind, NEW v \in Who(a), NEW b \in Kind, NEW w \in Who(b), a # b \/ v # w,
         NEW K, Moved(K, a, v, b, w)
  PROVE  Apart' /\ Placed'
<1>1. Apart'
  <2> SUFFICES ASSUME NEW c \in Kind, NEW d \in Kind, NEW t \in Who(c), NEW u \in Who(d), c # d \/ t # u,
                      NEW k, k \in Holds(c, t)', k \in Holds(d, u)'
               PROVE  FALSE
    BY DEF Apart, Kind, Who
  <2>1. \A e \in Kind, f \in Kind : \A x \in Who(e), y \in Who(f) :
          e # f \/ x # y => ~(k \in Holds(e, x) /\ k \in Holds(f, y))
    BY DEF Apart
  <2>2. CASE k \in K
    <3>1. k \in Holds(a, v)
      BY <2>2 DEF Moved
    <3>2. \A e \in Kind : \A x \in Who(e) : k \in Holds(e, x)' => e = b /\ x = w
      BY <2>1, <2>2, <3>1 DEF Moved
    <3> QED  BY <3>2
  <2>3. CASE k \notin K
    <3>1. \A e \in Kind : \A x \in Who(e) : k \in Holds(e, x)' => k \in Holds(e, x)
      BY <2>3 DEF Moved
    <3> QED  BY <2>1, <3>1
  <2> QED  BY <2>2, <2>3
<1>2. Placed'
  <2> SUFFICES ASSUME result = "ok" \/ ~cancelled, NEW k \in Wanted
               PROVE  \E c \in Kind : \E u \in Who(c) : k \in Holds(c, u)'
    BY DEF Placed, Kind, Who, Wanted, AllKeys, Keys
  <2>0. PICK c \in Kind : \E u \in Who(c) : k \in Holds(c, u)
    BY DEF Placed
  <2>1. PICK u \in Who(c) : k \in Holds(c, u)
    BY <2>0
  <2>2. CASE k \in K
    <3>1. k \in Holds(b, w)'
      BY <2>2 DEF Moved
    <3> QED  BY <3>1
  <2>3. CASE k \notin K
    <3>1. k \in Holds(c, u)'
      BY <2>1, <2>3 DEF Moved
    <3> QED  BY <3>1
  <2> QED  BY <2>2, <2>3
<1> QED
  BY <1>1, <1>2

\* So are the others when a cancelled scan drops some.
LEMMA DropKeeps ==
  ASSUME Apart, cancelled', result' # "ok",
         \A c \in Kind : \A u \in Who(c) : Holds(c, u)' \subseteq Holds(c, u)
  PROVE  Apart' /\ Placed'
<1>1. Apart'
  <2> SUFFICES ASSUME NEW c \in Kind, NEW d \in Kind, NEW t \in Who(c), NEW u \in Who(d), c # d \/ t # u
               PROVE  Holds(c, t)' \cap Holds(d, u)' = {}
    BY DEF Apart, Kind, Who
  <2>1. Holds(c, t) \cap Holds(d, u) = {}
    BY DEF Apart
  <2> QED  BY <2>1
<1>2. Placed'
  BY DEF Placed
<1> QED
  BY <1>1, <1>2

\* And when nothing moves.
LEMMA StandKeeps ==
  ASSUME Apart, Placed, result' = "ok" \/ ~cancelled' => result = "ok" \/ ~cancelled,
         \A c \in Kind : \A u \in Who(c) : Holds(c, u)' = Holds(c, u)
  PROVE  Apart' /\ Placed'
<1>1. Apart'
  <2> SUFFICES ASSUME NEW c \in Kind, NEW d \in Kind, NEW t \in Who(c), NEW u \in Who(d), c # d \/ t # u
               PROVE  Holds(c, t)' \cap Holds(d, u)' = {}
    BY DEF Apart, Kind, Who
  <2>1. Holds(c, t) \cap Holds(d, u) = {}
    BY DEF Apart
  <2> QED  BY <2>1
<1>2. Placed'
  <2> SUFFICES ASSUME result = "ok" \/ ~cancelled, NEW k \in Wanted
               PROVE  \E c \in Kind : \E u \in Who(c) : k \in Holds(c, u)'
    BY DEF Placed, Kind, Who, Wanted, AllKeys, Keys
  <2>0. PICK c \in Kind : \E u \in Who(c) : k \in Holds(c, u)
    BY DEF Placed
  <2>1. PICK u \in Who(c) : k \in Holds(c, u)
    BY <2>0
  <2> QED  BY <2>1
<1> QED
  BY <1>1, <1>2
-----------------------------------------------------------------------------
\* A list worker turns to l; the others go on.
Turns(i, l) == /\ DOMAIN lister' = ListWorker
               /\ \A x \in ListWorker : lister'[x] = IF x = i THEN l ELSE lister[x]

\* An assignment to one list worker turns it and no other.
LEMMA TurnsIs ==
  ASSUME TypeOK, NEW i \in ListWorker, NEW l, lister' = [lister EXCEPT ![i] = l]
  PROVE  Turns(i, l)
  BY DEF TypeOK, Turns

\* The feeder hands the keys of a prefix to a list worker.
LEMMA FeedKeeps ==
  ASSUME IInv, NEW i \in ListWorker, NEW p \in unfed, Feed(i, p)
  PROVE  IInv'
<1> DEFINE K == Keys(p) \ Skip
           l == List(p, 1)
<1>1. /\ ~prefixClosed /\ p \in Prefix /\ unfed \subseteq Prefix /\ lister[i] = Idle /\ unfed' = unfed \ {p}
      /\ lister' = [lister EXCEPT ![i] = l]
      /\ UNCHANGED <<prefixClosed, keyCh, keyClosed, fetching, fetchDone, got, scanned, errs, failed,
                      listErrs, missed, started, cancelled, result>>
  BY DEF Feed, Fed, fetchVars, run, IInv, TypeOK
<1>2. Turns(i, l) /\ lister'[i] = l /\ ListerOK(l) /\ Ahead(l) = K /\ Ahead(lister[i]) = {}
  <2>1. Turns(i, l)
    BY <1>1, TurnsIs DEF IInv
  <2>2. ListerOK(l)
    <3>1. 1 \in 1 .. Len(Pages[p])
      BY <1>1, PageFacts
    <3> QED  BY <1>1, <3>1 DEF ListerOK
  <2>3. Ahead(l) = K
    BY <1>1, PageFacts DEF Ahead, List
  <2>4. Ahead(lister[i]) = {}
    BY <1>1 DEF Ahead, Idle
  <2> QED  BY <2>1, <2>2, <2>3, <2>4 DEF Turns
<1> HIDE DEF l
<1>3. Moved(K, "unfed", None, "ahead", i)
  <2>1. K \subseteq Holds("unfed", None)
    BY <1>1, Places
  <2>2. Holds("unfed", None)' = Holds("unfed", None) \ K
    <3>1. (UNION {Keys(q) : q \in unfed'}) \ Skip = ((UNION {Keys(q) : q \in unfed}) \ Skip) \ K
      BY <1>1, ScanAssumption
    <3> QED  BY <3>1, Places
  <2>3. \A u \in ListWorker : Holds("ahead", u)' = Holds("ahead", u) \cup (IF u = i THEN K ELSE {})
    BY <1>2, Places DEF Turns
  <2>4. \A c \in Kind \ {"unfed", "ahead"} : \A u \in Who(c) : Holds(c, u)' = Holds(c, u)
    BY <1>1, Untouched DEF Kind
  <2> HIDE DEF K
  <2> QED  BY <2>1, <2>2, <2>3, <2>4 DEF Moved, Kind, Who
<1>4. Apart' /\ Placed'
  BY <1>1, <1>3, MoveKeeps DEF IInv, Kind, Who
<1>5. TypeOK'
  BY <1>1, <1>2 DEF IInv, TypeOK, Turns, KeyChCap
<1>6. NoRepeats'
  BY <1>1, <1>2 DEF IInv, NoRepeats, Turns, l, List
<1>7. Ends'
  BY <1>1, <1>2 DEF IInv, Ends, Turns, l, List, Gone, NoLister, Idle
<1>8. Told' /\ Counts'
  BY <1>1 DEF IInv, Told, Counts
<1> QED
  BY <1>4, <1>5, <1>6, <1>7, <1>8 DEF IInv

\* A list worker goes on with the same keys ahead.
LEMMA ListerGoesOn ==
  ASSUME IInv, NEW i \in ListWorker, NEW l, lister' = [lister EXCEPT ![i] = l], Ahead(l) = Ahead(lister[i]),
         UNCHANGED <<unfed, keyCh, fetching, got, failed, missed, result, cancelled>>
  PROVE  Turns(i, l) /\ Apart' /\ Placed'
<1>1. Turns(i, l)
  BY TurnsIs DEF IInv
<1>2. \A u \in ListWorker : Holds("ahead", u)' = Holds("ahead", u)
  BY <1>1, Places DEF Turns
<1>3. \A c \in Kind \ {"ahead"} : \A u \in Who(c) : Holds(c, u)' = Holds(c, u)
  BY Untouched DEF Kind
<1> QED
  BY <1>1, <1>2, <1>3, StandKeeps DEF IInv, Kind, Who

\* A page is listed: its keys are ahead as before.
LEMMA ListPageKeeps ==
  ASSUME IInv, NEW i \in ListWorker, ListPage(i)
  PROVE  IInv'
<1> DEFINE p == lister[i].prefix
           n == lister[i].page
           l == Emit(p, n, Pages[p][n])
<1>1. /\ lister[i].pc = "list" /\ lister' = [lister EXCEPT ![i] = l]
      /\ UNCHANGED <<unfed, prefixClosed, keyCh, keyClosed, fetching, fetchDone, got, scanned, errs, failed,
                      listErrs, missed, started, cancelled, result>>
  BY DEF ListPage, fetchVars, run
<1>2. lister[i] = List(p, n) /\ p \in Prefix /\ n \in 1 .. Len(Pages[p])
  BY <1>1, ListerFacts DEF IInv, TypeOK
<1>3. /\ Pages[p][n] \in Seq(Keys(p)) /\ Once(Pages[p][n])
      /\ Elems(Pages[p][n]) \cap KeysFrom(p, n + 1) = {}
      /\ KeysFrom(p, n) = (Elems(Pages[p][n]) \ Skip) \cup KeysFrom(p, n + 1)
  BY <1>2, PageFacts
<1>4. /\ l.pc = "emit" /\ l.prefix = p /\ l.page = n /\ l.rest = Pages[p][n]
      /\ ListerOK(l) /\ l # Gone /\ lister[i] # Gone
  <2>1. l.pc = "emit" /\ l.prefix = p /\ l.page = n /\ l.rest = Pages[p][n]
    BY DEF Emit
  <2>2. ListerOK(l)
    <3>1. l = Emit(p, n, l.rest) /\ l.rest \in Seq(Keys(p))
      BY <1>3, <2>1
    <3> HIDE DEF p, n, l
    <3> QED  BY <1>2, <3>1 DEF ListerOK
  <2>3. l # Gone /\ lister[i] # Gone
    <3>1. Gone.pc = "done"
      BY DEF Gone
    <3> HIDE DEF p, n, l
    <3> QED  BY <1>1, <2>1, <3>1
  <2> QED  BY <2>1, <2>2, <2>3
<1>5. Ahead(l) = Ahead(lister[i])
  <2>1. Ahead(lister[i]) = KeysFrom(p, n)
    BY <1>1 DEF Ahead
  <2> HIDE DEF p, n, l
  <2>2. Ahead(l) = (Elems(l.rest) \ Skip) \cup KeysFrom(l.prefix, l.page + 1)
    BY <1>4 DEF Ahead
  <2> QED  BY <1>3, <1>4, <2>1, <2>2
<1> HIDE DEF p, n, l
<1>6. Turns(i, l) /\ Apart' /\ Placed'
  BY <1>1, <1>5, ListerGoesOn
<1>7. TypeOK'
  BY <1>1, <1>4, <1>6 DEF IInv, TypeOK, Turns, KeyChCap
<1>8. NoRepeats'
  <2>1. Once(keyCh')
    BY <1>1 DEF IInv, NoRepeats
  <2>2. ASSUME NEW x \in ListWorker, lister'[x].pc = "emit"
        PROVE  /\ Once(lister'[x].rest)
               /\ Elems(lister'[x].rest) \cap KeysFrom(lister'[x].prefix, lister'[x].page + 1) = {}
    <3>1. CASE x = i
      BY <1>3, <1>4, <1>6, <3>1 DEF Turns
    <3>2. CASE x # i
      BY <1>6, <2>2, <3>2 DEF IInv, NoRepeats, Turns
    <3> QED  BY <3>1, <3>2
  <2> QED  BY <2>1, <2>2 DEF NoRepeats
<1>9. Ends'
  BY <1>1, <1>4, <1>6 DEF IInv, Ends, Turns, NoLister
<1>10. Told' /\ Counts'
  BY <1>1 DEF IInv, Told, Counts
<1> QED
  BY <1>6, <1>7, <1>8, <1>9, <1>10 DEF IInv

\* A page is not listed: the keys ahead are missed, and an error says so.
LEMMA ListPageFailsKeeps ==
  ASSUME IInv, NEW i \in ListWorker, ListPageFails(i)
  PROVE  IInv'
<1> DEFINE K == KeysFrom(lister[i].prefix, lister[i].page)
<1>1. /\ lister[i].pc = "list" /\ lister' = [lister EXCEPT ![i] = Idle] /\ missed' = missed \cup K
      /\ listErrs' = (IF listErrs < MaxErrs THEN listErrs + 1 ELSE listErrs)
      /\ UNCHANGED <<unfed, prefixClosed, keyCh, keyClosed, fetching, fetchDone, got, scanned, errs, failed,
                      started, cancelled, result>>
  BY DEF ListPageFails, fetchVars, run
<1>2. /\ lister[i].prefix \in Prefix /\ lister[i].page \in 1 .. Len(Pages[lister[i].prefix])
      /\ lister[i] # Gone
  BY <1>1, ListerFacts DEF IInv, TypeOK, Gone
<1>3. K \subseteq Wanted
  BY <1>2, PageFacts DEF Wanted, AllKeys
<1>4. Turns(i, Idle) /\ ListerOK(Idle) /\ Ahead(lister[i]) = K /\ Ahead(Idle) = {} /\ Idle.pc = "idle" /\ Idle # Gone
  BY <1>1, TurnsIs DEF IInv, ListerOK, Ahead, Idle, Gone
<1> HIDE DEF K
<1>5. Moved(K, "ahead", i, "missed", None)
  <2>1. K = Holds("ahead", i) /\ \A u \in ListWorker : Holds("ahead", u)' = IF u = i THEN {} ELSE Holds("ahead", u)
    BY <1>4, Places DEF Turns
  <2>2. Holds("missed", None)' = Holds("missed", None) \cup K
    BY <1>1, Places
  <2>3. \A c \in Kind \ {"ahead", "missed"} : \A u \in Who(c) : Holds(c, u)' = Holds(c, u)
    BY <1>1, Untouched DEF Kind
  <2> QED  BY <2>1, <2>2, <2>3 DEF Moved, Kind, Who
<1>6. Apart' /\ Placed'
  BY <1>1, <1>5, MoveKeeps DEF IInv, Kind, Who
<1>7. listErrs' \in 0 .. MaxErrs /\ listErrs' > 0
  BY <1>1, ScanAssumption DEF IInv, TypeOK
<1>8. TypeOK'
  BY <1>1, <1>3, <1>4, <1>7 DEF IInv, TypeOK, Turns, KeyChCap
<1>9. NoRepeats'
  BY <1>1, <1>4 DEF IInv, NoRepeats, Turns
<1>10. Ends'
  BY <1>1, <1>2, <1>4 DEF IInv, Ends, Turns, NoLister
<1>11. Told' /\ Counts'
  BY <1>1, <1>7 DEF IInv, Told, Counts
<1> QED
  BY <1>6, <1>8, <1>9, <1>10, <1>11 DEF IInv

\* A key is sent: it is in keyCh and no more ahead. An unwanted one is dropped.
LEMMA SendKeyKeeps ==
  ASSUME IInv, NEW i \in ListWorker, SendKey(i)
  PROVE  IInv'
<1>1. PICK p, n, s : /\ lister[i] = Emit(p, n, s) /\ p \in Prefix
                     /\ n \in 1 .. Len(Pages[p]) /\ s \in Seq(Keys(p))
  BY ListerFacts DEF SendKey, IInv, TypeOK
<1>2. /\ lister[i].pc = "emit" /\ lister[i].prefix = p /\ lister[i].page = n /\ lister[i].rest = s
      /\ lister[i] # Gone /\ Ahead(lister[i]) = (Elems(s) \ Skip) \cup KeysFrom(p, n + 1)
  BY <1>1, EmitFacts
<1> DEFINE h == Head(s)
           tail == Tail(s)
           l == Emit(p, n, tail)
<1>3. /\ s # <<>> /\ lister' = [lister EXCEPT ![i].rest = tail]
      /\ h \notin Skip => Len(keyCh) < KeyChCap
      /\ keyCh' = IF h \in Skip THEN keyCh ELSE Append(keyCh, h)
      /\ UNCHANGED <<unfed, prefixClosed, keyClosed, fetching, fetchDone, got, scanned, errs, failed,
                      listErrs, missed, started, cancelled, result>>
  BY <1>2 DEF SendKey, fetchVars, run
<1>4. Once(s) /\ Elems(s) \cap KeysFrom(p, n + 1) = {}
  BY <1>2 DEF IInv, NoRepeats
<1>5. /\ h \in Keys(p) /\ tail \in Seq(Keys(p)) /\ Once(tail)
      /\ Elems(s) = {h} \cup Elems(tail) /\ h \notin Elems(tail)
  BY <1>1, <1>3, <1>4, TailFacts
<1> HIDE DEF h, tail
<1>6. /\ l.pc = "emit" /\ l.prefix = p /\ l.page = n /\ l.rest = tail
      /\ ListerOK(l) /\ l # Gone /\ Ahead(l) = (Elems(tail) \ Skip) \cup KeysFrom(p, n + 1)
  <2>1. /\ l.pc = "emit" /\ l.prefix = p /\ l.page = n /\ l.rest = tail /\ l # Gone
        /\ Ahead(l) = (Elems(tail) \ Skip) \cup KeysFrom(p, n + 1)
    BY EmitFacts
  <2>2. ListerOK(l)
    BY <1>1, <1>5, <2>1 DEF ListerOK
  <2> QED  BY <2>1, <2>2
<1>7. lister' = [lister EXCEPT ![i] = l]
  <2>1. [lister[i] EXCEPT !.rest = tail] = l
    BY <1>1 DEF Emit
  <2> QED  BY <1>3, <2>1
<1> HIDE DEF l
<1>8. Turns(i, l)
  BY <1>7, TurnsIs DEF IInv
<1>9. ASSUME h \in Skip PROVE TypeOK' /\ Apart' /\ Placed' /\ Once(keyCh')
  <2>1. Ahead(l) = Ahead(lister[i]) /\ keyCh' = keyCh
    BY <1>2, <1>3, <1>5, <1>6, <1>9
  <2>2. Apart' /\ Placed'
    BY <1>3, <1>7, <2>1, ListerGoesOn
  <2>3. TypeOK'
    BY <1>3, <1>6, <1>8, <2>1 DEF IInv, TypeOK, Turns, KeyChCap
  <2>4. Once(keyCh')
    BY <2>1 DEF IInv, NoRepeats
  <2> QED  BY <2>1, <2>2, <2>3, <2>4
<1>10. ASSUME h \notin Skip PROVE TypeOK' /\ Apart' /\ Placed' /\ Once(keyCh')
  <2>1. h \in Wanted /\ keyCh' = Append(keyCh, h) /\ keyCh \in Seq(Wanted) /\ Once(keyCh)
    BY <1>1, <1>3, <1>5, <1>10 DEF IInv, TypeOK, NoRepeats, Wanted, AllKeys
  <2>2. h \in Ahead(lister[i]) /\ h \notin Ahead(l) /\ Ahead(lister[i]) = Ahead(l) \cup {h}
    BY <1>2, <1>4, <1>5, <1>6, <1>10
  <2>3. h \notin Elems(keyCh)
    <3>1. Holds("ahead", i) \cap Holds("queued", None) = {}
      BY DEF IInv, Apart, Kind, Who
    <3> QED  BY <2>2, <3>1, Places
  <2>4. /\ keyCh' \in Seq(Wanted) /\ Once(keyCh') /\ Len(keyCh') = Len(keyCh) + 1
        /\ Elems(keyCh') = Elems(keyCh) \cup {h}
    BY <2>1, <2>3, AppendFacts
  <2>5. Moved({h}, "ahead", i, "queued", None)
    <3>1. \A u \in ListWorker : Holds("ahead", u)' = IF u = i THEN Holds("ahead", u) \ {h} ELSE Holds("ahead", u)
      BY <1>8, <2>2, Places DEF Turns
    <3>2. Holds("queued", None)' = Holds("queued", None) \cup {h} /\ h \in Holds("ahead", i)
      BY <2>2, <2>4, Places
    <3>3. \A c \in Kind \ {"ahead", "queued"} : \A u \in Who(c) : Holds(c, u)' = Holds(c, u)
      BY <1>3, Untouched DEF Kind
    <3> QED  BY <3>1, <3>2, <3>3 DEF Moved, Kind, Who
  <2>6. Apart' /\ Placed'
    BY <1>3, <2>5, MoveKeeps DEF IInv, Kind, Who
  <2>7. KeyChCap \in Nat /\ KeyChCap' = KeyChCap
    <3>1. IsFiniteSet(started)
      BY ScanAssumption, FS_Subset DEF IInv, Ends
    <3> QED  BY <1>3, <3>1, FS_CardinalityType DEF KeyChCap
  <2>8. Len(keyCh') <= KeyChCap'
    <3>1. Len(keyCh) \in Nat
      BY <2>1
    <3> QED  BY <1>3, <1>10, <2>4, <2>7, <3>1
  <2>9. TypeOK'
    BY <1>3, <1>6, <1>8, <2>4, <2>8 DEF IInv, TypeOK, Turns
  <2> QED  BY <2>4, <2>6, <2>9
<1>11. NoRepeats'
  <2>1. ASSUME NEW x \in ListWorker, lister'[x].pc = "emit"
        PROVE  /\ Once(lister'[x].rest)
               /\ Elems(lister'[x].rest) \cap KeysFrom(lister'[x].prefix, lister'[x].page + 1) = {}
    <3>1. CASE x = i
      BY <1>4, <1>5, <1>6, <1>8, <3>1 DEF Turns
    <3>2. CASE x # i
      BY <1>8, <2>1, <3>2 DEF IInv, NoRepeats, Turns
    <3> QED  BY <3>1, <3>2
  <2> QED  BY <1>9, <1>10, <2>1 DEF NoRepeats
<1>12. Ends'
  <2>1. ~keyClosed
    BY <1>2 DEF IInv, Ends, NoLister
  <2> QED  BY <1>2, <1>3, <1>6, <1>8, <2>1 DEF IInv, Ends, Turns, NoLister
<1>13. Told' /\ Counts'
  BY <1>3 DEF IInv, Told, Counts
<1> QED
  BY <1>9, <1>10, <1>11, <1>12, <1>13 DEF IInv

\* The other steps of a list worker.
LEMMA ListersKeep ==
  ASSUME IInv, NEW i \in ListWorker, Leave(i) \/ EndPage(i) \/ StopListing(i)
  PROVE  IInv'
<1>1. CASE EndPage(i) \/ StopListing(i)
  <2>1. PICK l : /\ lister' = [lister EXCEPT ![i] = l] /\ ListerOK(l) /\ l.pc # "emit"
                 /\ Ahead(l) = Ahead(lister[i])
                 /\ l = Gone \/ lister[i] # Gone
                 /\ l = Gone => prefixClosed
    <3>1. CASE EndPage(i)
      <4> DEFINE p == lister[i].prefix
                 n == lister[i].page
      <4>1. /\ lister[i].pc = "emit" /\ lister[i].rest = <<>> /\ p \in Prefix /\ n \in 1 .. Len(Pages[p])
            /\ lister' = [lister EXCEPT ![i] = After(p, n)] /\ lister[i] # Gone
        BY <3>1, ListerFacts DEF EndPage, IInv, TypeOK, Gone
      <4>2. /\ Len(Pages[p]) \in Nat /\ KeysFrom(p, Len(Pages[p]) + 1) = {}
        BY <4>1, PageFacts
      <4>3. Ahead(lister[i]) = KeysFrom(p, n + 1)
        BY <4>1 DEF Ahead, Elems
      <4> HIDE DEF p, n
      <4>4. CASE n < Len(Pages[p])
        <5>1. After(p, n) = List(p, n + 1) /\ n + 1 \in 1 .. Len(Pages[p])
          BY <4>1, <4>2, <4>4 DEF After
        <5>2. ListerOK(List(p, n + 1))
          BY <4>1, <5>1 DEF ListerOK
        <5>3. List(p, n + 1).pc = "list" /\ Ahead(List(p, n + 1)) = KeysFrom(p, n + 1) /\ List(p, n + 1) # Gone
          BY DEF List, Ahead, Gone
        <5>4. lister' = [lister EXCEPT ![i] = List(p, n + 1)]
          BY <4>1, <5>1
        <5>5. Ahead(List(p, n + 1)) = Ahead(lister[i]) /\ List(p, n + 1).pc # "emit"
          BY <4>3, <5>3
        <5> QED  BY <4>1, <5>2, <5>3, <5>4, <5>5
      <4>5. CASE ~(n < Len(Pages[p]))
        <5>1. After(p, n) = Idle /\ n = Len(Pages[p])
          BY <4>1, <4>2, <4>5 DEF After
        <5>2. ListerOK(Idle) /\ Idle.pc = "idle" /\ Ahead(Idle) = {} /\ Idle # Gone
          BY DEF ListerOK, Idle, Ahead, Gone
        <5>3. lister' = [lister EXCEPT ![i] = Idle]
          BY <4>1, <5>1
        <5>4. Ahead(Idle) = Ahead(lister[i]) /\ Idle.pc # "emit"
          BY <4>2, <4>3, <5>1, <5>2
        <5> QED  BY <4>1, <5>2, <5>3, <5>4
      <4> QED  BY <4>4, <4>5
    <3>2. CASE StopListing(i)
      <4>1. Ahead(Gone) = {} /\ Ahead(Idle) = {} /\ ListerOK(Gone) /\ Gone.pc = "done"
        BY DEF Ahead, Gone, Idle, ListerOK
      <4> QED  BY <3>2, <4>1 DEF StopListing
    <3> QED  BY <1>1, <3>1, <3>2
  <2>2. UNCHANGED <<unfed, prefixClosed, keyCh, keyClosed, fetching, fetchDone, got, scanned, errs, failed,
                    listErrs, missed, started, cancelled, result>>
    BY <1>1 DEF EndPage, StopListing, fetchVars, run
  <2>3. Turns(i, l) /\ Apart' /\ Placed'
    BY <2>1, <2>2, ListerGoesOn
  <2>4. TypeOK'
    BY <2>1, <2>2, <2>3 DEF IInv, TypeOK, Turns, KeyChCap
  <2>5. NoRepeats'
    BY <2>1, <2>2, <2>3 DEF IInv, NoRepeats, Turns
  <2>6. Ends'
    BY <2>1, <2>2, <2>3 DEF IInv, Ends, Turns, NoLister
  <2>7. Told' /\ Counts'
    BY <2>2 DEF IInv, Told, Counts
  <2> QED  BY <2>3, <2>4, <2>5, <2>6, <2>7 DEF IInv
<1>2. CASE Leave(i)
  <2>1. /\ cancelled /\ lister[i].pc = "emit" /\ lister' = [lister EXCEPT ![i] = Gone]
        /\ UNCHANGED <<unfed, prefixClosed, keyCh, keyClosed, fetching, fetchDone, got, scanned, errs, failed,
                        listErrs, missed, started, cancelled, result>>
    BY <1>2 DEF Leave, fetchVars, run
  <2>2. Turns(i, Gone) /\ ListerOK(Gone) /\ Gone.pc = "done" /\ Ahead(Gone) = {} /\ lister[i] # Gone
    <3>1. Turns(i, Gone)
      BY <2>1, TurnsIs DEF IInv
    <3>2. ListerOK(Gone) /\ Gone.pc = "done" /\ Ahead(Gone) = {}
      BY DEF ListerOK, Gone, Ahead
    <3> QED  BY <2>1, <3>1, <3>2
  <2>3. result # "ok"
    BY <2>2 DEF IInv, Ends, NoLister
  <2>4. Apart' /\ Placed'
    <3>1. \A u \in ListWorker : Holds("ahead", u)' \subseteq Holds("ahead", u)
      BY <2>2, Places DEF Turns
    <3>2. \A c \in Kind \ {"ahead"} : \A u \in Who(c) : Holds(c, u)' = Holds(c, u)
      BY <2>1, Untouched DEF Kind
    <3> QED  BY <2>1, <2>3, <3>1, <3>2, DropKeeps DEF IInv, Kind, Who
  <2>5. TypeOK'
    BY <2>1, <2>2 DEF IInv, TypeOK, Turns, KeyChCap
  <2>6. NoRepeats'
    BY <2>1, <2>2 DEF IInv, NoRepeats, Turns
  <2>7. Ends'
    BY <2>1, <2>2, <2>3 DEF IInv, Ends, Turns, NoLister
  <2>8. Told' /\ Counts'
    BY <2>1 DEF IInv, Told, Counts
  <2> QED  BY <2>4, <2>5, <2>6, <2>7, <2>8 DEF IInv
<1> QED
  BY <1>1, <1>2

\* A fetch worker takes a key off keyCh, or drops it when the scan is cancelled.
LEMMA ReceiveKeeps ==
  ASSUME IInv, NEW j \in FetchWorker, Receive(j)
  PROVE  IInv'
<1> DEFINE h == Head(keyCh)
<1>1. /\ j \notin fetchDone /\ fetching[j] = None /\ keyCh # <<>> /\ keyCh' = Tail(keyCh)
      /\ cancelled => fetchDone' = fetchDone \cup {j} /\ fetching' = fetching
      /\ ~cancelled => fetching' = [fetching EXCEPT ![j] = h] /\ fetchDone' = fetchDone
      /\ UNCHANGED <<unfed, prefixClosed, lister, keyClosed, got, scanned, errs, failed,
                      listErrs, missed, started, cancelled, result>>
  BY DEF Receive, listVars, run
<1>2. /\ keyCh \in Seq(Wanted) /\ h \in Wanted /\ keyCh' \in Seq(Wanted) /\ Once(keyCh')
      /\ Len(keyCh') = Len(keyCh) - 1 /\ Len(keyCh) \in Nat
      /\ Elems(keyCh) = {h} \cup Elems(keyCh') /\ h \notin Elems(keyCh')
  BY <1>1, TailFacts DEF IInv, TypeOK, NoRepeats
<1>3. h # None
  BY <1>2, ScanAssumption DEF Wanted
<1> HIDE DEF h
<1>4. result = "none" /\ fetching \in [FetchWorker -> Wanted \cup {None}]
  BY <1>1 DEF IInv, Ends, TypeOK
<1>5. Apart' /\ Placed'
  <2>1. CASE cancelled
    <3>1. \A c \in Kind : \A u \in Who(c) : Holds(c, u)' \subseteq Holds(c, u)
      BY <1>1, <1>2, <2>1, Places DEF Kind
    <3> QED  BY <1>1, <1>4, <2>1, <3>1, DropKeeps DEF IInv
  <2>2. CASE ~cancelled
    <3>1. Moved({h}, "queued", None, "fetching", j)
      <4>1. Holds("queued", None)' = Holds("queued", None) \ {h} /\ h \in Holds("queued", None)
        BY <1>2, Places
      <4>2. \A u \in FetchWorker : Holds("fetching", u)' = IF u = j THEN {h} ELSE Holds("fetching", u)
        <5>1. \A u \in FetchWorker : fetching'[u] = IF u = j THEN h ELSE fetching[u]
          BY <1>1, <1>4, <2>2
        <5>2. \A u \in FetchWorker : {fetching'[u]} \ {None} = IF u = j THEN {h} ELSE {fetching[u]} \ {None}
          BY <1>3, <5>1
        <5> QED  BY <5>2, Places
      <4>3. Holds("fetching", j) = {}
        BY <1>1, Places
      <4>4. \A c \in Kind \ {"queued", "fetching"} : \A u \in Who(c) : Holds(c, u)' = Holds(c, u)
        BY <1>1, Untouched DEF Kind
      <4> QED  BY <4>1, <4>2, <4>3, <4>4 DEF Moved, Kind, Who
    <3> QED  BY <1>1, <3>1, MoveKeeps DEF IInv, Kind, Who
  <2> QED  BY <2>1, <2>2
<1>6. TypeOK'
  <2>1. KeyChCap' = KeyChCap
    BY <1>1 DEF KeyChCap
  <2>2. Len(keyCh') <= KeyChCap'
    <3>1. IsFiniteSet(started)
      BY ScanAssumption, FS_Subset DEF IInv, Ends
    <3>2. KeyChCap \in Nat
      BY <3>1, FS_CardinalityType DEF KeyChCap
    <3> QED  BY <1>2, <2>1, <3>2 DEF IInv, TypeOK
  <2>3. fetching' \in [FetchWorker -> Wanted \cup {None}]
    BY <1>1, <1>2, <1>4
  <2> QED  BY <1>1, <1>2, <2>2, <2>3 DEF IInv, TypeOK
<1>7. NoRepeats'
  BY <1>1, <1>2 DEF IInv, NoRepeats
<1>8. Ends'
  BY <1>1, <1>4 DEF IInv, Ends, NoLister
<1>9. Told' /\ Counts'
  BY <1>1 DEF IInv, Told, Counts
<1> QED
  BY <1>5, <1>6, <1>7, <1>8, <1>9 DEF IInv

\* An object is read: its key is counted, by one worker and once.
LEMMA FetchReadsKeeps ==
  ASSUME IInv, NEW j \in FetchWorker, NEW bad \in BOOLEAN, FetchReads(j, bad)
  PROVE  IInv'
<1> DEFINE k == fetching[j]
<1>1. /\ k # None /\ fetching' = [fetching EXCEPT ![j] = None]
      /\ got' = [got EXCEPT ![j] = @ \cup {k}] /\ scanned' = [scanned EXCEPT ![j] = @ + 1]
      /\ errs' = IF bad THEN MoreErrs(j) ELSE errs
      /\ UNCHANGED <<unfed, prefixClosed, lister, keyCh, keyClosed, fetchDone, failed,
                      listErrs, missed, started, cancelled, result>>
  BY DEF FetchReads, listVars, run
<1>2. /\ k \in Wanted /\ fetching \in [FetchWorker -> Wanted \cup {None}] /\ got \in [FetchWorker -> SUBSET Wanted]
      /\ scanned \in [FetchWorker -> Nat] /\ errs \in [FetchWorker -> 0 .. MaxErrs]
  BY <1>1 DEF IInv, TypeOK
<1> HIDE DEF k
<1>3. k \in Holds("fetching", j) /\ k \notin got[j]
  <2>1. Holds("fetching", j) = {k}
    BY <1>1, Places DEF k
  <2>2. Holds("fetching", j) \cap Holds("got", j) = {}
    BY DEF IInv, Apart, Kind, Who
  <2> QED  BY <2>1, <2>2, Places
<1>4. Moved({k}, "fetching", j, "got", j)
  <2>1. Holds("fetching", j) = {k}
    BY <1>1, Places DEF k
  <2>2. \A u \in FetchWorker : Holds("fetching", u)' = IF u = j THEN {} ELSE Holds("fetching", u)
    BY <1>1, <1>2, Places
  <2>3. \A u \in FetchWorker : Holds("got", u)' = IF u = j THEN Holds("got", u) \cup {k} ELSE Holds("got", u)
    BY <1>1, <1>2, Places
  <2>4. \A c \in Kind \ {"fetching", "got"} : \A u \in Who(c) : Holds(c, u)' = Holds(c, u)
    BY <1>1, Untouched DEF Kind
  <2> QED  BY <2>1, <2>2, <2>3, <2>4 DEF Moved, Kind, Who
<1>5. Apart' /\ Placed'
  BY <1>1, <1>4, MoveKeeps DEF IInv, Kind, Who
<1>6. errs' \in [FetchWorker -> 0 .. MaxErrs] /\ \A l \in FetchWorker : errs[l] > 0 => errs'[l] > 0
  BY <1>1, <1>2, ScanAssumption DEF MoreErrs
<1>7. TypeOK'
  BY <1>1, <1>2, <1>6 DEF IInv, TypeOK, KeyChCap
<1>8. NoRepeats'
  BY <1>1 DEF IInv, NoRepeats
<1>9. Ends'
  BY <1>1, <1>2 DEF IInv, Ends, NoLister
<1>10. Told'
  BY <1>1, <1>6 DEF IInv, Told
<1>11. Counts'
  <2>1. IsFiniteSet(got[j] \cup {k}) /\ Cardinality(got[j] \cup {k}) = Cardinality(got[j]) + 1
    BY <1>3, FS_AddElement DEF IInv, Counts
  <2>2. \A l \in FetchWorker : /\ got'[l] = IF l = j THEN got[j] \cup {k} ELSE got[l]
                               /\ scanned'[l] = IF l = j THEN scanned[j] + 1 ELSE scanned[l]
    BY <1>1, <1>2
  <2> QED  BY <2>1, <2>2 DEF IInv, Counts
<1> QED
  BY <1>5, <1>7, <1>8, <1>9, <1>10, <1>11 DEF IInv

\* An object is not read: the key failed, and an error says so.
LEMMA FetchFailsKeeps ==
  ASSUME IInv, NEW j \in FetchWorker, FetchFails(j)
  PROVE  IInv'
<1> DEFINE k == fetching[j]
<1>1. /\ k # None /\ fetching' = [fetching EXCEPT ![j] = None]
      /\ failed' = failed \cup {k} /\ errs' = MoreErrs(j)
      /\ UNCHANGED <<unfed, prefixClosed, lister, keyCh, keyClosed, fetchDone, got, scanned,
                      listErrs, missed, started, cancelled, result>>
  BY DEF FetchFails, listVars, run
<1>2. /\ k \in Wanted /\ fetching \in [FetchWorker -> Wanted \cup {None}]
      /\ errs \in [FetchWorker -> 0 .. MaxErrs]
  BY <1>1 DEF IInv, TypeOK
<1> HIDE DEF k
<1>3. Moved({k}, "fetching", j, "failed", None)
  <2>1. Holds("fetching", j) = {k}
    BY <1>1, Places DEF k
  <2>2. \A u \in FetchWorker : Holds("fetching", u)' = IF u = j THEN {} ELSE Holds("fetching", u)
    BY <1>1, <1>2, Places
  <2>3. Holds("failed", None)' = Holds("failed", None) \cup {k}
    BY <1>1, Places
  <2>4. \A c \in Kind \ {"fetching", "failed"} : \A u \in Who(c) : Holds(c, u)' = Holds(c, u)
    BY <1>1, Untouched DEF Kind
  <2> QED  BY <2>1, <2>2, <2>3, <2>4 DEF Moved, Kind, Who
<1>4. Apart' /\ Placed'
  BY <1>1, <1>3, MoveKeeps DEF IInv, Kind, Who
<1>5. errs' \in [FetchWorker -> 0 .. MaxErrs] /\ errs'[j] > 0
  BY <1>1, <1>2, ScanAssumption DEF MoreErrs
<1>6. TypeOK'
  BY <1>1, <1>2, <1>5 DEF IInv, TypeOK, KeyChCap
<1>7. NoRepeats'
  BY <1>1 DEF IInv, NoRepeats
<1>8. Ends'
  BY <1>1, <1>2 DEF IInv, Ends, NoLister
<1>9. Told' /\ Counts'
  BY <1>1, <1>5 DEF IInv, Told, Counts
<1> QED
  BY <1>4, <1>6, <1>7, <1>8, <1>9 DEF IInv

\* When the fetch workers of an uncancelled scan have returned, everything was fed,
\* listed and taken off keyCh.
LEMMA LastKeyIsOut ==
  ASSUME IInv, fetchDone = FetchWorker, ~cancelled
  PROVE  keyClosed /\ keyCh = <<>> /\ unfed = {}
<1>1. PICK j \in started : j \in FetchWorker
  BY ScanAssumption DEF IInv, Ends
<1>2. keyClosed /\ keyCh = <<>>
  BY <1>1 DEF IInv, Ends
<1>3. PICK i \in ListWorker : lister[i] = Gone
  BY <1>2, ScanAssumption DEF IInv, Ends, NoLister
<1> QED
  BY <1>2, <1>3 DEF IInv, Ends

\* The scan returns. It returns without error only after the last key, because
\* a fetch worker of an uncancelled scan returns only then.
LEMMA ReturnKeeps ==
  ASSUME IInv, Return
  PROVE  IInv'
<1>1. /\ result = "none" /\ fetchDone = FetchWorker /\ result' = IF cancelled THEN "error" ELSE "ok"
      /\ UNCHANGED <<unfed, prefixClosed, lister, keyCh, keyClosed, fetching, fetchDone, got, scanned, errs,
                      failed, listErrs, missed, started, cancelled>>
  BY DEF Return, WorkersIn, listVars, fetchVars, run
<1>2. ~cancelled => keyClosed /\ keyCh = <<>> /\ unfed = {}
  BY <1>1, LastKeyIsOut
<1>3. \A c \in Kind : \A u \in Who(c) : Holds(c, u)' = Holds(c, u)
  BY <1>1, Untouched DEF Kind
<1>4. Apart' /\ Placed'
  BY <1>1, <1>3, StandKeeps DEF IInv
<1>5. TypeOK'
  BY <1>1 DEF IInv, TypeOK, KeyChCap
<1>6. NoRepeats'
  BY <1>1 DEF IInv, NoRepeats
<1>7. Ends'
  BY <1>1, <1>2 DEF IInv, Ends, NoLister
<1>8. Told' /\ Counts'
  BY <1>1 DEF IInv, Told, Counts
<1> QED
  BY <1>4, <1>5, <1>6, <1>7, <1>8 DEF IInv

\* The steps that move no key, and a stutter.
LEMMA OthersKeep ==
  ASSUME IInv, Cancel \/ StopFeeding \/ CloseKeys \/ (\E j \in FetchWorker : Drained(j)) \/ UNCHANGED vars
  PROVE  IInv'
<1>1. UNCHANGED <<unfed, lister, keyCh, fetching, got, scanned, errs, failed, listErrs, missed, started, result>>
  BY DEF Cancel, StopFeeding, CloseKeys, Drained, vars, listVars, fetchVars, run
<1>2. /\ cancelled' = cancelled \/ cancelled' = TRUE
      /\ fetchDone' \subseteq FetchWorker /\ fetchDone \subseteq fetchDone'
      /\ prefixClosed' \in BOOLEAN /\ keyClosed' \in BOOLEAN
  BY DEF Cancel, StopFeeding, CloseKeys, Drained, vars, listVars, fetchVars, run, IInv, TypeOK
<1>3. \A c \in Kind : \A u \in Who(c) : Holds(c, u)' = Holds(c, u)
  BY <1>1, Untouched DEF Kind
<1>4. Apart' /\ Placed'
  BY <1>1, <1>2, <1>3, StandKeeps DEF IInv, TypeOK
<1>5. TypeOK'
  BY <1>1, <1>2 DEF IInv, TypeOK, KeyChCap
<1>6. NoRepeats'
  BY <1>1 DEF IInv, NoRepeats
<1>7. Ends'
  <2>1. CASE Cancel
    BY <2>1 DEF Cancel, listVars, fetchVars, IInv, Ends, NoLister
  <2>2. CASE StopFeeding
    BY <2>2 DEF StopFeeding, fetchVars, run, IInv, Ends, NoLister
  <2>3. CASE CloseKeys
    BY <2>3 DEF CloseKeys, listVars, fetchVars, run, IInv, Ends, NoLister
  <2>4. ASSUME NEW j \in FetchWorker, Drained(j) PROVE Ends'
    BY <2>4 DEF Drained, listVars, run, IInv, Ends, NoLister
  <2>5. CASE UNCHANGED vars
    BY <2>5 DEF vars, listVars, fetchVars, run, IInv, Ends, NoLister
  <2> QED  BY <2>1, <2>2, <2>3, <2>4, <2>5
<1>8. Told' /\ Counts'
  BY <1>1 DEF IInv, Told, Counts
<1> QED
  BY <1>4, <1>5, <1>6, <1>7, <1>8 DEF IInv

\* It holds at the start: every wanted key is in a prefix not fed yet.
LEMMA Start == Init => IInv
<1> SUFFICES ASSUME Init PROVE IInv
  OBVIOUS
<1> USE DEF Init
<1>1. started \subseteq FetchWorker
  BY ScanAssumption
<1>2. TypeOK
  <2>1. KeyChCap \in Nat
    BY <1>1, ScanAssumption, FS_Subset, FS_CardinalityType DEF KeyChCap
  <2>2. keyCh \in Seq(Wanted) /\ Len(keyCh) <= KeyChCap
    BY <2>1
  <2>3. DOMAIN lister = ListWorker /\ \A i \in ListWorker : ListerOK(lister[i])
    BY DEF ListerOK
  <2>4. errs \in [FetchWorker -> 0 .. MaxErrs] /\ listErrs \in 0 .. MaxErrs
    BY ScanAssumption
  <2>5. /\ fetching \in [FetchWorker -> Wanted \cup {None}] /\ got \in [FetchWorker -> SUBSET Wanted]
        /\ scanned \in [FetchWorker -> Nat]
        /\ FetchWorker \ started \subseteq fetchDone /\ fetchDone \subseteq FetchWorker
        /\ unfed \subseteq Prefix /\ missed \subseteq Wanted /\ failed \subseteq Wanted
    OBVIOUS
  <2> QED  BY <2>2, <2>3, <2>4, <2>5 DEF TypeOK
<1>3. /\ \A i \in ListWorker : lister[i] = Idle /\ lister[i].pc = "idle" /\ Ahead(lister[i]) = {}
      /\ Idle # Gone /\ Elems(keyCh) = {}
  BY DEF Idle, Gone, Ahead, Elems
<1>4. \A c \in Kind \ {"unfed"} : \A u \in Who(c) : Holds(c, u) = {}
  BY <1>3, Places DEF Kind, Who
<1>5. Holds("unfed", None) = Wanted
  BY Places DEF Wanted, AllKeys
<1>6. Apart
  <2> SUFFICES ASSUME NEW c \in Kind, NEW d \in Kind, NEW t \in Who(c), NEW u \in Who(d), c # d \/ t # u
               PROVE  Holds(c, t) \cap Holds(d, u) = {}
    BY DEF Apart
  <2>1. c # "unfed" \/ d # "unfed"
    BY DEF Who
  <2> QED  BY <1>4, <2>1
<1>7. Placed
  BY <1>5 DEF Placed, Kind, Who
<1>8. NoRepeats
  BY <1>3 DEF NoRepeats, Once
<1>9. Ends
  BY <1>3, ScanAssumption DEF Ends
<1>10. Told /\ Counts
  BY FS_EmptySet DEF Told, Counts
<1> QED
  BY <1>2, <1>6, <1>7, <1>8, <1>9, <1>10 DEF IInv

\* Every step keeps the invariant.
LEMMA StepKeeps == IInv /\ [Next]_vars => IInv'
<1> SUFFICES ASSUME IInv, [Next]_vars PROVE IInv'
  OBVIOUS
<1>1. CASE Feeder
  BY <1>1, FeedKeeps, OthersKeep DEF Feeder
<1>2. ASSUME NEW i \in ListWorker, ListStep(i) PROVE IInv'
  BY <1>2, ListPageKeeps, ListPageFailsKeeps, SendKeyKeeps, ListersKeep DEF ListStep
<1>3. ASSUME NEW j \in FetchWorker, FetchStep(j) PROVE IInv'
  BY <1>3, ReceiveKeeps, FetchReadsKeeps, FetchFailsKeeps, OthersKeep DEF FetchStep
<1>4. CASE Return
  BY <1>4, ReturnKeeps
<1>5. CASE Cancel \/ CloseKeys \/ Stop \/ UNCHANGED vars
  BY <1>5, OthersKeep DEF Stop
<1> QED
  BY <1>1, <1>2, <1>3, <1>4, <1>5 DEF Next

\* Hence it holds throughout a scan.
LEMMA Invariance == Spec => []IInv
  BY Start, StepKeeps, PTL DEF Spec
-----------------------------------------------------------------------------
\* The state of a scan stays within its types, keyCh within its capacity and
\* every error slice within maxRecordedErrors (generic in engine/scan.go).
THEOREM TypesHold == Spec => []TypeOK
  BY Invariance, PTL DEF IInv

\* No object is counted twice, however the keys are spread over the fetch
\* workers: objectsScanned is the number of distinct keys read.
THEOREM EachScannedOnce == Spec => []ScannedOnce
<1>1. IInv => ScannedOnce
  <2> SUFFICES ASSUME IInv, NEW j \in FetchWorker, NEW l \in FetchWorker
               PROVE  /\ scanned[j] = Cardinality(got[j])
                      /\ j # l => got[j] \cap got[l] = {}
    BY DEF ScannedOnce
  <2>1. j # l => Holds("got", j) \cap Holds("got", l) = {}
    BY DEF IInv, Apart, Kind, Who
  <2> QED  BY <2>1, Places DEF IInv, Counts
<1> QED
  BY <1>1, Invariance, PTL

\* Nobody sends on keyCh once it is closed (close(keyCh) after listWG.Wait).
THEOREM NobodySendsOnClosed == Spec => []NoSendOnClosed
<1>1. IInv => NoSendOnClosed
  BY DEF IInv, Ends, NoLister, Gone, NoSendOnClosed
<1> QED
  BY <1>1, Invariance, PTL

\* Every wanted key is read or given up when the workers of an uncancelled scan
\* have returned, also if the context ends after the scan.
LEMMA NothingLeft ==
  ASSUME IInv, fetchDone = FetchWorker, result = "ok" \/ ~cancelled
  PROVE  Wanted \subseteq GotKeys \cup missed \cup failed
<1>1. NoLister /\ unfed = {} /\ keyCh = <<>> /\ \A j \in FetchWorker : fetching[j] = None
  BY LastKeyIsOut DEF IInv, Ends
<1>2. /\ \A w : Holds("unfed", w) = {} /\ Holds("queued", w) = {}
      /\ \A w \in ListWorker : Holds("ahead", w) = {}
      /\ \A w \in FetchWorker : Holds("fetching", w) = {}
  BY <1>1, Places DEF NoLister, Gone, Ahead, Elems
<1> SUFFICES ASSUME NEW k \in Wanted PROVE k \in GotKeys \cup missed \cup failed
  OBVIOUS
<1>3. PICK c \in Kind : \E w \in Who(c) : k \in Holds(c, w)
  BY DEF IInv, Placed
<1>4. PICK w \in Who(c) : k \in Holds(c, w)
  BY <1>3
<1>5. c \in {"got", "failed", "missed"}
  BY <1>2, <1>4 DEF Kind, Who
<1> QED
  BY <1>4, <1>5, Places DEF GotKeys, Who

\* What was given up was reported: errs and listErrs are never empty then.
LEMMA GivenUpIsTold ==
  ASSUME IInv, missed \cup failed # {}
  PROVE  Errors
  BY DEF IInv, Told, Errors

\* A scan that returns nil and has collected no error has read every object it
\* was to read: none is lost between the listing, keyCh and the fetch workers.
THEOREM CleanScanIsComplete == Spec => []CleanIsComplete
<1>1. IInv => CleanIsComplete
  <2> SUFFICES ASSUME IInv, result = "ok", ~Errors PROVE GotKeys = Wanted
    BY DEF CleanIsComplete
  <2>1. GotKeys \subseteq Wanted
    BY DEF IInv, TypeOK, GotKeys
  <2>2. missed = {} /\ failed = {}
    BY GivenUpIsTold
  <2>3. fetchDone = FetchWorker
    BY DEF IInv, Ends
  <2> QED  BY <2>1, <2>2, <2>3, NothingLeft
<1> QED
  BY <1>1, Invariance, PTL

\* Once scan has returned no shard changes any more, so that the caller may
\* close its sinks (the fetch workers are waited for even by a cancelled scan).
THEOREM QuietAfterwards == Spec => QuietAfterReturn
<1>1. IInv /\ [Next]_vars => [result # "none" => UNCHANGED <<got, scanned, errs, failed>>]_vars
  <2> SUFFICES ASSUME IInv, [Next]_vars, result # "none"
               PROVE  UNCHANGED <<got, scanned, errs, failed>>
    OBVIOUS
  <2>1. \A j \in FetchWorker : j \in fetchDone /\ fetching[j] = None
    BY DEF IInv, Ends
  <2>2. ASSUME NEW j \in FetchWorker, FetchStep(j) PROVE FALSE
    BY <2>1, <2>2 DEF FetchStep, Receive, Drained, FetchFails, FetchReads
  <2>3. ASSUME NEW i \in ListWorker, ListStep(i) PROVE UNCHANGED fetchVars
    BY <2>3 DEF ListStep, ListPage, ListPageFails, SendKey, Leave, EndPage, StopListing
  <2>4. CASE Feeder \/ Cancel \/ CloseKeys \/ Return \/ Stop \/ UNCHANGED vars
    BY <2>4 DEF Feeder, Feed, StopFeeding, Cancel, CloseKeys, Return, Stop, vars, fetchVars
  <2> QED  BY <2>2, <2>3, <2>4 DEF Next, fetchVars
<1> QED
  BY <1>1, Invariance, PTL DEF Spec, QuietAfterReturn
-----------------------------------------------------------------------------
\* A step that gives up keys is one of the abstract scan.
LEMMA GivesUp ==
  ASSUME IInv, result # "ok", NEW K \in SUBSET Wanted, K \cap (GotKeys \cup missed \cup failed) = {},
         missed' \cup failed' = (missed \cup failed) \cup K, Errors',
         UNCHANGED <<GotKeys, cancelled, result>>
  PROVE  SweepOf!GiveUp
<1>1. K \in SUBSET SweepOf!Left
  BY DEF SweepOf!Left
<1> QED
  BY <1>1 DEF SweepOf!GiveUp

\* Every step of a scan is one of the abstract scan, or none.
LEMMA StepSweeps == IInv /\ IInv' /\ [Next]_vars => [SweepOf!Next]_(SweepOf!sweepVars)
<1> SUFFICES ASSUME IInv, IInv', [Next]_vars PROVE [SweepOf!Next]_(SweepOf!sweepVars)
  OBVIOUS
<1>1. /\ GotKeys \subseteq Wanted
      /\ Errors \in BOOLEAN
      /\ UNCHANGED got => UNCHANGED GotKeys
      /\ UNCHANGED <<errs, listErrs>> => UNCHANGED Errors
  BY DEF IInv, TypeOK, GotKeys, Errors
<1>2. CASE Cancel
  <2>1. cancelled' = TRUE /\ UNCHANGED <<GotKeys, missed \cup failed, Errors, result>>
    BY <1>1, <1>2 DEF Cancel, listVars, fetchVars
  <2> QED  BY <2>1 DEF SweepOf!Next, SweepOf!Cancel
<1>3. CASE Return
  <2>1. /\ result = "none" /\ result' = IF cancelled THEN "error" ELSE "ok"
        /\ UNCHANGED <<GotKeys, missed \cup failed, Errors, cancelled>> /\ UNCHANGED <<got, missed, failed>>
    BY <1>1, <1>3 DEF Return, listVars, fetchVars, run
  <2>2. result' = "ok" => SweepOf!Left = {}
    <3> SUFFICES ASSUME result' = "ok" PROVE Wanted \subseteq GotKeys \cup missed \cup failed
      BY DEF SweepOf!Left
    <3> QED  BY <1>3, <2>1, NothingLeft DEF Return, WorkersIn
  <2> QED  BY <2>1, <2>2 DEF SweepOf!Next, SweepOf!Return
<1>4. ASSUME NEW i \in ListWorker, ListPageFails(i) PROVE SweepOf!GiveUp
  <2> DEFINE K == KeysFrom(lister[i].prefix, lister[i].page)
  <2>1. /\ lister[i].pc = "list" /\ missed' = missed \cup K
        /\ UNCHANGED <<GotKeys, failed, cancelled, result>>
    BY <1>1, <1>4 DEF ListPageFails, fetchVars, run
  <2>2. result # "ok"
    BY <2>1 DEF IInv, Ends, NoLister, Gone
  <2>3. Ahead(lister[i]) = K
    BY <2>1 DEF Ahead
  <2>4. K \in SUBSET Wanted
    BY <2>1 DEF IInv, TypeOK
  <2>5. K \cap (GotKeys \cup missed \cup failed) = {}
    <3>1. /\ \A j \in FetchWorker : Holds("ahead", i) \cap Holds("got", j) = {}
          /\ Holds("ahead", i) \cap Holds("missed", None) = {}
          /\ Holds("ahead", i) \cap Holds("failed", None) = {}
      BY DEF IInv, Apart, Kind, Who
    <3> QED  BY <2>3, <3>1, Places DEF GotKeys
  <2>6. Errors'
    <3>1. listErrs' > 0
      BY <1>4, ScanAssumption DEF ListPageFails, IInv, TypeOK
    <3> QED  BY <3>1 DEF Errors
  <2> QED  BY <2>1, <2>2, <2>4, <2>5, <2>6, GivesUp
<1>5. ASSUME NEW j \in FetchWorker, FetchFails(j) PROVE SweepOf!GiveUp
  <2> DEFINE k == fetching[j]
  <2>1. /\ k # None /\ failed' = failed \cup {k} /\ UNCHANGED <<GotKeys, missed, cancelled, result>>
    BY <1>1, <1>5 DEF FetchFails, listVars, run
  <2>2. result # "ok" /\ k \in Wanted
    BY <2>1 DEF IInv, Ends, TypeOK
  <2>3. k \notin GotKeys /\ k \notin missed /\ k \notin failed
    <3>1. /\ \A l \in FetchWorker : Holds("fetching", j) \cap Holds("got", l) = {}
          /\ Holds("fetching", j) \cap Holds("missed", None) = {}
          /\ Holds("fetching", j) \cap Holds("failed", None) = {}
      BY DEF IInv, Apart, Kind, Who
    <3>2. k \in Holds("fetching", j)
      BY <2>1, Places
    <3> QED  BY <3>1, <3>2, Places DEF GotKeys
  <2>4. Errors'
    <3>1. errs'[j] > 0
      BY <1>5, ScanAssumption DEF FetchFails, MoreErrs, IInv, TypeOK
    <3> QED  BY <3>1 DEF Errors
  <2> HIDE DEF k
  <2>5. /\ {k} \in SUBSET Wanted /\ {k} \cap (GotKeys \cup missed \cup failed) = {}
        /\ missed' \cup failed' = (missed \cup failed) \cup {k}
    BY <2>1, <2>2, <2>3
  <2> QED  BY <2>1, <2>2, <2>4, <2>5, GivesUp
<1>6. ASSUME NEW j \in FetchWorker, NEW bad \in BOOLEAN, FetchReads(j, bad) PROVE SweepOf!Read
  <2> DEFINE k == fetching[j]
  <2>1. /\ k # None /\ got' = [got EXCEPT ![j] = @ \cup {k}]
        /\ errs' = IF bad THEN MoreErrs(j) ELSE errs
        /\ UNCHANGED <<listErrs, missed, failed, cancelled, result>>
    BY <1>6 DEF FetchReads, listVars, run
  <2>2. result = "none" /\ k \in Wanted
    BY <2>1 DEF IInv, Ends, TypeOK
  <2>3. k \notin GotKeys /\ k \notin missed /\ k \notin failed
    <3>1. /\ \A l \in FetchWorker : Holds("fetching", j) \cap Holds("got", l) = {}
          /\ Holds("fetching", j) \cap Holds("missed", None) = {}
          /\ Holds("fetching", j) \cap Holds("failed", None) = {}
      BY DEF IInv, Apart, Kind, Who
    <3>2. k \in Holds("fetching", j)
      BY <2>1, Places
    <3> QED  BY <3>1, <3>2, Places DEF GotKeys
  <2> HIDE DEF k
  <2>4. GotKeys' = GotKeys \cup {k}
    <3>1. \A l \in FetchWorker : got'[l] = IF l = j THEN got[l] \cup {k} ELSE got[l]
      BY <2>1 DEF IInv, TypeOK
    <3> QED  BY <3>1 DEF GotKeys
  <2>5. Errors' \in {Errors, TRUE}
    <3>1. CASE bad
      <4>1. errs'[j] > 0
        BY <2>1, <3>1, ScanAssumption DEF MoreErrs, IInv, TypeOK
      <4> QED  BY <4>1 DEF Errors
    <3>2. CASE ~bad
      BY <2>1, <3>2 DEF Errors
    <3> QED  BY <3>1, <3>2
  <2>6. k \in SweepOf!Left
    BY <2>2, <2>3 DEF SweepOf!Left
  <2> QED  BY <2>1, <2>2, <2>4, <2>5, <2>6 DEF SweepOf!Read
<1>7. ASSUME UNCHANGED <<got, errs, listErrs, missed, failed, cancelled, result>> PROVE UNCHANGED SweepOf!sweepVars
  <2>1. UNCHANGED <<GotKeys, Errors, missed \cup failed, cancelled, result>>
    BY <1>1, <1>7
  <2> QED  BY <2>1 DEF SweepOf!sweepVars
<1>8. CASE Feeder \/ CloseKeys \/ Stop \/ UNCHANGED vars
  BY <1>7, <1>8 DEF Feeder, Feed, StopFeeding, CloseKeys, Stop, vars, listVars, fetchVars, run
<1>9. ASSUME NEW i \in ListWorker, ListStep(i) PROVE [SweepOf!Next]_(SweepOf!sweepVars)
  BY <1>4, <1>7, <1>9 DEF SweepOf!Next, ListStep, ListPage, SendKey, Leave, EndPage, StopListing, fetchVars, run
<1>10. ASSUME NEW j \in FetchWorker, FetchStep(j) PROVE [SweepOf!Next]_(SweepOf!sweepVars)
  BY <1>5, <1>6, <1>7, <1>10 DEF SweepOf!Next, FetchStep, Receive, Drained, listVars, run
<1> QED
  BY <1>2, <1>3, <1>8, <1>9, <1>10 DEF Next, SweepOf!Next

\* A scan keeps the promise that Serve takes for granted: every wanted key is
\* read or given up with an error, and only a cancelled scan fails.
THEOREM ScanIsSweep == Spec => ImplementsSweep
<1>1. Init => SweepOf!Init
  BY DEF Init, SweepOf!Init, GotKeys, Errors
<1> QED
  BY <1>1, StepSweeps, Invariance, PTL DEF Spec, ImplementsSweep, SweepOf!Spec
-----------------------------------------------------------------------------
(***************************************************************************)
(* The detectors, for every number of workers, cap and bound. One          *)
(* predicate, Good(d, r), says of a detector d and the findings r it has   *)
(* counted but not yet decided on that nothing is lost. The steps of the   *)
(* code keep it: counting a hit puts it into r, retain takes it out of r,  *)
(* and absorbing a shard puts all that the shard retained into r.          *)
(***************************************************************************)
Accounted(d, r) == Size(d.found) + Size(r) + d.dropped = Size(d.counts)
Top(d, r) == \A s \in Severity :
               Least(cap, AtLeast(d.found, s) + AtLeast(r, s)) = Least(cap, AtLeast(d.counts, s))
SeesAll(d) == /\ d.seen <=> Size(d.counts) > 0
              /\ d.seen => /\ d.counts[d.maxSeverity] > 0
                           /\ \A s \in Severity : d.counts[s] > 0 => s <= d.maxSeverity
Cached(d) == d.minCached => /\ Size(d.found) = cap
                            /\ d.found[d.minSev] > 0
                            /\ \A s \in Severity : s < d.minSev => d.found[s] = 0

Good(d, r) == /\ d \in Detector /\ r \in Bag
              /\ Size(d.found) <= cap
              /\ Accounted(d, r) /\ Top(d, r) /\ SeesAll(d) /\ Cached(d)
-----------------------------------------------------------------------------
\* cap() is positive.
LEMMA CapPositive == cap \in Nat /\ cap > 0
  BY FindingsAssumption DEF cap

\* What AtLeast is on bags, and that no severity is below the lowest.
LEMMA AtLeastNat ==
  ASSUME NEW b \in Bag, NEW s \in Severity
  PROVE  /\ AtLeast(b, s) \in Nat
         /\ AtLeast(b, s) <= Size(b)
         /\ b[s] <= AtLeast(b, s)
  BY DEF Bag, Severity, AtLeast, Size, SevLow

\* Adding a finding adds one from its severity downwards.
LEMMA AddOne ==
  ASSUME NEW b \in Bag, NEW f \in Severity
  PROVE  /\ AddTo(b, f) \in Bag
         /\ \A s \in Severity : AtLeast(AddTo(b, f), s) = AtLeast(b, s) + (IF f >= s THEN 1 ELSE 0)
         /\ Size(AddTo(b, f)) = Size(b) + 1
         /\ AddTo(b, f)[f] = b[f] + 1
         /\ \A s \in Severity : s # f => AddTo(b, f)[s] = b[s]
  BY DEF Bag, Severity, AtLeast, Size, SevLow, AddTo

\* Taking one out takes one off.
LEMMA TakeOne ==
  ASSUME NEW b \in Bag, NEW f \in Severity, b[f] > 0
  PROVE  /\ Minus(b, f) \in Bag
         /\ \A s \in Severity : AtLeast(Minus(b, f), s) = AtLeast(b, s) - (IF f >= s THEN 1 ELSE 0)
         /\ Size(Minus(b, f)) = Size(b) - 1
  BY DEF Bag, Severity, AtLeast, Size, SevLow, Minus

\* lowestRetained finds the lowest severity of a detector that is not empty,
\* so that all it retained is at least as severe.
LEMMA LowestIsLowest ==
  ASSUME NEW b \in Bag, Size(b) > 0
  PROVE  LET m == lowestRetained(b) IN
         /\ m \in Severity /\ b[m] > 0
         /\ \A x \in Severity : x < m => b[x] = 0
         /\ \A s \in Severity : s <= m => AtLeast(b, s) = Size(b)
<1> DEFINE IsLowest(m) == b[m] > 0 /\ \A x \in Severity : x < m => b[x] = 0
<1>1. \E m \in Severity : IsLowest(m)
  <2>1. CASE b[0] > 0
    BY <2>1 DEF Severity
  <2>2. CASE b[0] = 0 /\ b[1] > 0
    <3>1. 1 \in Severity /\ IsLowest(1)
      BY <2>2 DEF Severity
    <3> QED BY <3>1
  <2>3. CASE b[0] = 0 /\ b[1] = 0 /\ b[2] > 0
    <3>1. 2 \in Severity /\ IsLowest(2)
      BY <2>3 DEF Severity
    <3> QED BY <3>1
  <2>4. CASE b[0] = 0 /\ b[1] = 0 /\ b[2] = 0
    <3>1. 3 \in Severity /\ IsLowest(3)
      BY <2>4 DEF Severity, Size, AtLeast, SevLow, Bag
    <3> QED BY <3>1
  <2> QED BY <2>1, <2>2, <2>3, <2>4 DEF Bag, Severity
<1>2. lowestRetained(b) \in Severity /\ IsLowest(lowestRetained(b))
  BY <1>1 DEF lowestRetained
<1>3. ASSUME NEW s \in Severity, NEW m \in Severity, s <= m, IsLowest(m)
      PROVE  AtLeast(b, s) = Size(b)
  BY <1>3 DEF Bag, Severity, AtLeast, Size, SevLow
<1> QED BY <1>2, <1>3
-----------------------------------------------------------------------------
\* The parts of Good that retain can disturb: the cache and the numbers. What
\* retain leaves alone is counts, seen and the highest severity.
LEMMA RetainGood ==
  ASSUME NEW d, NEW r, Good(d, r), NEW f \in Severity, r[f] > 0
  PROVE  Good(retain(d, f), Minus(r, f))
<1> DEFINE m == lowestRetained(d.found)
<1>0. /\ d \in Detector /\ d.found \in Bag /\ d.counts \in Bag /\ r \in Bag
      /\ d.dropped \in Nat /\ d.minSev \in Severity /\ f \in Int
      /\ Size(d.found) \in Nat /\ Size(d.found) <= cap /\ cap \in Nat /\ cap > 0
      /\ Accounted(d, r) /\ Top(d, r) /\ SeesAll(d) /\ Cached(d)
  BY CapPositive, AtLeastNat DEF Good, Detector, Severity, Size, SevLow
<1>r. /\ Minus(r, f) \in Bag
      /\ \A s \in Severity : AtLeast(Minus(r, f), s) = AtLeast(r, s) - (IF f >= s THEN 1 ELSE 0)
      /\ Size(Minus(r, f)) = Size(r) - 1
  BY <1>0, TakeOne
<1>n. /\ Size(r) \in Nat /\ Size(d.counts) \in Nat
      /\ \A s \in Severity : /\ AtLeast(r, s) \in Nat /\ AtLeast(d.counts, s) \in Nat
                             /\ AtLeast(d.found, s) \in Nat
                             /\ AtLeast(d.found, s) <= Size(d.found)
  BY <1>0, AtLeastNat DEF Size, SevLow, Severity
<1>1. CASE Room(d)
  <2> DEFINE e == Extend(d, f)
  <2>1. retain(d, f) = e
    BY <1>1 DEF retain
  <2>2. /\ e \in Detector /\ e.found = AddTo(d.found, f) /\ e.dropped = d.dropped
        /\ e.counts = d.counts /\ e.seen = d.seen /\ e.maxSeverity = d.maxSeverity
        /\ e.minCached = FALSE
    BY <1>0, AddOne DEF Extend, Detector
  <2>3. /\ \A s \in Severity : AtLeast(e.found, s) = AtLeast(d.found, s) + (IF f >= s THEN 1 ELSE 0)
        /\ Size(e.found) = Size(d.found) + 1
    BY <1>0, <2>2, AddOne
  <2>4. Size(e.found) <= cap
    BY <1>0, <1>1, <2>3 DEF Room
  <2>5. Accounted(e, Minus(r, f))
    BY <1>0, <1>n, <1>r, <2>2, <2>3 DEF Accounted
  <2>6. Top(e, Minus(r, f))
    BY <1>0, <1>n, <1>r, <2>2, <2>3 DEF Top, Severity
  <2>7. SeesAll(e) /\ Cached(e)
    BY <1>0, <2>2 DEF SeesAll, Cached
  <2> QED BY <1>r, <2>1, <2>2, <2>4, <2>5, <2>6, <2>7 DEF Good
<1>2. CASE ~Room(d)
  <2>1. /\ Size(d.found) = cap
        /\ m \in Severity /\ d.found[m] > 0
        /\ \A x \in Severity : x < m => d.found[x] = 0
        /\ \A s \in Severity : s <= m => AtLeast(d.found, s) = cap
    <3>1. Size(d.found) = cap
      BY <1>0, <1>2 DEF Room
    <3> QED BY <1>0, <3>1, LowestIsLowest
  <2>2. d.minCached => d.minSev = m
    <3> SUFFICES ASSUME d.minCached PROVE d.minSev = m
      OBVIOUS
    <3> HIDE DEF m
    <3>1. /\ d.found[d.minSev] > 0 /\ \A s \in Severity : s < d.minSev => d.found[s] = 0
          /\ d.minSev \in Severity
      BY <1>0 DEF Cached
    <3>2. ~(m < d.minSev) /\ ~(d.minSev < m)
      BY <2>1, <3>1
    <3> QED BY <2>1, <3>1, <3>2 DEF Severity
  <2>3. CASE f <= m
    <3> DEFINE e == retain(d, f)
    <3>1. /\ e \in Detector /\ e.found = d.found /\ e.dropped = d.dropped + 1
          /\ e.counts = d.counts /\ e.seen = d.seen /\ e.maxSeverity = d.maxSeverity
          /\ e.minSev = m /\ e.minCached = TRUE
      <4> HIDE DEF m
      <4> DEFINE x == Reject(d)
      <4>1. x = [d EXCEPT !.dropped = @ + 1] /\ x \in Detector
        BY <1>0 DEF Reject, Detector
      <4>2. CASE d.minCached
        <5>1. e = x
          BY <1>2, <2>2, <2>3, <4>2 DEF retain, m
        <5> QED BY <1>0, <2>2, <4>1, <4>2, <5>1 DEF Detector
      <4>3. CASE ~d.minCached
        <5>1. e = [x EXCEPT !.minSev = m, !.minCached = TRUE]
          BY <1>2, <2>3, <4>3 DEF retain, m
        <5> QED BY <1>0, <2>1, <4>1, <5>1 DEF Detector
      <4> QED BY <4>2, <4>3
    <3>2. Accounted(e, Minus(r, f))
      BY <1>0, <1>n, <1>r, <3>1 DEF Accounted
    <3>3. Top(e, Minus(r, f))
      <4> SUFFICES ASSUME NEW s \in Severity
                   PROVE  Least(cap, AtLeast(d.found, s) + AtLeast(Minus(r, f), s))
                            = Least(cap, AtLeast(d.counts, s))
        BY <3>1 DEF Top
      <4>1. Least(cap, AtLeast(d.found, s) + AtLeast(r, s)) = Least(cap, AtLeast(d.counts, s))
        BY <1>0 DEF Top
      <4>2. CASE f >= s
        <5>1. AtLeast(d.found, s) = cap /\ AtLeast(Minus(r, f), s) \in Nat
          BY <1>r, <2>1, <2>3, <4>2, AtLeastNat DEF Severity
        <5> QED BY <1>0, <1>n, <4>1, <5>1 DEF Least
      <4>3. CASE ~(f >= s)
        <5>1. AtLeast(Minus(r, f), s) = AtLeast(r, s)
          BY <1>n, <1>r, <4>3
        <5> QED BY <4>1, <5>1
      <4> QED BY <4>2, <4>3
    <3>4. SeesAll(e) /\ Cached(e)
      BY <1>0, <2>1, <3>1 DEF SeesAll, Cached
    <3> QED BY <1>0, <1>r, <3>1, <3>2, <3>3, <3>4 DEF Good
  <2>4. CASE ~(f <= m)
    <3> DEFINE e == Replace(d, m, f)
               b == Minus(d.found, m)
    <3>1. retain(d, f) = e
      BY <1>0, <1>2, <2>1, <2>2, <2>4 DEF retain
    <3>2. /\ b \in Bag
          /\ \A s \in Severity : AtLeast(b, s) = AtLeast(d.found, s) - (IF m >= s THEN 1 ELSE 0)
          /\ Size(b) = Size(d.found) - 1
      BY <1>0, <2>1, TakeOne
    <3>3. /\ AddTo(b, f) \in Bag
          /\ \A s \in Severity : AtLeast(AddTo(b, f), s) = AtLeast(b, s) + (IF f >= s THEN 1 ELSE 0)
          /\ Size(AddTo(b, f)) = Size(b) + 1
      BY <3>2, AddOne
    <3>4. /\ e \in Detector /\ e.found = AddTo(b, f) /\ e.dropped = d.dropped + 1
          /\ e.counts = d.counts /\ e.seen = d.seen /\ e.maxSeverity = d.maxSeverity
          /\ e.minCached = FALSE
      <4> DEFINE c == AddTo(b, f)
      <4>1. e = [d EXCEPT !.found = c, !.dropped = @ + 1, !.minCached = FALSE]
        BY DEF Replace
      <4>2. c \in Bag
        BY <3>3
      <4> HIDE DEF c, b, m, e
      <4> DEFINE x == [d EXCEPT !.dropped = @ + 1]
      <4>a. /\ x \in Detector /\ x.found = d.found /\ x.dropped = d.dropped + 1
            /\ x.counts = d.counts /\ x.seen = d.seen /\ x.maxSeverity = d.maxSeverity
        BY <1>0 DEF Detector
      <4>b. e = [x EXCEPT !.found = c, !.minCached = FALSE]
        BY <1>0, <4>1 DEF Detector
      <4> HIDE DEF x
      <4>3. /\ e \in Detector /\ e.found = c /\ e.dropped = d.dropped + 1
            /\ e.counts = d.counts /\ e.seen = d.seen /\ e.maxSeverity = d.maxSeverity
            /\ e.minCached = FALSE
        BY <4>a, <4>b, <4>2 DEF Detector
      <4> QED BY <4>3 DEF c
    <3>5. Size(e.found) = cap
      BY <1>0, <2>1, <3>2, <3>3, <3>4
    <3> HIDE DEF e, b, m
    <3>6. Accounted(e, Minus(r, f))
      <4>1. Size(d.found) + Size(r) + d.dropped = Size(d.counts)
        BY <1>0 DEF Accounted
      <4>2. Size(e.found) + Size(Minus(r, f)) + e.dropped = Size(e.counts)
        BY <1>0, <1>n, <1>r, <2>1, <3>4, <3>5, <4>1
      <4> QED BY <4>2 DEF Accounted
    <3>7. Top(e, Minus(r, f))
      <4> SUFFICES ASSUME NEW s \in Severity
                   PROVE  Least(cap, AtLeast(e.found, s) + AtLeast(Minus(r, f), s))
                            = Least(cap, AtLeast(d.counts, s))
        BY <3>4 DEF Top
      <4>1. Least(cap, AtLeast(d.found, s) + AtLeast(r, s)) = Least(cap, AtLeast(d.counts, s))
        BY <1>0 DEF Top
      <4>2. AtLeast(e.found, s) = AtLeast(d.found, s) - (IF m >= s THEN 1 ELSE 0)
                                                      + (IF f >= s THEN 1 ELSE 0)
        BY <3>2, <3>3, <3>4
      <4>3. CASE s <= m
        <5>1. AtLeast(d.found, s) = cap /\ m >= s /\ f >= s
          BY <2>1, <2>4, <4>3 DEF Severity
        <5>2. AtLeast(e.found, s) = cap
          BY <1>0, <4>2, <5>1
        <5>3. AtLeast(Minus(r, f), s) \in Nat
          BY <1>r, AtLeastNat
        <5> QED BY <1>0, <1>n, <4>1, <5>1, <5>2, <5>3 DEF Least
      <4>4. CASE ~(s <= m)
        <5>1. AtLeast(e.found, s) + AtLeast(Minus(r, f), s) = AtLeast(d.found, s) + AtLeast(r, s)
          BY <1>n, <1>r, <2>1, <4>2, <4>4 DEF Severity
        <5> QED BY <4>1, <5>1
      <4> QED BY <4>3, <4>4
    <3>8. SeesAll(e) /\ Cached(e)
      BY <1>0, <3>4 DEF SeesAll, Cached
    <3> QED BY <1>0, <1>r, <3>1, <3>4, <3>5, <3>6, <3>7, <3>8 DEF Good
  <2> QED BY <2>3, <2>4
<1> QED BY <1>1, <1>2

\* Counting a hit puts it among those still to be decided on.
LEMMA CountGood ==
  ASSUME NEW d, NEW r, Good(d, r), NEW f \in Severity
  PROVE  Good(count(observe(d, f), f, 1), AddTo(r, f))
<1> DEFINE e == count(observe(d, f), f, 1)
           c == AddTo(d.counts, f)
<1>0. /\ d \in Detector /\ d.counts \in Bag /\ d.found \in Bag /\ r \in Bag
      /\ Accounted(d, r) /\ Top(d, r) /\ SeesAll(d) /\ Cached(d)
      /\ d.maxSeverity \in Severity /\ f \in Int /\ d.dropped \in Nat
      /\ cap \in Nat
  BY CapPositive DEF Good, Detector, Severity
<1>1. /\ c \in Bag /\ Size(c) = Size(d.counts) + 1 /\ c[f] = d.counts[f] + 1
      /\ \A s \in Severity : AtLeast(c, s) = AtLeast(d.counts, s) + (IF f >= s THEN 1 ELSE 0)
      /\ \A s \in Severity : s # f => c[s] = d.counts[s]
  BY <1>0, AddOne
<1>2. /\ AddTo(r, f) \in Bag /\ Size(AddTo(r, f)) = Size(r) + 1
      /\ \A s \in Severity : AtLeast(AddTo(r, f), s) = AtLeast(r, s) + (IF f >= s THEN 1 ELSE 0)
  BY <1>0, AddOne
<1>3. e = [d EXCEPT !.maxSeverity = IF ~d.seen \/ f > @ THEN f ELSE @, !.seen = TRUE, !.counts = c]
  BY <1>0 DEF count, observe, AddTo, Detector
<1>n. /\ Size(r) \in Nat /\ Size(d.counts) \in Nat /\ Size(d.found) \in Nat
      /\ \A s \in Severity : /\ AtLeast(r, s) \in Nat /\ AtLeast(d.counts, s) \in Nat
                             /\ AtLeast(d.found, s) \in Nat /\ d.counts[s] \in Nat
                             /\ d.counts[s] <= Size(d.counts)
  BY <1>0, AtLeastNat DEF Size, SevLow, Severity, Bag, AtLeast
<1> HIDE DEF e, c
<1>4. /\ e \in Detector /\ e.found = d.found /\ e.dropped = d.dropped /\ e.counts = c
      /\ e.seen = TRUE /\ e.maxSeverity = (IF ~d.seen \/ f > d.maxSeverity THEN f ELSE d.maxSeverity)
      /\ e.minCached = d.minCached /\ e.minSev = d.minSev
  BY <1>0, <1>1, <1>3 DEF Detector
<1>5. Accounted(e, AddTo(r, f))
  BY <1>0, <1>1, <1>2, <1>4, <1>n DEF Accounted
<1>6. Top(e, AddTo(r, f))
  BY <1>0, <1>1, <1>2, <1>4, <1>n DEF Top, Least
<1>7. SeesAll(e)
  <2>1. Size(c) > 0
    BY <1>1, <1>n
  <2>2. c[e.maxSeverity] > 0
    <3>1. CASE e.maxSeverity = f
      BY <1>0, <1>1, <1>n, <3>1
    <3>2. CASE e.maxSeverity # f
      <4>1. d.seen /\ e.maxSeverity = d.maxSeverity
        BY <1>4, <3>2
      <4>2. d.counts[d.maxSeverity] > 0
        BY <1>0, <4>1 DEF SeesAll
      <4>3. c[d.maxSeverity] = d.counts[d.maxSeverity]
        BY <1>0, <1>1, <3>2, <4>1
      <4> QED BY <4>1, <4>2, <4>3
    <3> QED BY <3>1, <3>2
  <2>3. ASSUME NEW s \in Severity, c[s] > 0 PROVE s <= e.maxSeverity
    <3>1. CASE d.seen
      BY <1>0, <1>1, <1>4, <2>3, <3>1 DEF SeesAll, Severity
    <3>2. CASE ~d.seen
      <4>1. d.counts[s] = 0
        BY <1>0, <1>n, <3>2 DEF SeesAll
      <4>2. s = f
        BY <1>1, <2>3, <4>1
      <4> QED BY <1>0, <1>4, <3>2, <4>2
    <3> QED BY <3>1, <3>2
  <2> QED BY <1>4, <2>1, <2>2, <2>3 DEF SeesAll
<1>8. Cached(e) /\ Size(e.found) <= cap
  BY <1>0, <1>4 DEF Cached, Good
<1> QED BY <1>2, <1>4, <1>5, <1>6, <1>7, <1>8 DEF Good, e

\* A hit that Inspect keeps leaves nothing to be decided on.
LEMMA KeepGood ==
  ASSUME NEW d, Good(d, Nothing), NEW f \in Severity
  PROVE  Good(keep(d, f), Nothing)
<1>1. Good(count(observe(d, f), f, 1), AddTo(Nothing, f))
  BY CountGood
<1>2. AddTo(Nothing, f)[f] > 0 /\ Minus(AddTo(Nothing, f), f) = Nothing
  BY DEF Nothing, AddTo, Minus, Severity
<1> QED BY <1>1, <1>2, RetainGood DEF keep

\* Absorbing a shard puts all that it retained among those to be decided on:
\* what it dropped itself is no better.
LEMMA AbsorbGood ==
  ASSUME NEW d, NEW o, Good(d, Nothing), Good(o, Nothing)
  PROVE  Good(absorb(d, o), o.found)
<1> DEFINE e == absorb(d, o)
           c == [s \in Severity |-> d.counts[s] + o.counts[s]]
<1>0. /\ d \in Detector /\ d.counts \in Bag /\ d.found \in Bag /\ d.maxSeverity \in Severity
      /\ d.dropped \in Nat /\ o.dropped \in Nat /\ o.maxSeverity \in Severity
      /\ o \in Detector /\ o.counts \in Bag /\ o.found \in Bag /\ Nothing \in Bag
      /\ Accounted(d, Nothing) /\ Top(d, Nothing) /\ SeesAll(d) /\ Cached(d)
      /\ Accounted(o, Nothing) /\ Top(o, Nothing) /\ SeesAll(o)
      /\ cap \in Nat /\ Size(d.found) <= cap
  BY CapPositive DEF Good, Detector, Nothing, Bag
<1>1. /\ c \in Bag /\ Size(c) = Size(d.counts) + Size(o.counts)
      /\ \A s \in Severity : AtLeast(c, s) = AtLeast(d.counts, s) + AtLeast(o.counts, s)
      /\ \A s \in Severity : c[s] = d.counts[s] + o.counts[s]
  BY <1>0 DEF Bag, Severity, AtLeast, Size, SevLow
<1>2. Size(Nothing) = 0 /\ \A s \in Severity : AtLeast(Nothing, s) = 0
  BY DEF Nothing, Size, AtLeast, SevLow, Severity
<1>n. /\ Size(d.counts) \in Nat /\ Size(d.found) \in Nat
      /\ Size(o.counts) \in Nat /\ Size(o.found) \in Nat
      /\ \A s \in Severity : /\ AtLeast(d.counts, s) \in Nat /\ AtLeast(d.found, s) \in Nat
                             /\ AtLeast(o.counts, s) \in Nat /\ AtLeast(o.found, s) \in Nat
                             /\ d.counts[s] \in Nat /\ o.counts[s] \in Nat
                             /\ d.counts[s] <= Size(d.counts) /\ o.counts[s] <= Size(o.counts)
  BY <1>0, AtLeastNat DEF Size, SevLow, Severity, Bag, AtLeast
<1>3. /\ e \in Detector /\ e.found = d.found /\ e.dropped = d.dropped + o.dropped /\ e.counts = c
      /\ e.seen = (d.seen \/ o.seen)
      /\ e.maxSeverity = (IF o.seen /\ (~d.seen \/ o.maxSeverity > d.maxSeverity)
                          THEN o.maxSeverity ELSE d.maxSeverity)
      /\ e.minCached = d.minCached /\ e.minSev = d.minSev
  <2> DEFINE x == IF o.seen THEN observe(d, o.maxSeverity) ELSE d
  <2>1. /\ x \in Detector /\ x.found = d.found /\ x.dropped = d.dropped /\ x.counts = d.counts
        /\ x.seen = (d.seen \/ o.seen)
        /\ x.maxSeverity = (IF o.seen /\ (~d.seen \/ o.maxSeverity > d.maxSeverity)
                            THEN o.maxSeverity ELSE d.maxSeverity)
        /\ x.minCached = d.minCached /\ x.minSev = d.minSev
    BY <1>0 DEF observe, Detector
  <2>2. e = [x EXCEPT !.dropped = @ + o.dropped,
                      !.counts = [s \in Severity |-> x.counts[s] + o.counts[s]]]
    BY DEF absorb
  <2>3. e = [x EXCEPT !.dropped = @ + o.dropped, !.counts = c]
    BY <2>1, <2>2
  <2> DEFINE n == x.dropped + o.dropped
  <2>4. e = [x EXCEPT !.dropped = n, !.counts = c] /\ n = d.dropped + o.dropped /\ n \in Nat
    BY <1>0, <2>1, <2>3
  <2> HIDE DEF e, x, c, n
  <2>5. /\ e \in Detector /\ e.found = x.found /\ e.dropped = n /\ e.counts = c
        /\ e.seen = x.seen /\ e.maxSeverity = x.maxSeverity
        /\ e.minCached = x.minCached /\ e.minSev = x.minSev
    BY <1>1, <2>1, <2>4 DEF Detector
  <2> QED BY <2>1, <2>4, <2>5
<1> HIDE DEF e, c
<1>4. Accounted(e, o.found)
  BY <1>0, <1>1, <1>2, <1>3, <1>n DEF Accounted
<1>5. Top(e, o.found)
  <2> SUFFICES ASSUME NEW s \in Severity
               PROVE  Least(cap, AtLeast(d.found, s) + AtLeast(o.found, s)) = Least(cap, AtLeast(c, s))
    BY <1>3 DEF Top
  <2>1. /\ Least(cap, AtLeast(d.found, s)) = Least(cap, AtLeast(d.counts, s))
        /\ Least(cap, AtLeast(o.found, s)) = Least(cap, AtLeast(o.counts, s))
    BY <1>0, <1>2, <1>n DEF Top
  <2> QED BY <1>0, <1>1, <1>n, <2>1 DEF Least
<1>6. SeesAll(e)
  <2>s. /\ d.seen <=> Size(d.counts) > 0
        /\ o.seen <=> Size(o.counts) > 0
        /\ d.seen => d.counts[d.maxSeverity] > 0
        /\ o.seen => o.counts[o.maxSeverity] > 0
    BY <1>0 DEF SeesAll
  <2>1. e.seen <=> Size(c) > 0
    <3>1. e.seen = (d.seen \/ o.seen) /\ Size(c) = Size(d.counts) + Size(o.counts)
      BY <1>1, <1>3
    <3>2. Size(d.counts) \in Nat /\ Size(o.counts) \in Nat
      BY <1>n
    <3>3. Size(c) > 0 <=> Size(d.counts) > 0 \/ Size(o.counts) > 0
      BY <3>1, <3>2
    <3> QED BY <2>s, <3>1, <3>3, Zenon
  <2>2. ASSUME e.seen PROVE c[e.maxSeverity] > 0
    <3>1. CASE o.seen /\ (~d.seen \/ o.maxSeverity > d.maxSeverity)
      <4>1. e.maxSeverity = o.maxSeverity
        BY <1>3, <3>1
      <4>2. o.counts[o.maxSeverity] > 0 /\ d.counts[o.maxSeverity] \in Nat
            /\ o.counts[o.maxSeverity] \in Nat
        BY <1>0, <1>n, <2>s, <3>1
      <4>3. c[o.maxSeverity] = d.counts[o.maxSeverity] + o.counts[o.maxSeverity]
        BY <1>0, <1>1
      <4> QED BY <4>1, <4>2, <4>3
    <3>2. CASE ~(o.seen /\ (~d.seen \/ o.maxSeverity > d.maxSeverity))
      <4>1. d.seen /\ e.maxSeverity = d.maxSeverity
        BY <1>3, <2>2, <3>2
      <4>2. d.counts[d.maxSeverity] > 0 /\ o.counts[d.maxSeverity] \in Nat
            /\ d.counts[d.maxSeverity] \in Nat
        BY <1>0, <1>n, <2>s, <4>1
      <4>3. c[d.maxSeverity] = d.counts[d.maxSeverity] + o.counts[d.maxSeverity]
        BY <1>0, <1>1
      <4> QED BY <4>1, <4>2, <4>3
    <3> QED BY <3>1, <3>2
  <2>3. ASSUME e.seen, NEW s \in Severity, c[s] > 0 PROVE s <= e.maxSeverity
    <3>1. d.counts[s] > 0 \/ o.counts[s] > 0
      BY <1>1, <1>n, <2>3
    <3>2. d.counts[s] > 0 => d.seen /\ s <= d.maxSeverity
      BY <1>0, <1>n DEF SeesAll
    <3>3. o.counts[s] > 0 => o.seen /\ s <= o.maxSeverity
      BY <1>0, <1>n DEF SeesAll
    <3> QED BY <1>0, <1>3, <3>1, <3>2, <3>3 DEF Severity
  <2> QED BY <1>3, <2>1, <2>2, <2>3 DEF SeesAll
<1>7. Cached(e) /\ Size(e.found) <= cap
  BY <1>0, <1>3 DEF Cached
<1> QED BY <1>0, <1>3, <1>4, <1>5, <1>6, <1>7 DEF Good, e
-----------------------------------------------------------------------------
\* The inductive invariant: every shard is Good with nothing left to decide on,
\* the merged detector with the rest of the shard in hand.
Inv == /\ det \in [Worker -> Detector]
       /\ visited \in [Worker -> Nat] /\ kept \in [Worker -> 0 .. MaxEvents]
       /\ next \in 0 .. Workers + 1
       /\ tally \in Bag /\ matched \in Nat /\ events \in 0 .. MaxEvents
       /\ \A w \in Worker : Good(det[w], Nothing)
       /\ Good(merged, rest)

\* A detector that has seen nothing is Good.
LEMMA NewGood == Good(NewDetector, Nothing)
<1>1. NewDetector \in Detector /\ Nothing \in Bag
  BY DEF NewDetector, Detector, Bag, Nothing, Severity, SevLow
<1>2. Size(Nothing) = 0 /\ \A s \in Severity : AtLeast(Nothing, s) = 0 /\ Nothing[s] = 0
  BY DEF Nothing, Size, AtLeast, SevLow, Severity
<1>3. /\ NewDetector.found = Nothing /\ NewDetector.counts = Nothing /\ NewDetector.dropped = 0
      /\ NewDetector.seen = FALSE /\ NewDetector.minCached = FALSE
  BY DEF NewDetector
<1>4. Size(NewDetector.found) <= cap
  BY <1>2, <1>3, CapPositive
<1>5. Accounted(NewDetector, Nothing) /\ Top(NewDetector, Nothing)
  BY <1>2, <1>3 DEF Accounted, Top
<1>6. SeesAll(NewDetector) /\ Cached(NewDetector)
  BY <1>2, <1>3 DEF SeesAll, Cached
<1> QED BY <1>1, <1>4, <1>5, <1>6 DEF Good

\* The invariant holds at the start.
LEMMA InitInv == DetectorInit => Inv
  BY NewGood, FindingsAssumption DEF DetectorInit, Inv, Good

\* Every step keeps it.
LEMMA NextInv == Inv /\ [DetectorNext]_detectorVars => Inv'
<1> SUFFICES ASSUME Inv, [DetectorNext]_detectorVars PROVE Inv'
  OBVIOUS
<1> USE DEF Inv
<1>0. Workers \in Nat /\ MaxEvents \in Nat /\ MaxEvents > 0
  BY FindingsAssumption
<1>1. ASSUME NEW w \in Worker, Visit(w) PROVE Inv'
  <2>1. kept' \in [Worker -> 0 .. MaxEvents] /\ visited' \in [Worker -> Nat]
    BY <1>0, <1>1 DEF Visit, KeepUpTo
  <2> QED BY <1>1, <2>1 DEF Visit, resultVars
<1>2. ASSUME NEW w \in Worker, NEW f \in Severity, Inspect(w, f) PROVE Inv'
  <2>1. Good(keep(det[w], f), Nothing)
    BY KeepGood
  <2>2. det' \in [Worker -> Detector] /\ \A v \in Worker : Good(det'[v], Nothing)
    BY <1>2, <2>1 DEF Inspect, Good
  <2>3. tally' \in Bag
    BY <1>2, AddOne DEF Inspect
  <2> QED BY <1>2, <2>2, <2>3 DEF Inspect, resultVars
<1>3. CASE EndScan
  BY <1>0, <1>3 DEF EndScan, Scanning, shardVars
<1>4. CASE MergeShard
  <2>1. Good(merged, Nothing) /\ Good(det[next], Nothing)
    BY <1>4 DEF MergeShard
  <2>2. Good(merged', rest')
    BY <1>4, <2>1, AbsorbGood DEF MergeShard
  <2>3. matched' \in Nat /\ events' \in 0 .. MaxEvents /\ next' \in 0 .. Workers + 1
    BY <1>0, <1>4 DEF MergeShard, Least, Worker
  <2> QED BY <1>4, <2>2, <2>3 DEF MergeShard, shardVars
<1>5. ASSUME NEW f \in Severity, MergeFinding(f) PROVE Inv'
  <2>1. Good(merged', rest')
    BY <1>5, RetainGood DEF MergeFinding
  <2> QED BY <1>5, <2>1 DEF MergeFinding, shardVars
<1>6. CASE UNCHANGED detectorVars
  BY <1>6 DEF detectorVars, shardVars, resultVars
<1> QED BY <1>1, <1>2, <1>3, <1>4, <1>5, <1>6 DEF DetectorNext, DetectorStop

\* In every behaviour.
LEMMA SpecInv == DetectorSpec => []Inv
  BY InitInv, NextInv, PTL DEF DetectorSpec

\* No detector retains more than the cap, and the result is bounded.
THEOREM DetectorsAreTyped == DetectorSpec => []DetectorTypeOK
<1>1. Inv => DetectorTypeOK
  BY DEF Inv, DetectorTypeOK, Good
<1> QED BY <1>1, SpecInv, PTL

\* Every hit is retained or counted as dropped, exactly once.
THEOREM HitsAreAccounted == DetectorSpec => []HitsAccounted
<1>1. Inv => HitsAccounted
  <2>1. Size(Nothing) = 0
    BY DEF Nothing, Size, AtLeast, SevLow, Severity
  <2> SUFFICES ASSUME Inv PROVE HitsAccounted
    OBVIOUS
  <2>2. ASSUME NEW w \in Worker
        PROVE  Size(det[w].found) + det[w].dropped = Size(det[w].counts)
    <3>1. Size(det[w].found) \in Nat /\ det[w].dropped \in Nat
      BY AtLeastNat DEF Inv, Good, Detector, Size, SevLow, Severity
    <3> QED BY <2>1, <3>1 DEF Inv, Good, Accounted
  <2>3. Size(merged.found) + Size(rest) + merged.dropped = Size(merged.counts)
    BY DEF Inv, Good, Accounted
  <2> QED BY <2>2, <2>3 DEF HitsAccounted
<1> QED BY <1>1, SpecInv, PTL

\* With nothing left to decide on, Top is the property of the run.
LEMMA GoodTop ==
  ASSUME NEW d, Good(d, Nothing), NEW s \in Severity
  PROVE  AtLeast(d.found, s) = Least(cap, AtLeast(d.counts, s))
<1>1. AtLeast(Nothing, s) = 0
  BY DEF Nothing, AtLeast, Severity
<1>2. AtLeast(d.found, s) \in Nat /\ AtLeast(d.found, s) <= Size(d.found) /\ Size(d.found) \in Nat
  BY AtLeastNat DEF Good, Detector, Size, SevLow, Severity
<1>3. Least(cap, AtLeast(d.found, s)) = Least(cap, AtLeast(d.counts, s))
  BY <1>1, <1>2 DEF Good, Top
<1>4. Least(cap, AtLeast(d.found, s)) = AtLeast(d.found, s)
  BY <1>2, CapPositive DEF Good, Least
<1> QED BY <1>3, <1>4

\* Whatever the order of the hits and the merges, the most severe are retained.
THEOREM TopIsRetained == DetectorSpec => []TopRetained
<1>1. Inv => TopRetained
  <2> SUFFICES ASSUME Inv, NEW s \in Severity,
                      NEW d \in (IF rest = Nothing THEN Detectors ELSE {det[w] : w \in Worker})
               PROVE  AtLeast(d.found, s) = Least(cap, AtLeast(d.counts, s))
    BY DEF TopRetained
  <2>1. Good(d, Nothing)
    BY DEF Detectors, Inv
  <2> QED BY <2>1, GoodTop
<1> QED BY <1>1, SpecInv, PTL

\* --fail-on sees the highest severity of all hits, discarded ones included.
THEOREM FailOnIsSound == DetectorSpec => []FailOnSeesAll
<1>1. Inv => FailOnSeesAll
  BY DEF Inv, FailOnSeesAll, Detectors, Good, SeesAll
<1> QED BY <1>1, SpecInv, PTL

\* The cached lowest severity is never stale.
THEOREM CacheIsSound == DetectorSpec => []CacheSound
<1>1. Inv => CacheSound
  BY DEF Inv, CacheSound, Detectors, Good, Cached
<1> QED BY <1>1, SpecInv, PTL
-----------------------------------------------------------------------------
\* The counts of the shards, added up one after the other: p[n] is what the first n
\* shards have counted. All of them together have counted every hit, and the result
\* has what was counted by the shards merged so far. No sum over the workers has to
\* be defined for this: it is enough that there is such a p.
AddsUp(p) ==
  /\ p \in [0 .. Workers -> Bag]
  /\ p[0] = Nothing
  /\ \A w \in Worker, s \in Severity : p[w][s] = p[w - 1][s] + det[w].counts[s]
  /\ p[Workers] = tally
  /\ merged.counts = IF Scanning THEN Nothing ELSE p[next - 1]

Counted == \E p : AddsUp(p)

\* retain decides about a hit that is counted already.
LEMMA RetainCounts ==
  ASSUME NEW d \in Detector, NEW f \in Severity
  PROVE  retain(d, f).counts = d.counts
  BY DEF retain, Extend, Reject, Replace, Detector

\* A hit is counted once.
LEMMA KeepCounts ==
  ASSUME NEW d \in Detector, NEW f \in Severity
  PROVE  keep(d, f).counts = AddTo(d.counts, f)
<1> DEFINE c == count(observe(d, f), f, 1)
<1>1. observe(d, f) \in Detector /\ observe(d, f).counts = d.counts
  BY DEF observe, Detector
<1>2. c \in Detector /\ c.counts = AddTo(d.counts, f)
  <2> HIDE DEF c
  <2>1. c = [observe(d, f) EXCEPT !.counts = AddTo(d.counts, f)]
    BY <1>1 DEF c, count, AddTo, Detector
  <2>2. AddTo(d.counts, f) \in Bag
    BY AddOne DEF Detector
  <2> QED BY <1>1, <2>1, <2>2 DEF Detector
<1> HIDE DEF c
<1>3. keep(d, f) = retain(c, f)
  BY DEF keep, c
<1> QED BY <1>2, <1>3, RetainCounts

\* What a shard has counted is counted by the result.
LEMMA AbsorbCounts ==
  ASSUME NEW d \in Detector, NEW o \in Detector, NEW s \in Severity
  PROVE  absorb(d, o).counts \in Bag /\ absorb(d, o).counts[s] = d.counts[s] + o.counts[s]
<1> DEFINE e == IF o.seen THEN observe(d, o.maxSeverity) ELSE d
<1>1. e \in Detector /\ e.counts = d.counts
  BY DEF observe, Detector
<1> HIDE DEF e
<1>2. absorb(d, o) = [e EXCEPT !.dropped = @ + o.dropped,
                               !.counts = [x \in Severity |-> @[x] + o.counts[x]]]
  BY DEF absorb, e
<1>3. absorb(d, o).counts = [x \in Severity |-> d.counts[x] + o.counts[x]]
  BY <1>1, <1>2 DEF Detector
<1> QED BY <1>3 DEF Detector, Bag

\* At the start nothing is counted.
LEMMA InitCounted == DetectorInit => Counted
<1> SUFFICES ASSUME DetectorInit PROVE Counted
  OBVIOUS
<1> DEFINE p == [i \in 0 .. Workers |-> Nothing]
<1>1. /\ det = [w \in Worker |-> NewDetector] /\ merged = NewDetector /\ tally = Nothing
      /\ next = 0
  BY DEF DetectorInit
<1>2. NewDetector.counts = Nothing
  BY DEF NewDetector
<1>3. Workers \in Nat /\ \A w \in Worker : w \in 0 .. Workers /\ w - 1 \in 0 .. Workers
  BY FindingsAssumption DEF Worker
<1>4. Nothing \in Bag /\ \A s \in Severity : Nothing[s] = Nothing[s] + Nothing[s]
  BY DEF Nothing, Bag
<1>5. \A w \in Worker, s \in Severity : p[w][s] = p[w - 1][s] + det[w].counts[s]
  BY <1>1, <1>2, <1>3, <1>4
<1>6. p \in [0 .. Workers -> Bag] /\ p[0] = Nothing /\ p[Workers] = tally
  BY <1>1, <1>3, <1>4
<1>7. merged.counts = Nothing /\ Scanning
  BY <1>1, <1>2 DEF Scanning
<1> HIDE DEF p
<1> QED BY <1>5, <1>6, <1>7 DEF AddsUp, Counted

\* A hit is counted by its shard and so by all sums that this shard is part of.
LEMMA InspectCounted ==
  ASSUME Inv, Counted, NEW w \in Worker, NEW f \in Severity, Inspect(w, f)
  PROVE  Counted'
<1>1. PICK p : AddsUp(p)
  BY DEF Counted
<1> DEFINE q == [i \in 0 .. Workers |-> IF i >= w THEN AddTo(p[i], f) ELSE p[i]]
<1>2. /\ Workers \in Nat /\ w \in 1 .. Workers
      /\ \A v \in Worker : v \in 1 .. Workers /\ v \in 0 .. Workers /\ v - 1 \in 0 .. Workers
  BY FindingsAssumption DEF Worker
<1>3. /\ Scanning /\ Scanning' /\ merged' = merged /\ tally' = AddTo(tally, f)
      /\ det' = [det EXCEPT ![w] = keep(det[w], f)]
      /\ det \in [Worker -> Detector] /\ tally \in Bag
  BY DEF Inspect, Inv, Scanning, resultVars
<1>4. /\ det'[w].counts = AddTo(det[w].counts, f) /\ \A v \in Worker : v # w => det'[v] = det[v]
      /\ det[w].counts \in Bag
  BY <1>3, KeepCounts DEF Detector
<1>5. /\ p \in [0 .. Workers -> Bag] /\ p[0] = Nothing /\ p[Workers] = tally
      /\ \A v \in Worker, s \in Severity : p[v][s] = p[v - 1][s] + det[v].counts[s]
      /\ merged.counts = Nothing
  BY <1>1, <1>3 DEF AddsUp
<1>6. \A i \in 0 .. Workers : /\ AddTo(p[i], f) \in Bag /\ AddTo(p[i], f)[f] = p[i][f] + 1
                              /\ \A s \in Severity : s # f => AddTo(p[i], f)[s] = p[i][s]
                              /\ \A s \in Severity : p[i][s] \in Nat
  BY <1>5, AddOne DEF Bag
<1>7. q \in [0 .. Workers -> Bag] /\ q[0] = Nothing /\ q[Workers] = tally'
  BY <1>2, <1>3, <1>5, <1>6
<1>8. ASSUME NEW v \in Worker, NEW s \in Severity
      PROVE  q[v][s] = q[v - 1][s] + det'[v].counts[s]
  <2>0. /\ p[v][s] = p[v - 1][s] + det[v].counts[s]
        /\ q[v] = (IF v >= w THEN AddTo(p[v], f) ELSE p[v])
        /\ q[v - 1] = (IF v - 1 >= w THEN AddTo(p[v - 1], f) ELSE p[v - 1])
        /\ det[v].counts \in Bag
    BY <1>2, <1>3, <1>5 DEF Detector
  <2> HIDE DEF q
  <2>1. CASE v < w
    <3>1. v # w /\ ~(v >= w) /\ ~(v - 1 >= w)
      BY <1>2, <2>1
    <3>2. q[v] = p[v] /\ q[v - 1] = p[v - 1] /\ det'[v] = det[v]
      BY <1>4, <2>0, <3>1
    <3> QED BY <2>0, <3>2
  <2>2. CASE v = w
    <3>1. q[v] = AddTo(p[v], f) /\ q[v - 1] = p[v - 1] /\ det'[v].counts = AddTo(det[v].counts, f)
      BY <1>2, <1>4, <2>0, <2>2
    <3>2. /\ AddTo(det[v].counts, f)[f] = det[v].counts[f] + 1
          /\ s # f => AddTo(det[v].counts, f)[s] = det[v].counts[s]
          /\ det[v].counts[s] \in Nat
      BY <2>0, AddOne DEF Bag
    <3>3. /\ AddTo(p[v], f)[f] = p[v][f] + 1 /\ (s # f => AddTo(p[v], f)[s] = p[v][s])
          /\ p[v - 1][s] \in Nat
      BY <1>2, <1>6
    <3> QED BY <2>0, <3>1, <3>2, <3>3
  <2>3. CASE v > w
    <3>0. v # w /\ v >= w /\ v - 1 >= w
      BY <1>2, <2>3
    <3>1. q[v] = AddTo(p[v], f) /\ q[v - 1] = AddTo(p[v - 1], f) /\ det'[v] = det[v]
      BY <1>4, <2>0, <3>0
    <3>2. /\ AddTo(p[v], f)[f] = p[v][f] + 1 /\ (s # f => AddTo(p[v], f)[s] = p[v][s])
          /\ AddTo(p[v - 1], f)[f] = p[v - 1][f] + 1
          /\ (s # f => AddTo(p[v - 1], f)[s] = p[v - 1][s])
          /\ p[v - 1][s] \in Nat /\ det[v].counts[s] \in Nat
      BY <1>2, <1>6, <2>0 DEF Bag
    <3>3. CASE s = f
      BY <2>0, <3>1, <3>2, <3>3
    <3>4. CASE s # f
      BY <2>0, <3>1, <3>2, <3>4
    <3> QED BY <3>3, <3>4
  <2>4. v \in Int /\ w \in Int
    BY <1>2
  <2>5. v < w \/ v = w \/ v > w
    BY <2>4
  <2> QED BY <2>1, <2>2, <2>3, <2>5
<1> HIDE DEF q
<1>9. AddsUp(q)'
  BY <1>3, <1>5, <1>7, <1>8 DEF AddsUp
<1> QED BY <1>9 DEF Counted

\* The result gets the counts of the next shard.
LEMMA MergeCounted ==
  ASSUME Inv, Counted, MergeShard
  PROVE  Counted'
<1>1. PICK p : AddsUp(p)
  BY DEF Counted
<1>2. /\ next \in Worker /\ next' = next + 1 /\ merged' = absorb(merged, det[next])
      /\ det' = det /\ tally' = tally /\ merged \in Detector /\ det[next] \in Detector
  BY DEF MergeShard, shardVars, Inv, Good
<1>3. /\ Workers \in Nat /\ next \in 1 .. Workers /\ ~Scanning /\ ~Scanning'
  BY <1>2, FindingsAssumption DEF Worker, Scanning
<1>4. merged.counts = p[next - 1] /\ p[next] \in Bag /\ p[next - 1] \in Bag
  BY <1>1, <1>3 DEF AddsUp
<1>5. /\ merged'.counts \in Bag
      /\ \A s \in Severity : merged'.counts[s] = merged.counts[s] + det[next].counts[s]
  BY <1>2, AbsorbCounts DEF Severity
<1>6. \A s \in Severity : merged'.counts[s] = p[next][s]
  BY <1>1, <1>2, <1>4, <1>5 DEF AddsUp
<1>7. merged'.counts = p[next]
  BY <1>4, <1>5, <1>6 DEF Bag
<1>8. next' - 1 = next
  BY <1>2, <1>3
<1>9. AddsUp(p)'
  BY <1>1, <1>2, <1>3, <1>7, <1>8 DEF AddsUp
<1> QED BY <1>9 DEF Counted

\* Every step keeps the counts in step.
LEMMA NextCounted == Inv /\ Counted /\ [DetectorNext]_detectorVars => Counted'
<1> SUFFICES ASSUME Inv, Counted, [DetectorNext]_detectorVars PROVE Counted'
  OBVIOUS
<1>0. PICK p : AddsUp(p)
  BY DEF Counted
<1>1. CASE \E w \in Worker : Visit(w)
  <2>1. det' = det /\ merged' = merged /\ tally' = tally /\ next' = next
    BY <1>1 DEF Visit, resultVars
  <2>2. AddsUp(p)'
    BY <1>0, <2>1 DEF AddsUp, Scanning
  <2> QED BY <2>2 DEF Counted
<1>2. CASE \E w \in Worker, f \in Severity : Inspect(w, f)
  BY <1>2, InspectCounted
<1>3. CASE EndScan
  <2>1. /\ det' = det /\ merged' = merged /\ tally' = tally /\ next' = 1 /\ Scanning
    BY <1>3 DEF EndScan, shardVars
  <2>2. merged.counts = p[0] /\ next' - 1 = 0 /\ ~Scanning'
    BY <1>0, <2>1 DEF AddsUp, Scanning
  <2>3. AddsUp(p)'
    BY <1>0, <2>1, <2>2 DEF AddsUp
  <2> QED BY <2>3 DEF Counted
<1>4. CASE MergeShard
  BY <1>4, MergeCounted
<1>5. CASE \E f \in Severity : MergeFinding(f)
  <2>1. PICK f \in Severity : MergeFinding(f)
    BY <1>5
  <2>2. /\ det' = det /\ merged' = retain(merged, f) /\ tally' = tally /\ next' = next
        /\ merged \in Detector
    BY <2>1 DEF MergeFinding, shardVars, Inv, Good
  <2>3. merged'.counts = merged.counts
    BY <2>2, RetainCounts
  <2>4. AddsUp(p)'
    BY <1>0, <2>2, <2>3 DEF AddsUp, Scanning
  <2> QED BY <2>4 DEF Counted
<1>6. CASE UNCHANGED detectorVars
  <2>1. det' = det /\ merged' = merged /\ tally' = tally /\ next' = next
    BY <1>6 DEF detectorVars, shardVars, resultVars
  <2>2. AddsUp(p)'
    BY <1>0, <2>1 DEF AddsUp, Scanning
  <2> QED BY <2>2 DEF Counted
<1> QED BY <1>1, <1>2, <1>3, <1>4, <1>5, <1>6 DEF DetectorNext, DetectorStop

\* The counts of the report are those of all hits, whichever worker met them and
\* whatever the caps discarded (internal/findings/rules.go: Merge).
THEOREM CountsAreExact == DetectorSpec => []CountsExact
<1>1. DetectorSpec => []Counted
  BY InitCounted, NextCounted, SpecInv, PTL DEF DetectorSpec
<1>2. Counted => CountsExact
  <2> SUFFICES ASSUME Counted, Done PROVE merged.counts = tally
    BY DEF CountsExact
  <2>1. Workers \in Nat /\ next = Workers + 1
    BY FindingsAssumption DEF Done
  <2>2. next - 1 = Workers /\ ~Scanning
    BY <2>1 DEF Scanning
  <2> QED BY <2>2 DEF Counted, AddsUp
<1> QED BY <1>1, <1>2, PTL
=============================================================================
