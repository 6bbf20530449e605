------------------------------- MODULE Tally --------------------------------
(***************************************************************************)
(* What the summaries of internal/stats are made of, as values: counters,  *)
(* sums, times, latencies and sparse maps, each with its way to add one    *)
(* entry and its way to merge two shards.                                  *)
(*                                                                         *)
(* A counter is a bag of keys, in a record of counters by their names; ""  *)
(* is no key. 0 is the zero time, and a duration below 0 is unknown.       *)
(***************************************************************************)
EXTENDS Integers, SequencesExt

OtherKey == "(other)"
CountOf(c, k) == IF k \in DOMAIN c THEN c[k] ELSE 0

\* Counter.add and Counter.merge, for each counter of a record.
add(c, k) == IF k = "" THEN c ELSE c (+) SetToBag({k})
addKeys(by, keys) == [n \in DOMAIN by |-> add(by[n], keys[n])]
merge(by, other) == [n \in DOMAIN by |-> by[n] (+) other[n]]
NoKeys(names) == [n \in names |-> EmptyBag]

\* Sum(f, S): f added up over S.
Sum(f, S) == MapThenSumSet(LAMBDA x : f[x], S)

\* Sums by name.
plus(a, b) == [n \in DOMAIN a |-> a[n] + b[n]]
NoSums(names) == [n \in names |-> 0]
One(condition) == IF condition THEN 1 ELSE 0
OneKey(k, n) == [key |-> k, n |-> n]    \* n more under key k

\* First and Last.
NoSpan == [first |-> 0, last |-> 0]
widen(s, o) ==
  [first |-> IF o.first > 0 /\ (s.first = 0 \/ o.first < s.first) THEN o.first ELSE s.first,
   last |-> IF o.last > s.last THEN o.last ELSE s.last]
At(t) == [first |-> t, last |-> t]

\* LatStat.
NoLat == [count |-> 0, sum |-> 0, min |-> 0, max |-> 0]
mergeLat(l, o) ==
  IF o.count = 0 THEN l
  ELSE [count |-> l.count + o.count, sum |-> l.sum + o.sum,
        min |-> IF l.count = 0 \/ o.min < l.min THEN o.min ELSE l.min,
        max |-> IF o.max > l.max THEN o.max ELSE l.max]
addLat(l, v) == IF v < 0 THEN l ELSE mergeLat(l, [count |-> 1, sum |-> v, min |-> v, max |-> v])

\* A sparse map: a key that is absent starts from zero.
ValueAt(m, k, zero) == IF k \in DOMAIN m THEN m[k] ELSE zero
over(f, m) == [k \in DOMAIN f \cup DOMAIN m |-> IF k \in DOMAIN f THEN f[k] ELSE m[k]]    \* what f has, and m else
into(m, K, op(_, _), zero) ==    \* op(value, key) at every key of K
  [k \in DOMAIN m \cup K |-> IF k \in K THEN op(ValueAt(m, k, zero), k) ELSE m[k]]
mergeMaps(m, o, op(_, _), zero) == into(m, DOMAIN o, LAMBDA v, k : op(v, o[k]), zero)

\* A capped counter: a new key that does not fit counts under OtherKey. Maps are
\* merged in any order, so any of the new keys may be those that still fit.
Room(c, max) == LET n == max - Cardinality(DOMAIN c) IN IF n > 0 THEN n ELSE 0
capAdd(c, k, n, max) ==
  IF k = "" \/ n = 0 THEN c
  ELSE LET to == IF k \in DOMAIN c \/ Room(c, max) > 0 THEN k ELSE OtherKey
       IN  into(c, {to}, LAMBDA v, x : v + n, 0)
capMerge(c, o, max) ==
  LET new == DOMAIN o \ DOMAIN c
      with(fit) == LET folded == new \ fit
                       named == into(c, DOMAIN o \ folded, LAMBDA v, k : v + o[k], 0)
                   IN  IF folded = {} THEN named
                       ELSE into(named, {OtherKey}, LAMBDA v, k : v + Sum(o, folded), 0)
  IN  {with(fit) : fit \in kSubset(Min({Room(c, max), Cardinality(new)}), new)}

\* Every choice of one element of sets[n], for each name n.
EveryPick(sets) ==
  LET picks[names \in SUBSET DOMAIN sets] ==
        IF names = {} THEN {<<>>}
        ELSE LET n == CHOOSE x \in names : TRUE
             IN  {[m \in names |-> IF m = n THEN x ELSE f[m]] : x \in sets[n], f \in picks[names \ {n}]}
  IN  picks[DOMAIN sets]

\* The n earliest of a sequence, in the order of time and then of arrival.
earliest(c, n) ==
  LET before(i) == {j \in DOMAIN c : c[j].time < c[i].time \/ (c[j].time = c[i].time /\ j < i)}
  IN  [p \in 1..Min({n, Len(c)}) |-> c[CHOOSE i \in DOMAIN c : Cardinality(before(i)) = p - 1]]
-----------------------------------------------------------------------------
\* The same, of a whole set of entries: what any sequence of adds and merges
\* should come to.
CountAll(S, key(_)) == [k \in {key(e) : e \in S} |-> Cardinality({e \in S : key(e) = k})]
CountKeys(S, key(_)) == CountAll({e \in S : key(e) # ""}, key)
SumOf(S, n(_)) == Sum([e \in S |-> n(e)], S)
SpanOf(S) == IF S = {} THEN NoSpan
             ELSE [first |-> Min({e.time : e \in S}), last |-> Max({e.time : e \in S})]
LatOf(S, v(_)) ==
  LET M == {e \in S : v(e) >= 0}
  IN  IF M = {} THEN NoLat
      ELSE [count |-> Cardinality(M), sum |-> SumOf(M, v),
            min |-> Min({v(e) : e \in M}), max |-> Max({v(e) : e \in M})]
\* A capped counter over S: the total is exact, no named key has too much, and a
\* counter that never folded is exact.
CappedOf(c, S, key(_), n(_)) ==
  LET K == {e \in S : key(e) # "" /\ n(e) > 0}
      truth(k) == SumOf({e \in K : key(e) = k}, n)
  IN  /\ Sum(c, DOMAIN c) = SumOf(K, n)
      /\ \A k \in DOMAIN c \ {OtherKey} : c[k] <= truth(k)
      /\ OtherKey \notin DOMAIN c => DOMAIN c = {key(e) : e \in K}
-----------------------------------------------------------------------------
\* Findings of totals: the most severe and then the most numerous first, ties by
\* actor, rule (rank is the order of texts), time and detail; the cap drops no CRITICAL one.
LOW == 1
MEDIUM == 2
HIGH == 3
CRITICAL == 4
Hit(rule, severity, actor, count, time) ==
  [rule |-> rule, severity |-> severity, actor |-> actor, count |-> count, time |-> time, detail |-> 0, key |-> ""]
Above(a, b, rank) ==
  \/ a.severity > b.severity
  \/ a.severity = b.severity /\ a.count > b.count
  \/ /\ a.severity = b.severity /\ a.count = b.count
     /\ \/ rank[a.actor] < rank[b.actor]
        \/ a.actor = b.actor /\ rank[a.rule] < rank[b.rule]
        \/ a.actor = b.actor /\ a.rule = b.rule /\ a.time < b.time
        \/ a.actor = b.actor /\ a.rule = b.rule /\ a.time = b.time /\ a.detail < b.detail
cappedAlike(hits, max, rank) ==    \* (A wrong variant: the cap drops CRITICAL findings too.)
  LET first == {X \in kSubset(Min({max, Cardinality(hits)}), hits) : \A x \in X, y \in hits \ X : ~Above(y, x, rank)}
  IN  {[found |-> X, dropped |-> Cardinality(hits \ X)] : X \in first}
capped(hits, max, rank) ==    \* the outcomes: hits that nothing tells apart come in any order
  LET critical == {h \in hits : h.severity = CRITICAL}
      others == hits \ critical
      room == Min({Max({max - Cardinality(critical), 0}), Cardinality(others)})
      first == {X \in kSubset(room, others) : \A x \in X, y \in others \ X : ~Above(y, x, rank)}
  IN  {[found |-> critical \cup X, dropped |-> Cardinality(others \ X)] : X \in first}
MaxSeverity(hits) == IF hits = {} THEN 0 ELSE Max({h.severity : h \in hits})
=============================================================================
