----------------------------- MODULE LokiProofs -----------------------------
(***************************************************************************)
(* The proofs about the Loki sink, for every number of writers, senders,   *)
(* attempts and lines. A written line is answered for, held by a writer,   *)
(* offered to a sender, in flight, or pending in Close, unless the sink    *)
(* has failed; and in event mode every line in flight or answered for      *)
(* comes before every pending one.                                         *)
(***************************************************************************)
EXTENDS Loki, FiniteSetTheorems, SequenceTheorems, TLAPS

\* A written line that Loki has not answered for is on its way.
OnItsWay(x) == \/ \E w \in Writer : x \in Elems(buf[w])
               \/ \E w \in Writer : x \in Elems(offered[w])
               \/ \E s \in sends : x \in Elems(s.batch)
               \/ \E n \in 1 .. Len(pending) : x \in Elems(pending[n])

NothingLost == ~failed => \A x \in Written : x \in answered \/ OnItsWay(x)

\* And nothing is sent that was not written.
NothingMadeUp == /\ answered \subseteq Written
                 /\ \A w \in Writer : Elems(buf[w]) \cup Elems(offered[w]) \subseteq Written
                 /\ \A s \in sends : Elems(s.batch) \subseteq Written
                 /\ \A n \in 1 .. Len(pending) : Elems(pending[n]) \subseteq Written

\* What each phase may hold.
Phases == /\ failed = err
          /\ outcome = "open" <=> phase # "closed"
          /\ phase = "open" => pending = <<>>
          /\ phase # "open" => \A w \in Writer : buf[w] = <<>> /\ offered[w] = <<>>
          /\ phase = "closed" => pending = <<>> /\ sends = {}
          /\ eventTime => \A w \in Writer : offered[w] = <<>>
          /\ eventTime /\ phase = "open" => sends = {} /\ answered = {}
          /\ eventTime /\ failed => sends = {}

\* The lines the writers hold.
Held == UNION {Elems(buf[w]) : w \in Writer}

\* The bounds of the batches and of the buffers.
Bounds == /\ IsFiniteSet(sends)
          /\ ~eventTime => \A w \in Writer : Len(buf[w]) < BatchLines
          /\ eventTime => Cardinality(Held) <= buffered

\* In event mode the lines go out one after the other.
InOrder == eventTime /\ ~failed =>
  /\ \A m, n \in 1 .. Len(pending) : m < n =>
       \A x \in Elems(pending[m]), y \in Elems(pending[n]) : Before(x, y)
  /\ \A n \in 1 .. Len(pending) : \A y \in Elems(pending[n]) :
       /\ \A x \in answered : Before(x, y)
       /\ \A s \in sends : \A x \in Elems(s.batch) : Before(x, y)
  /\ \A s \in sends : \/ Elems(s.batch) \subseteq answered
                      \/ Elems(s.batch) \cap answered = {}
  /\ \A s \in sends : \A x \in answered \ Elems(s.batch), y \in Elems(s.batch) : Before(x, y)

IInv == TypeOK /\ Phases /\ Bounds /\ NothingLost /\ NothingMadeUp /\ InOrder /\ OldestFirst
-----------------------------------------------------------------------------
\* Before orders the lines: by stream, then by time.
LEMMA BeforeOrders ==
  ASSUME NEW x \in Nat \X Nat, NEW y \in Nat \X Nat, NEW z \in Nat \X Nat
  PROVE  /\ ~Before(x, x)
         /\ Before(x, y) \/ Before(y, x) \/ x = y
         /\ Before(x, y) /\ Before(y, z) => Before(x, z)
<1>1. /\ x = <<x[1], x[2]>> /\ x[1] \in Nat /\ x[2] \in Nat
      /\ y = <<y[1], y[2]>> /\ y[1] \in Nat /\ y[2] \in Nat
      /\ z[1] \in Nat /\ z[2] \in Nat
  OBVIOUS
<1> QED
  BY <1>1 DEF Before

\* What pushSorted rests on: a finite set of lines can be sorted. A line's place
\* is the number of lines before it, plus one.
LEMMA SortedFacts ==
  ASSUME NEW S \in SUBSET (Nat \X Nat), IsFiniteSet(S)
  PROVE  /\ Cardinality(S) \in Nat
         /\ Sorted(S) \in [1 .. Cardinality(S) -> S]
         /\ \A i, j \in 1 .. Cardinality(S) : i < j => Before(Sorted(S)[i], Sorted(S)[j])
         /\ \A x \in S : \E i \in 1 .. Cardinality(S) : Sorted(S)[i] = x
<1> DEFINE n == Cardinality(S)
           Below(x) == {y \in S : Before(y, x)}
           place == [x \in S |-> Cardinality(Below(x)) + 1]
<1>1. n \in Nat /\ IsFiniteSet(1 .. n) /\ Cardinality(1 .. n) = n
  <2>1. n \in Nat
    BY FS_CardinalityType
  <2> HIDE DEF n
  <2>2. IsFiniteSet(1 .. n) /\ Cardinality(1 .. n) = IF 1 > n THEN 0 ELSE n - 1 + 1
    BY <2>1, FS_Interval
  <2> QED  BY <2>1, <2>2
<1>2. ASSUME NEW x \in S
      PROVE  IsFiniteSet(Below(x)) /\ Cardinality(Below(x)) \in Nat /\ place[x] \in 1 .. n
  <2>1. Below(x) \subseteq S \ {x}
    BY BeforeOrders
  <2>2. IsFiniteSet(S \ {x}) /\ Cardinality(S \ {x}) = n - 1
    BY FS_RemoveElement
  <2>3. IsFiniteSet(Below(x)) /\ Cardinality(Below(x)) <= n - 1
    BY <2>1, <2>2, FS_Subset
  <2>4. Cardinality(Below(x)) \in Nat
    BY <2>3, FS_CardinalityType
  <2>5. place[x] = Cardinality(Below(x)) + 1
    OBVIOUS
  <2> HIDE DEF n, Below, place
  <2> QED  BY <1>1, <2>3, <2>4, <2>5
<1>3. ASSUME NEW x \in S, NEW y \in S, Before(x, y)
      PROVE  place[x] < place[y]
  <2>1. Below(x) \cup {x} \subseteq Below(y) /\ x \notin Below(x)
    <3>1. ASSUME NEW z \in Below(x) PROVE z \in Below(y)
      BY <1>3, <3>1, BeforeOrders
    <3>2. x \notin Below(x)
      BY BeforeOrders
    <3> QED  BY <1>3, <3>1, <3>2
  <2>2. IsFiniteSet(Below(x) \cup {x}) /\ Cardinality(Below(x) \cup {x}) = Cardinality(Below(x)) + 1
    BY <1>2, <2>1, FS_AddElement
  <2>3. Cardinality(Below(x) \cup {x}) <= Cardinality(Below(y))
    BY <1>2, <2>1, FS_Subset
  <2>4. place[x] = Cardinality(Below(x)) + 1 /\ place[y] = Cardinality(Below(y)) + 1
    OBVIOUS
  <2>5. Cardinality(Below(x)) \in Nat /\ Cardinality(Below(y)) \in Nat
    BY <1>2
  <2> HIDE DEF Below, place
  <2> QED  BY <2>2, <2>3, <2>4, <2>5
<1>4. place \in Surjection(S, 1 .. n)
  <2>1. place \in [S -> 1 .. n]
    BY <1>2
  <2>2. \A x, y \in S : place[x] = place[y] => x = y
    <3> SUFFICES ASSUME NEW x \in S, NEW y \in S, x # y PROVE place[x] # place[y]
      OBVIOUS
    <3>1. Before(x, y) \/ Before(y, x)
      BY BeforeOrders
    <3> HIDE DEF place, Below, n
    <3>2. place[x] \in Nat /\ place[y] \in Nat
      BY <1>1, <1>2
    <3> QED  BY <1>3, <3>1, <3>2
  <2>3. place \in Injection(S, 1 .. n)
    BY <2>1, <2>2 DEF Injection, IsInjective
  <2> HIDE DEF place
  <2> QED  BY <1>1, <2>3, FS_Injection DEF n
<1>5. \A i \in 1 .. n : \E x \in S : place[x] = i
  BY <1>4 DEF Surjection
<1> HIDE DEF place
<1>6. \E s \in [1 .. n -> S] : \A i, j \in DOMAIN s : i < j => Before(s[i], s[j])
  <2> DEFINE s == [i \in 1 .. n |-> CHOOSE x \in S : place[x] = i]
  <2>1. s \in [1 .. n -> S] /\ \A i \in 1 .. n : place[s[i]] = i
    BY <1>5
  <2> HIDE DEF s
  <2>2. ASSUME NEW i \in 1 .. n, NEW j \in 1 .. n, i < j
        PROVE  Before(s[i], s[j])
    <3>1. s[i] \in S /\ s[j] \in S /\ place[s[i]] = i /\ place[s[j]] = j
      BY <2>1
    <3>2. s[i] # s[j] /\ ~Before(s[j], s[i])
      BY <1>1, <1>3, <2>2, <3>1
    <3> QED  BY <3>1, <3>2, BeforeOrders
  <2> QED  BY <2>1, <2>2
<1>7. /\ Sorted(S) \in [1 .. n -> S]
      /\ \A i, j \in DOMAIN Sorted(S) : i < j => Before(Sorted(S)[i], Sorted(S)[j])
  BY <1>6 DEF Sorted
<1>8. \A x \in S : \E i \in 1 .. n : Sorted(S)[i] = x
  <2>1. \A i, j \in 1 .. n : Sorted(S)[i] = Sorted(S)[j] => i = j
    <3> SUFFICES ASSUME NEW i \in 1 .. n, NEW j \in 1 .. n, i < j PROVE Sorted(S)[i] # Sorted(S)[j]
      BY <1>1
    <3>1. Sorted(S)[i] \in S /\ Before(Sorted(S)[i], Sorted(S)[j])
      BY <1>7
    <3> QED  BY <3>1, BeforeOrders
  <2>2. Sorted(S) \in Injection(1 .. n, S)
    BY <1>7, <2>1 DEF Injection, IsInjective
  <2>3. Sorted(S) \in Surjection(1 .. n, S)
    BY <1>1, <2>2, FS_Injection
  <2> QED  BY <2>3 DEF Surjection
<1> QED
  BY <1>1, <1>7, <1>8

\* A product of one more.
LEMMA Times ==
  ASSUME NEW k \in Nat \ {0}, NEW b \in Nat
  PROVE  k * b = (k - 1) * b + b
  OBVIOUS

\* Batches cuts a list into batches: none is empty or too long, the k-th holds
\* what lies between its bounds, and every line is in one.
LEMMA BatchesFacts ==
  ASSUME NEW n \in Nat, NEW s \in [1 .. n -> Line]
  PROVE  /\ Batches(s) \in Seq(Batch)
         /\ \A k \in 1 .. Len(Batches(s)) : \A x \in Elems(Batches(s)[k]) :
              \E i \in 1 .. n : (k - 1) * BatchLines < i /\ i <= k * BatchLines /\ x = s[i]
         /\ \A i \in 1 .. n : \E k \in 1 .. Len(Batches(s)) : s[i] \in Elems(Batches(s)[k])
<1> DEFINE B == BatchLines
           m == (n + B - 1) \div B
           End(k) == IF k * B < n THEN k * B ELSE n
<1>1. B \in Nat \ {0}
  BY LokiAssumption
<1>2. Len(s) = n
  OBVIOUS
<1>3. m \in Nat /\ m * B <= n + B - 1 /\ n <= m * B
  <2> HIDE DEF B
  <2> QED  BY <1>1
<1>4. Batches(s) = [k \in 1 .. m |-> SubSeq(s, (k - 1) * B + 1, End(k))]
  BY <1>2 DEF Batches
<1>5. ASSUME NEW k \in 1 .. m
      PROVE  /\ (k - 1) * B \in Nat /\ End(k) \in 1 .. n
             /\ (k - 1) * B < End(k) /\ End(k) - (k - 1) * B <= B
  <2>1. (k - 1) * B \in Nat /\ k * B = (k - 1) * B + B /\ (k - 1) * B + B <= m * B
    <3> HIDE DEF B, m
    <3> QED  BY <1>1, <1>3
  <2> HIDE DEF B, m
  <2> QED  BY <1>1, <1>3, <2>1
<1> HIDE DEF m, B, End
<1>6. ASSUME NEW k \in 1 .. m
      PROVE  /\ Batches(s)[k] \in Batch
             /\ \A j \in 1 .. End(k) - (k - 1) * B : Batches(s)[k][j] = s[(k - 1) * B + j]
             /\ DOMAIN Batches(s)[k] = 1 .. End(k) - (k - 1) * B
  <2>1. PICK a \in Nat : a = (k - 1) * B
    BY <1>5
  <2>2. PICK e \in 1 .. n : e = End(k)
    BY <1>5
  <2>3. Batches(s)[k] = SubSeq(s, a + 1, e) /\ a < e /\ e - a <= B /\ e - a \in 1 .. B
    BY <1>1, <1>4, <1>5, <2>1, <2>2
  <2>4. /\ SubSeq(s, a + 1, e) \in Seq(Line) /\ Len(SubSeq(s, a + 1, e)) = e - a
        /\ \A j \in 1 .. e - a : SubSeq(s, a + 1, e)[j] = s[a + j]
    <3>1. a + 1 \in Int /\ e \in Int /\ a + 1 <= e /\ \A j \in a + 1 .. e : s[j] \in Line
      BY <2>3
    <3>2. /\ SubSeq(s, a + 1, e) \in Seq(Line)
          /\ Len(SubSeq(s, a + 1, e)) = IF a + 1 <= e THEN e - (a + 1) + 1 ELSE 0
          /\ \A j \in 1 .. e - (a + 1) + 1 : SubSeq(s, a + 1, e)[j] = s[(a + 1) + j - 1]
      BY <3>1, SubSeqProperties
    <3>3. \A j \in 1 .. e - a : (a + 1) + j - 1 = a + j
      OBVIOUS
    <3>4. e - (a + 1) + 1 = e - a
      OBVIOUS
    <3>5. \A j \in 1 .. e - a : SubSeq(s, a + 1, e)[j] = s[a + j]
      BY <3>2, <3>3, <3>4
    <3> QED  BY <3>1, <3>2, <3>4, <3>5
  <2> DEFINE t == SubSeq(s, a + 1, e)
  <2>5. /\ t \in [1 .. e - a -> Line] /\ t = Batches(s)[k]
        /\ \A j \in 1 .. e - a : t[j] = s[a + j]
    <3>1. /\ t \in Seq(Line) /\ Len(t) = e - a
          /\ t = Batches(s)[k] /\ \A j \in 1 .. e - a : t[j] = s[a + j]
      BY <2>3, <2>4
    <3> HIDE DEF t
    <3> QED  BY <3>1
  <2> HIDE DEF t
  <2>6. t \in Batch
    BY <2>3, <2>5 DEF Batch, B
  <2>7. DOMAIN t = 1 .. e - a
    BY <2>5
  <2>8. e - a = End(k) - (k - 1) * B
    BY <2>1, <2>2
  <2>9. \A j \in 1 .. e - a : s[a + j] = s[(k - 1) * B + j]
    BY <2>1
  <2>10. \A j \in 1 .. e - a : Batches(s)[k][j] = s[(k - 1) * B + j]
    BY <2>5, <2>9
  <2>11. DOMAIN Batches(s)[k] = 1 .. e - a /\ Batches(s)[k] \in Batch
    BY <2>5, <2>6, <2>7
  <2> QED  BY <2>8, <2>10, <2>11
<1>7. Batches(s) \in Seq(Batch) /\ Len(Batches(s)) = m
  <2>1. Batches(s) \in [1 .. m -> Batch]
    BY <1>4, <1>6
  <2> QED  BY <1>3, <2>1
<1>8. ASSUME NEW k \in 1 .. m, NEW x \in Elems(Batches(s)[k])
      PROVE  \E i \in 1 .. n : (k - 1) * B < i /\ i <= k * B /\ x = s[i]
  <2>1. PICK j \in 1 .. End(k) - (k - 1) * B : x = s[(k - 1) * B + j]
    <3>1. PICK j \in DOMAIN Batches(s)[k] : x = Batches(s)[k][j]
      BY DEF Elems
    <3>2. j \in 1 .. End(k) - (k - 1) * B /\ Batches(s)[k][j] = s[(k - 1) * B + j]
      BY <1>6
    <3> QED  BY <3>1, <3>2
  <2>2. PICK a \in Nat : a = (k - 1) * B
    BY <1>5
  <2>3. k * B = a + B
    <3>1. k \in Nat \ {0} /\ B \in Nat
      BY <1>1, <1>3
    <3> QED  BY <2>2, <3>1, Times
  <2>4. a + j \in 1 .. n /\ a < a + j /\ a + j <= k * B
    BY <1>1, <1>5, <2>2, <2>3
  <2> QED  BY <2>1, <2>2, <2>4
<1>9. ASSUME NEW i \in 1 .. n
      PROVE  \E k \in 1 .. m : s[i] \in Elems(Batches(s)[k])
  <2>1. PICK q \in Nat : q * B < i /\ i <= q * B + B
    <3> DEFINE q == (i - 1) \div B
    <3>1. q \in Nat /\ q * B <= i - 1 /\ i - 1 < q * B + B
      BY <1>1
    <3> HIDE DEF q
    <3>2. q * B \in Int
      BY <1>1, <3>1
    <3>3. q * B < i /\ i <= q * B + B
      BY <1>1, <3>1, <3>2
    <3> QED  BY <3>1, <3>3
  <2> DEFINE k == q + 1
  <2>2. (k - 1) * B = q * B /\ k * B = q * B + B /\ q * B \in Nat
    BY <1>1
  <2>3. k \in 1 .. m
    <3>1. q * B < m * B
      BY <1>1, <1>3, <2>1, <2>2
    <3>2. q < m
      BY <1>1, <1>3, <3>1
    <3> QED  BY <1>3, <3>2
  <2>4. End(k) = IF q * B + B < n THEN q * B + B ELSE n
    BY <2>2 DEF End
  <2>5. i - q * B \in 1 .. End(k) - q * B
    BY <1>1, <2>1, <2>2, <2>4
  <2> HIDE DEF k
  <2>6. Batches(s)[k][i - q * B] = s[q * B + (i - q * B)]
    BY <1>6, <2>2, <2>3, <2>5
  <2>7. q * B + (i - q * B) = i
    BY <2>2
  <2>8. i - q * B \in DOMAIN Batches(s)[k]
    BY <1>6, <2>2, <2>3, <2>5
  <2> QED  BY <2>3, <2>6, <2>7, <2>8 DEF Elems
<1> QED
  BY <1>7, <1>8, <1>9 DEF B

\* Together: pushSorted sends every line it has, the older ones first.
LEMMA SortedBatches ==
  ASSUME NEW S \in SUBSET Line, NEW p, p = Batches(Sorted(S))
  PROVE  /\ p \in Seq(Batch)
         /\ \A k \in 1 .. Len(p) : Elems(p[k]) \subseteq S
         /\ \A x \in S : \E k \in 1 .. Len(p) : x \in Elems(p[k])
         /\ \A k, l \in 1 .. Len(p) : k < l =>
              \A x \in Elems(p[k]), y \in Elems(p[l]) : Before(x, y)
<1>1. S \in SUBSET (Nat \X Nat) /\ IsFiniteSet(S)
  BY LokiAssumption, FS_Subset
<1>2. PICK n \in Nat : n = Cardinality(S)
  BY <1>1, FS_CardinalityType
<1>3. PICK s \in [1 .. n -> S] : s = Sorted(S)
  BY <1>1, <1>2, SortedFacts
<1>4. /\ \A i, j \in 1 .. n : i < j => Before(s[i], s[j])
      /\ \A x \in S : \E i \in 1 .. n : s[i] = x
  BY <1>1, <1>2, <1>3, SortedFacts
<1>5. s \in [1 .. n -> Line]
  OBVIOUS
<1>6. p \in Seq(Batch) /\ Len(p) \in Nat
  BY <1>3, <1>5, BatchesFacts
<1>7. ASSUME NEW k \in 1 .. Len(p), NEW x \in Elems(p[k])
      PROVE  \E i \in 1 .. n : (k - 1) * BatchLines < i /\ i <= k * BatchLines /\ x = s[i]
  BY <1>3, <1>5, BatchesFacts
<1>8. \A i \in 1 .. n : \E k \in 1 .. Len(p) : s[i] \in Elems(p[k])
  BY <1>3, <1>5, BatchesFacts
<1>9. ASSUME NEW k \in 1 .. Len(p), NEW l \in 1 .. Len(p), k < l, NEW x \in Elems(p[k]), NEW y \in Elems(p[l])
      PROVE  Before(x, y)
  <2>1. PICK i \in 1 .. n : i <= k * BatchLines /\ x = s[i]
    BY <1>7
  <2>2. PICK j \in 1 .. n : (l - 1) * BatchLines < j /\ y = s[j]
    BY <1>7
  <2>3. k \in Nat /\ l - 1 \in Nat /\ k <= l - 1 /\ BatchLines \in Nat
    BY <1>6, <1>9, LokiAssumption
  <2>4. k * BatchLines <= (l - 1) * BatchLines /\ k * BatchLines \in Nat /\ (l - 1) * BatchLines \in Nat
    BY <2>3
  <2>5. i < j
    BY <2>1, <2>2, <2>4
  <2> QED  BY <1>4, <2>1, <2>2, <2>5
<1>10. \A k \in 1 .. Len(p) : Elems(p[k]) \subseteq S
  <2> SUFFICES ASSUME NEW k \in 1 .. Len(p), NEW x \in Elems(p[k]) PROVE x \in S
    OBVIOUS
  <2>1. PICK i \in 1 .. n : x = s[i]
    BY <1>7
  <2>2. s[i] \in S
    OBVIOUS
  <2> QED  BY <2>1, <2>2
<1>11. \A x \in S : \E k \in 1 .. Len(p) : x \in Elems(p[k])
  BY <1>4, <1>8
<1> QED
  BY <1>6, <1>9, <1>10, <1>11
-----------------------------------------------------------------------------
\* The lines of a list, and of a list with one more.
LEMMA ElemsFacts ==
  ASSUME NEW s \in Seq(Line), NEW l \in Line
  PROVE  /\ <<>> \in Seq(Line) /\ Elems(<<>>) = {} /\ Elems(s) \subseteq Line
         /\ Append(s, l) \in Seq(Line) /\ Len(Append(s, l)) = Len(s) + 1
         /\ Elems(Append(s, l)) = Elems(s) \cup {l}
<1> DEFINE t == Append(s, l)
<1>1. /\ t \in Seq(Line) /\ Len(s) \in Nat /\ Len(t) = Len(s) + 1
      /\ DOMAIN s = 1 .. Len(s) /\ DOMAIN t = 1 .. Len(s) + 1
      /\ t[Len(s) + 1] = l /\ \A i \in 1 .. Len(s) : t[i] = s[i]
  OBVIOUS
<1> HIDE DEF t
<1>2. Elems(t) = Elems(s) \cup {l}
  <2>1. Elems(t) \subseteq Elems(s) \cup {l}
    BY <1>1 DEF Elems
  <2>2. Elems(s) \subseteq Elems(t)
    BY <1>1 DEF Elems
  <2>3. l \in Elems(t)
    BY <1>1 DEF Elems
  <2> QED  BY <2>1, <2>2, <2>3
<1>3. <<>> \in Seq(Line) /\ Elems(<<>>) = {} /\ Elems(s) \subseteq Line
  BY DEF Elems
<1> QED
  BY <1>1, <1>2, <1>3 DEF t

\* The writers together hold no more than they held and the line just written.
LEMMA HeldFacts ==
  ASSUME NEW b \in [Writer -> Seq(Line)], NEW c \in [Writer -> Seq(Line)], NEW l \in Line,
         NEW S, S = UNION {Elems(b[w]) : w \in Writer}, NEW T, T = UNION {Elems(c[w]) : w \in Writer},
         \A w \in Writer : Elems(c[w]) \subseteq Elems(b[w]) \cup {l}
  PROVE  /\ S \subseteq Line /\ Cardinality(S) \in Nat /\ Cardinality(T) \in Nat
         /\ Cardinality(T) <= Cardinality(S) + 1
<1>1. S \subseteq Line /\ T \subseteq S \cup {l}
  <2>1. \A w \in Writer : Elems(b[w]) \subseteq Line
    BY ElemsFacts
  <2>2. S \subseteq Line
    BY <2>1
  <2>3. T \subseteq S \cup {l}
    OBVIOUS
  <2> QED  BY <2>2, <2>3
<1>2. IsFiniteSet(S) /\ IsFiniteSet(S \cup {l}) /\ Cardinality(S \cup {l}) <= Cardinality(S) + 1
  <2>1. IsFiniteSet(S)
    BY <1>1, LokiAssumption, FS_Subset
  <2>2. Cardinality(S) \in Nat
    BY <2>1, FS_CardinalityType
  <2>3. /\ IsFiniteSet(S \cup {l})
        /\ Cardinality(S \cup {l}) = IF l \in S THEN Cardinality(S) ELSE Cardinality(S) + 1
    BY <2>1, FS_AddElement
  <2> QED  BY <2>1, <2>2, <2>3
<1>3. IsFiniteSet(T) /\ Cardinality(T) <= Cardinality(S \cup {l})
  BY <1>1, <1>2, FS_Subset
<1>4. Cardinality(S) \in Nat /\ Cardinality(T) \in Nat /\ Cardinality(S \cup {l}) \in Nat
  BY <1>2, <1>3, FS_CardinalityType
<1> QED
  BY <1>1, <1>2, <1>3, <1>4

\* A sender that leaves, or goes on in another state, leaves no more senders.
LEMMA SendersFacts ==
  ASSUME NEW S, IsFiniteSet(S), NEW s \in S, NEW t
  PROVE  /\ IsFiniteSet(S \ {s}) /\ IsFiniteSet((S \ {s}) \cup {t}) /\ IsFiniteSet(S \cup {t})
         /\ Cardinality(S) \in Nat /\ Cardinality(S \ {s}) = Cardinality(S) - 1
         /\ Cardinality((S \ {s}) \cup {t}) <= Cardinality(S)
<1>1. IsFiniteSet(S \ {s}) /\ Cardinality(S \ {s}) = Cardinality(S) - 1 /\ Cardinality(S) \in Nat
  BY FS_RemoveElement, FS_CardinalityType
<1>2. IsFiniteSet(S \cup {t})
  BY FS_AddElement
<1> DEFINE R == S \ {s}
<1>3. IsFiniteSet(R) /\ Cardinality(R) \in Nat
  BY <1>1, FS_CardinalityType
<1> HIDE DEF R
<1>4. /\ IsFiniteSet(R \cup {t})
      /\ Cardinality(R \cup {t}) = IF t \in R THEN Cardinality(R) ELSE Cardinality(R) + 1
  BY <1>3, FS_AddElement
<1>5. Cardinality(R \cup {t}) <= Cardinality(S) /\ Cardinality(R) = Cardinality(S) - 1
  BY <1>1, <1>3, <1>4 DEF R
<1> QED
  BY <1>1, <1>2, <1>4, <1>5 DEF R
-----------------------------------------------------------------------------
\* A write adds its line to the written ones.
LEMMA WriteFacts ==
  ASSUME IInv, NEW w \in Writer, NEW l \in unwritten, MayWrite(w, l), unwritten' = unwritten \ {l}
  PROVE  /\ l \in Line /\ unwritten' \subseteq Line /\ Written' = Written \cup {l}
         /\ phase = "open" /\ pending = <<>> /\ offered[w] = <<>>
         /\ eventTime => answered = {} /\ sends = {}
  BY DEF IInv, TypeOK, Phases, MayWrite, Written

\* A line is dropped once the sink has failed.
LEMMA WriteDroppedKeeps ==
  ASSUME IInv, NEW w \in Writer, NEW l \in unwritten, WriteDropped(w, l)
  PROVE  IInv'
<1>1. /\ l \in Line /\ unwritten' \subseteq Line /\ Written' = Written \cup {l} /\ failed
      /\ eventTime => answered = {}
      /\ UNCHANGED <<eventTime, buf, offered, buffered, sends, failed, err, rejected, pending, phase,
                      outcome, answered>>
  BY WriteFacts DEF WriteDropped, closeVars
<1>2. TypeOK'
  BY <1>1 DEF IInv, TypeOK, Senders
<1>3. Phases' /\ Bounds'
  BY <1>1 DEF IInv, Phases, Bounds, Held
<1>4. NothingLost' /\ InOrder'
  BY <1>1 DEF NothingLost, InOrder
<1>5. NothingMadeUp'
  BY <1>1 DEF IInv, NothingMadeUp
<1>6. OldestFirst'
  BY <1>1 DEF OldestFirst
<1> QED
  BY <1>2, <1>3, <1>4, <1>5, <1>6 DEF IInv

\* In event mode a line is held, or the sink fails for want of room.
LEMMA WriteEventKeeps ==
  ASSUME IInv, NEW w \in Writer, NEW l \in unwritten, WriteEvent(w, l)
  PROVE  IInv'
<1>1. /\ l \in Line /\ unwritten' \subseteq Line /\ Written' = Written \cup {l} /\ ~failed /\ eventTime
      /\ phase = "open" /\ pending = <<>> /\ sends = {} /\ answered = {}
      /\ buffered' = buffered + 1
      /\ UNCHANGED <<eventTime, offered, sends, rejected, pending, phase, outcome, answered>>
  BY WriteFacts DEF WriteEvent, closeVars
<1>2. \/ buffered < MaxLines /\ buf' = [buf EXCEPT ![w] = Append(@, l)] /\ failed' = failed /\ err' = err
      \/ buf' = [buf EXCEPT ![w] = <<>>] /\ failed' = TRUE /\ err' = TRUE
  BY DEF WriteEvent, Room, Fail
<1>3. buf \in [Writer -> Seq(Line)] /\ buffered \in Nat /\ MaxLines \in Nat
  BY LokiAssumption DEF IInv, TypeOK
<1>4. /\ <<>> \in Seq(Line) /\ Elems(<<>>) = {} /\ Append(buf[w], l) \in Seq(Line)
      /\ Elems(Append(buf[w], l)) = Elems(buf[w]) \cup {l}
  BY <1>1, <1>3, ElemsFacts
<1>5. /\ buf' \in [Writer -> Seq(Line)]
      /\ \A v \in Writer : Elems(buf'[v]) \subseteq Elems(buf[v]) \cup {l}
  <2> DEFINE b == Append(buf[w], l)
  <2>1. PICK c \in {b, <<>>} : buf' = [buf EXCEPT ![w] = c]
    BY <1>2
  <2>2. c \in Seq(Line) /\ Elems(c) \subseteq Elems(buf[w]) \cup {l}
    BY <1>4
  <2> QED  BY <1>3, <2>1, <2>2
<1>6. /\ Cardinality(Held) \in Nat /\ Cardinality(Held') \in Nat
      /\ Cardinality(Held') <= Cardinality(Held) + 1
  BY <1>1, <1>3, <1>5, HeldFacts DEF Held
<1>7. ~failed' => Cardinality(Held') <= MaxLines
  BY <1>1, <1>2, <1>3, <1>6 DEF IInv, Bounds
<1>8. failed' => Held' \subseteq Held
  BY <1>1, <1>2, <1>3, <1>4 DEF Held
<1>9. Cardinality(Held') <= MaxLines
  <2>1. Cardinality(Held) <= MaxLines
    BY <1>1 DEF IInv, TypeOK, Held
  <2>2. IsFiniteSet(Held)
    BY <1>1, <1>3, LokiAssumption, ElemsFacts, FS_Subset DEF Held
  <2>3. failed' => Cardinality(Held') <= Cardinality(Held)
    BY <1>8, <2>2, FS_Subset
  <2> QED  BY <1>3, <1>6, <1>7, <2>1, <2>3
<1>10. Cardinality(Held') <= buffered'
  BY <1>1, <1>3, <1>6 DEF IInv, Bounds
<1>11. TypeOK'
  <2>1. failed' \in BOOLEAN /\ err' \in BOOLEAN /\ buffered' \in Nat
    <3>1. buffered' \in Nat
      BY <1>1, <1>3
    <3>2. failed' \in BOOLEAN /\ err' \in BOOLEAN
      BY <1>2 DEF IInv, TypeOK
    <3> QED  BY <3>1, <3>2
  <2>2. Cardinality(UNION {Elems(buf'[v]) : v \in Writer}) <= MaxLines
    BY <1>9 DEF Held
  <2> QED  BY <1>1, <1>5, <2>1, <2>2 DEF IInv, TypeOK, Senders
<1>12. Phases' /\ Bounds'
  BY <1>1, <1>2, <1>10 DEF IInv, Phases, Bounds
<1>13. NothingLost'
  <2> SUFFICES ASSUME ~failed', NEW x \in Written' PROVE OnItsWay(x)'
    BY <1>1 DEF NothingLost
  <2>1. /\ \A v \in Writer : Elems(buf[v]) \subseteq Elems(buf'[v])
        /\ l \in Elems(buf'[w])
    BY <1>2, <1>3, <1>4
  <2>2. CASE x = l
    BY <2>1, <2>2 DEF OnItsWay
  <2>3. CASE x \in Written
    <3>1. OnItsWay(x)
      BY <1>1, <2>3 DEF IInv, NothingLost
    <3> QED  BY <1>1, <2>1, <3>1 DEF OnItsWay
  <2> QED  BY <1>1, <2>2, <2>3
<1>14. NothingMadeUp'
  BY <1>1, <1>5 DEF IInv, NothingMadeUp
<1>15. InOrder' /\ OldestFirst'
  BY <1>1 DEF InOrder, OldestFirst
<1> QED
  BY <1>11, <1>12, <1>13, <1>14, <1>15 DEF IInv

\* In scan mode a line goes to the buffer, and a full buffer to send.
LEMMA WriteScanKeeps ==
  ASSUME IInv, NEW w \in Writer, NEW l \in unwritten, WriteScan(w, l)
  PROVE  IInv'
<1> DEFINE b == Append(buf[w], l)
<1>1. /\ l \in Line /\ unwritten' \subseteq Line /\ Written' = Written \cup {l} /\ ~failed /\ ~eventTime
      /\ phase = "open" /\ pending = <<>> /\ offered[w] = <<>>
      /\ UNCHANGED <<eventTime, buffered, sends, failed, err, rejected, pending, phase, outcome, answered>>
  BY WriteFacts DEF WriteScan, closeVars
<1>2. \/ Len(b) >= BatchLines /\ buf' = [buf EXCEPT ![w] = <<>>] /\ offered' = [offered EXCEPT ![w] = b]
      \/ ~(Len(b) >= BatchLines) /\ buf' = [buf EXCEPT ![w] = b] /\ offered' = offered
  BY DEF WriteScan
<1>3. /\ buf \in [Writer -> Seq(Line)] /\ offered \in [Writer -> Batch \cup {<<>>}] /\ BatchLines \in Nat \ {0}
      /\ Len(buf[w]) < BatchLines
  BY <1>1, LokiAssumption DEF IInv, TypeOK, Bounds
<1>4. /\ <<>> \in Seq(Line) /\ Len(<<>>) = 0 /\ Elems(<<>>) = {}
      /\ b \in Seq(Line) /\ Elems(b) = Elems(buf[w]) \cup {l} /\ Len(b) = Len(buf[w]) + 1
  BY <1>1, <1>3, ElemsFacts
<1> HIDE DEF b
<1>5. Len(b) >= BatchLines => b \in Batch
  <2> SUFFICES ASSUME Len(b) >= BatchLines PROVE b \in Batch
    OBVIOUS
  <2>1. Len(b) = BatchLines
    BY <1>3, <1>4
  <2>2. b \in [1 .. BatchLines -> Line]
    BY <1>4, <2>1
  <2>3. BatchLines \in 1 .. BatchLines
    BY <1>3
  <2> QED  BY <2>2, <2>3 DEF Batch
<1>6. /\ buf' \in [Writer -> Seq(Line)] /\ offered' \in [Writer -> Batch \cup {<<>>}]
      /\ \A v \in Writer : Len(buf'[v]) < BatchLines
  <2>1. \A v \in Writer : Len(buf[v]) < BatchLines
    BY <1>1 DEF IInv, Bounds
  <2>2. PICK c \in Seq(Line), d \in Batch \cup {<<>>} :
          /\ buf' = [buf EXCEPT ![w] = c] /\ Len(c) < BatchLines
          /\ offered' = [offered EXCEPT ![w] = d]
    <3>1. CASE Len(b) >= BatchLines
      <4>1. buf' = [buf EXCEPT ![w] = <<>>] /\ offered' = [offered EXCEPT ![w] = b] /\ b \in Batch
        BY <1>2, <1>5, <3>1
      <4>2. Len(<<>>) < BatchLines /\ <<>> \in Seq(Line)
        BY <1>3, <1>4
      <4> QED  BY <4>1, <4>2
    <3>2. CASE ~(Len(b) >= BatchLines)
      <4>1. Len(b) < BatchLines
        BY <1>3, <1>4, <3>2
      <4>2. offered' = [offered EXCEPT ![w] = <<>>]
        BY <1>1, <1>2, <1>3, <3>2
      <4> QED  BY <1>2, <1>4, <3>2, <4>1, <4>2
    <3> QED  BY <3>1, <3>2
  <2>3. /\ \A v \in Writer : buf'[v] = IF v = w THEN c ELSE buf[v]
        /\ buf' \in [Writer -> Seq(Line)] /\ offered' \in [Writer -> Batch \cup {<<>>}]
    BY <1>3, <2>2
  <2> QED  BY <2>1, <2>2, <2>3
<1>7. TypeOK'
  BY <1>1, <1>6 DEF IInv, TypeOK, Senders
<1>8. Phases' /\ Bounds'
  BY <1>1, <1>6 DEF IInv, Phases, Bounds
<1>9. \A v \in Writer :
        /\ Elems(buf[v]) \cup Elems(offered[v]) \subseteq Elems(buf'[v]) \cup Elems(offered'[v])
        /\ Elems(buf'[v]) \cup Elems(offered'[v]) \subseteq Elems(buf[v]) \cup Elems(offered[v]) \cup {l}
        /\ v = w => l \in Elems(buf'[v]) \cup Elems(offered'[v])
  BY <1>1, <1>2, <1>3, <1>4
<1>10. NothingLost'
  <2> SUFFICES ASSUME NEW x \in Written' PROVE x \in answered' \/ OnItsWay(x)'
    BY DEF NothingLost
  <2>1. CASE x = l
    BY <1>9, <2>1 DEF OnItsWay
  <2>2. CASE x \in Written
    <3>1. x \in answered \/ OnItsWay(x)
      BY <1>1, <2>2 DEF IInv, NothingLost
    <3> QED  BY <1>1, <1>9, <3>1 DEF OnItsWay
  <2> QED  BY <1>1, <2>1, <2>2
<1>11. NothingMadeUp'
  BY <1>1, <1>9 DEF IInv, NothingMadeUp
<1>12. InOrder' /\ OldestFirst'
  BY <1>1 DEF InOrder, OldestFirst
<1> QED
  BY <1>7, <1>8, <1>10, <1>11, <1>12 DEF IInv
-----------------------------------------------------------------------------
\* What a sender may be.
SenderType == [batch : Batch, try : 1 .. Attempts, pc : {"start", "post"}]

\* A batch in flight is a sender; its lines are the batch's.
LEMMA SendingFacts ==
  ASSUME NEW b \in Batch, NEW n \in 1 .. Attempts, NEW pc \in {"start", "post"}
  PROVE  /\ Sending(b, n, pc) \in SenderType /\ Sending(b, n, pc).batch = b
         /\ Sending(b, n, pc).try = n /\ Sending(b, n, pc).pc = pc
  BY DEF Sending, SenderType

\* A full buffer is handed to a sender.
LEMMA SendKeeps ==
  ASSUME IInv, NEW w \in Writer, Send(w)
  PROVE  IInv'
<1> DEFINE t == Sending(offered[w], 1, "start")
<1>1. /\ offered[w] # <<>> /\ Cardinality(sends) < Senders
      /\ sends' = sends \cup {t} /\ offered' = [offered EXCEPT ![w] = <<>>]
      /\ UNCHANGED <<eventTime, unwritten, buf, buffered, failed, err, rejected, pending, phase, outcome,
                      answered>>
  BY DEF Send, FreeSlot, closeVars
<1>2. /\ phase = "open" /\ ~eventTime /\ offered \in [Writer -> Batch \cup {<<>>}]
      /\ Senders \in Nat /\ IsFiniteSet(sends)
  BY <1>1, LokiAssumption DEF IInv, Phases, TypeOK, Bounds, Senders
<1>3. t \in SenderType /\ t.batch = offered[w]
  <2>1. offered[w] \in Batch /\ 1 \in 1 .. Attempts
    BY <1>1, <1>2, LokiAssumption
  <2> QED  BY <2>1, SendingFacts
<1> HIDE DEF t
<1>4. IsFiniteSet(sends') /\ Cardinality(sends') <= Senders
  <2>1. Cardinality(sends) \in Nat
    BY <1>2, FS_CardinalityType
  <2>2. IsFiniteSet(sends') /\ Cardinality(sends') = IF t \in sends THEN Cardinality(sends) ELSE Cardinality(sends) + 1
    BY <1>1, <1>2, FS_AddElement
  <2> QED  BY <1>1, <1>2, <2>1, <2>2
<1>5. /\ offered' \in [Writer -> Batch \cup {<<>>}] /\ Elems(<<>>) = {}
      /\ \A v \in Writer : offered'[v] = IF v = w THEN <<>> ELSE offered[v]
  BY <1>1, <1>2 DEF Elems
<1>6. TypeOK'
  BY <1>1, <1>3, <1>4, <1>5 DEF IInv, TypeOK, Senders, SenderType
<1>7. Phases' /\ Bounds'
  BY <1>1, <1>2, <1>4 DEF IInv, Phases, Bounds
<1>8. NothingLost'
  <2> SUFFICES ASSUME ~failed, NEW x \in Written PROVE x \in answered \/ OnItsWay(x)'
    BY <1>1 DEF NothingLost, Written
  <2>1. x \in answered \/ OnItsWay(x)
    BY DEF IInv, NothingLost
  <2>2. ASSUME NEW v \in Writer, x \in Elems(offered[v]) PROVE OnItsWay(x)'
    <3>1. CASE v = w
      BY <1>1, <1>3, <2>2, <3>1 DEF OnItsWay
    <3>2. CASE v # w
      BY <1>5, <2>2, <3>2 DEF OnItsWay
    <3> QED  BY <3>1, <3>2
  <2> QED  BY <1>1, <2>1, <2>2 DEF OnItsWay
<1>9. NothingMadeUp'
  BY <1>1, <1>3, <1>5 DEF IInv, NothingMadeUp, Written
<1>10. InOrder' /\ OldestFirst'
  BY <1>1, <1>2 DEF InOrder, OldestFirst
<1> QED
  BY <1>6, <1>7, <1>8, <1>9, <1>10 DEF IInv

\* In event mode there is one sender, while Close runs, and none after a failure.
LEMMA OneSender ==
  ASSUME IInv, NEW s \in sends
  PROVE  /\ phase # "closed"
         /\ eventTime => sends = {s} /\ phase = "closing" /\ ~failed
<1>1. phase # "closed"
  BY DEF IInv, Phases
<1>2. ASSUME eventTime PROVE sends = {s} /\ phase = "closing" /\ ~failed
  <2>1. phase = "closing" /\ ~failed
    BY <1>1, <1>2 DEF IInv, Phases, TypeOK
  <2>2. IsFiniteSet(sends) /\ Cardinality(sends) <= 1
    BY <1>2 DEF IInv, Bounds, TypeOK, Senders
  <2>3. IsFiniteSet(sends \ {s}) /\ Cardinality(sends \ {s}) = Cardinality(sends) - 1
    BY <2>2, FS_RemoveElement
  <2>4. Cardinality(sends \ {s}) \in Nat /\ Cardinality(sends) \in Nat
    BY <2>2, <2>3, FS_CardinalityType
  <2>5. Cardinality(sends \ {s}) = 0
    BY <2>2, <2>3, <2>4
  <2>6. sends \ {s} = {}
    BY <2>3, <2>5, FS_EmptySet
  <2> QED  BY <2>1, <2>6
<1> QED
  BY <1>1, <1>2

\* A sender leaves, or goes on with its batch; its lines may now be answered for.
\* It leaves lines without an answer only when the sink has failed.
SenderGoes(s, T) ==
  /\ T = {} \/ \E t \in SenderType : T = {t} /\ t.batch = s.batch
  /\ sends' = (sends \ {s}) \cup T
  /\ answered' = answered \/ answered' = answered \cup Elems(s.batch)
  /\ (failed' = failed /\ err' = err) \/ (failed' = TRUE /\ err' = TRUE)
  /\ T # {} => failed' = failed
  /\ T = {} /\ ~failed' => answered' = answered \cup Elems(s.batch)
  /\ rejected' \in Nat
  /\ UNCHANGED <<writerVars, closeVars>>

\* Every such step keeps the invariant.
LEMMA SenderKeeps ==
  ASSUME IInv, NEW s \in sends, NEW T, SenderGoes(s, T)
  PROVE  IInv'
<1>0. /\ UNCHANGED <<eventTime, unwritten, buf, offered, buffered, pending, phase, outcome>> /\ Written' = Written
      /\ rejected' \in Nat
  BY DEF SenderGoes, writerVars, closeVars, Written
<1>1. /\ sends' = (sends \ {s}) \cup T /\ T \subseteq SenderType /\ \A t \in T : t.batch = s.batch
      /\ T = {} \/ \E t : T = {t}
      /\ T = {} /\ ~failed' => answered' = answered \cup Elems(s.batch)
  BY DEF SenderGoes
<1>2. answered' = answered \/ answered' = answered \cup Elems(s.batch)
  BY DEF SenderGoes
<1>3. /\ (failed' = failed /\ err' = err) \/ (failed' = TRUE /\ err' = TRUE)
      /\ ~failed' => ~failed
      /\ T # {} => failed' = failed
  BY DEF SenderGoes
<1>4. phase # "closed" /\ (eventTime => sends = {s} /\ phase = "closing" /\ ~failed)
  BY OneSender
<1>5. Elems(s.batch) \subseteq Written /\ answered \subseteq Written /\ Written \subseteq Line
  BY DEF IInv, NothingMadeUp, Written
<1>6. IsFiniteSet(sends') /\ Cardinality(sends') <= Senders
  <2>1. IsFiniteSet(sends) /\ Cardinality(sends) <= Senders /\ Senders \in Nat
    BY LokiAssumption DEF IInv, TypeOK, Bounds, Senders
  <2>2. IsFiniteSet(sends') /\ Cardinality(sends') <= Cardinality(sends) /\ Cardinality(sends) \in Nat
    <3>1. CASE T = {}
      <4>1. sends' = sends \ {s}
        BY <1>1, <3>1
      <4>2. /\ IsFiniteSet(sends \ {s}) /\ Cardinality(sends) \in Nat
            /\ Cardinality(sends \ {s}) = Cardinality(sends) - 1
        BY <2>1, SendersFacts
      <4> QED  BY <4>1, <4>2
    <3>2. ASSUME NEW t, T = {t}
          PROVE  IsFiniteSet(sends') /\ Cardinality(sends') <= Cardinality(sends) /\ Cardinality(sends) \in Nat
      BY <1>1, <2>1, <3>2, SendersFacts
    <3> QED  BY <1>1, <3>1, <3>2
  <2>3. Cardinality(sends') \in Nat
    BY <2>2, FS_CardinalityType
  <2> QED  BY <2>1, <2>2, <2>3
<1>7. TypeOK'
  <2>1. failed' \in BOOLEAN /\ err' \in BOOLEAN
    BY <1>3 DEF IInv, TypeOK
  <2>2. sends \subseteq SenderType
    BY DEF IInv, TypeOK, SenderType
  <2>3. sends' \subseteq SenderType
    BY <1>1, <2>2
  <2>4. answered' \subseteq Line
    BY <1>2, <1>5
  <2> QED  BY <1>0, <1>6, <2>1, <2>3, <2>4 DEF IInv, TypeOK, Senders, SenderType
<1>8. Phases'
  <2>1. ASSUME eventTime, failed' PROVE sends' = {}
    <3>1. ~failed /\ sends = {s}
      BY <1>4, <2>1
    <3>2. T = {}
      BY <1>3, <2>1, <3>1
    <3> QED  BY <1>1, <3>1, <3>2
  <2>2. eventTime => phase # "open"
    BY <1>4
  <2>3. failed' = err'
    BY <1>3 DEF IInv, Phases
  <2> QED  BY <1>0, <1>4, <2>1, <2>2, <2>3 DEF IInv, Phases
<1>9. Bounds'
  BY <1>0, <1>6 DEF IInv, Bounds, Held
<1>10. NothingLost'
  <2> SUFFICES ASSUME ~failed', NEW x \in Written PROVE x \in answered' \/ OnItsWay(x)'
    BY <1>0 DEF NothingLost
  <2>1. x \in answered \/ OnItsWay(x)
    BY <1>3 DEF IInv, NothingLost
  <2>2. ASSUME NEW u \in sends, x \in Elems(u.batch)
        PROVE  x \in answered' \/ \E t \in sends' : x \in Elems(t.batch)
    <3>1. CASE u # s
      BY <1>1, <2>2, <3>1
    <3>2. CASE u = s /\ T = {}
      BY <1>1, <2>2, <3>2
    <3>3. ASSUME u = s, NEW t, T = {t} PROVE \E v \in sends' : x \in Elems(v.batch)
      BY <1>1, <2>2, <3>3
    <3> QED  BY <1>1, <3>1, <3>2, <3>3
  <2> QED  BY <1>0, <1>2, <2>1, <2>2 DEF OnItsWay
<1>11. NothingMadeUp'
  <2>1. \A u \in sends' : Elems(u.batch) \subseteq Written
    BY <1>1, <1>5 DEF IInv, NothingMadeUp
  <2> QED  BY <1>0, <1>2, <1>5, <2>1 DEF IInv, NothingMadeUp
<1>12. InOrder'
  <2> SUFFICES ASSUME eventTime, ~failed' PROVE InOrder'
    BY <1>0 DEF InOrder
  <2>1. sends = {s} /\ sends' = T /\ ~failed
    BY <1>1, <1>4
  <2>2. /\ \A n \in 1 .. Len(pending) : \A y \in Elems(pending[n]) :
             /\ \A x \in answered : Before(x, y)
             /\ \A x \in Elems(s.batch) : Before(x, y)
        /\ Elems(s.batch) \subseteq answered \/ Elems(s.batch) \cap answered = {}
        /\ \A x \in answered \ Elems(s.batch), y \in Elems(s.batch) : Before(x, y)
    BY <2>1 DEF IInv, InOrder
  <2>3. /\ \A m, n \in 1 .. Len(pending') : m < n =>
             \A x \in Elems(pending'[m]), y \in Elems(pending'[n]) : Before(x, y)
        /\ \A n \in 1 .. Len(pending') : \A y \in Elems(pending'[n]) : \A x \in answered' : Before(x, y)
    <3>1. \A m, n \in 1 .. Len(pending) : m < n =>
             \A x \in Elems(pending[m]), y \in Elems(pending[n]) : Before(x, y)
      BY <2>1 DEF IInv, InOrder
    <3>2. \A n \in 1 .. Len(pending) : \A y \in Elems(pending[n]) : \A x \in answered' : Before(x, y)
      BY <1>2, <2>2
    <3> QED  BY <1>0, <3>1, <3>2
  <2>4. ASSUME NEW t \in sends'
        PROVE  /\ \A n \in 1 .. Len(pending') : \A y \in Elems(pending'[n]) : \A x \in Elems(t.batch) : Before(x, y)
               /\ Elems(t.batch) \subseteq answered' \/ Elems(t.batch) \cap answered' = {}
               /\ \A x \in answered' \ Elems(t.batch), y \in Elems(t.batch) : Before(x, y)
    <3>1. t.batch = s.batch
      BY <1>1, <2>1
    <3>2. Elems(s.batch) \subseteq answered' \/ Elems(s.batch) \cap answered' = {}
      BY <1>2, <2>2
    <3>3. \A x \in answered' \ Elems(s.batch), y \in Elems(s.batch) : Before(x, y)
      BY <1>2, <2>2
    <3> QED  BY <1>0, <2>2, <3>1, <3>2, <3>3
  <2> QED  BY <2>3, <2>4 DEF InOrder
<1>13. OldestFirst'
  <2> SUFFICES ASSUME eventTime, NEW x \in Written, NEW y \in answered', x[1] = y[1], x[2] < y[2], x \notin answered'
               PROVE  FALSE
    BY <1>0 DEF OldestFirst
  <2>1. sends = {s} /\ phase = "closing" /\ ~failed
    BY <1>4
  <2>2. y \in Line /\ x \in Line /\ x \notin answered
    BY <1>2, <1>5
  <2>3. ~Before(y, x)
    BY <2>2, LokiAssumption DEF Before
  <2>4. x \in Elems(s.batch) \/ \E n \in 1 .. Len(pending) : x \in Elems(pending[n])
    <3>1. \A w \in Writer : buf[w] = <<>> /\ offered[w] = <<>>
      BY <2>1 DEF IInv, Phases
    <3>2. Elems(<<>>) = {}
      BY DEF Elems
    <3> QED  BY <2>1, <2>2, <3>1, <3>2 DEF IInv, NothingLost, OnItsWay
  <2>5. CASE x \in Elems(s.batch)
    <3>1. answered' = answered /\ ~(Elems(s.batch) \subseteq answered)
      BY <1>2, <2>2, <2>5
    <3>2. y \notin Elems(s.batch)
      BY <2>1, <3>1 DEF IInv, InOrder
    <3>3. Before(y, x)
      BY <2>1, <2>5, <3>1, <3>2 DEF IInv, InOrder
    <3> QED  BY <2>3, <3>3
  <2>6. ASSUME NEW n \in 1 .. Len(pending), x \in Elems(pending[n]) PROVE FALSE
    <3>1. y \in answered \/ y \in Elems(s.batch)
      BY <1>2
    <3>2. Before(y, x)
      BY <2>1, <2>6, <3>1 DEF IInv, InOrder
    <3> QED  BY <2>3, <3>2
  <2> QED  BY <2>4, <2>5, <2>6
<1> QED
  BY <1>7, <1>8, <1>9, <1>10, <1>11, <1>12, <1>13 DEF IInv

\* Each step of a sender is one of these.
LEMMA SendersKeep ==
  ASSUME IInv, SendStep
  PROVE  IInv'
<1>1. PICK s \in sends : \/ Start(s) \/ PostOK(s) \/ PostRefused(s) \/ PostTooOld(s)
                         \/ \E stored \in BOOLEAN : PostRetries(s, stored)
  BY DEF SendStep
<1>2. s.batch \in Batch /\ s.try \in 1 .. Attempts /\ rejected \in Nat
  BY DEF IInv, TypeOK
<1>3. CASE Start(s)
  <2>1. CASE failed
    <3>1. err
      BY <2>1 DEF IInv, Phases
    <3> QED  BY <1>2, <1>3, <2>1, <3>1, SenderKeeps DEF Start, SenderGoes
  <2>2. CASE ~failed
    <3> DEFINE t == Sending(s.batch, 1, "post")
    <3>1. t \in SenderType /\ t.batch = s.batch
      BY <1>2, LokiAssumption, SendingFacts
    <3>2. SenderGoes(s, {t})
      BY <1>2, <1>3, <2>2, <3>1 DEF Start, SenderGoes
    <3> QED  BY <3>2, SenderKeeps
  <2> QED  BY <2>1, <2>2
<1>4. CASE PostOK(s)
  BY <1>2, <1>4, SenderKeeps DEF PostOK, SenderGoes
<1>5. CASE PostRefused(s)
  BY <1>2, <1>5, SenderKeeps DEF PostRefused, SenderGoes, Fail
<1>6. CASE PostTooOld(s)
  <2>1. /\ sends' = sends \ {s} /\ answered' = answered \cup Elems(s.batch)
        /\ (failed' = failed /\ err' = err) \/ (failed' = TRUE /\ err' = TRUE)
        /\ UNCHANGED <<writerVars, closeVars>>
    BY <1>6 DEF PostTooOld, Fail
  <2>2. rejected' \in Nat
    BY <1>2, <1>6 DEF PostTooOld
  <2>3. SenderGoes(s, {})
    BY <2>1, <2>2 DEF SenderGoes
  <2> QED  BY <2>3, SenderKeeps
<1>7. ASSUME NEW stored \in BOOLEAN, PostRetries(s, stored) PROVE IInv'
  <2>1. CASE s.try < Attempts
    <3> DEFINE t == Sending(s.batch, s.try + 1, "post")
    <3>1. s.try + 1 \in 1 .. Attempts
      BY <1>2, <2>1, LokiAssumption
    <3>2. t \in SenderType /\ t.batch = s.batch
      BY <1>2, <3>1, SendingFacts
    <3>3. SenderGoes(s, {t})
      BY <1>2, <1>7, <2>1, <3>2 DEF PostRetries, SenderGoes
    <3> QED  BY <3>3, SenderKeeps
  <2>2. CASE ~(s.try < Attempts)
    BY <1>2, <1>7, <2>2, SenderKeeps DEF PostRetries, SenderGoes, Fail
  <2> QED  BY <2>1, <2>2
<1> QED
  BY <1>1, <1>3, <1>4, <1>5, <1>6, <1>7

\* Close takes what the writers hold, in event mode sorted into batches.
LEMMA BeginCloseKeeps ==
  ASSUME IInv, BeginClose
  PROVE  IInv'
<1>1. /\ phase = "open" /\ phase' = "closing" /\ (\A w \in Writer : offered[w] = <<>>)
      /\ buf' = [w \in Writer |-> <<>>] /\ outcome = "open"
      /\ eventTime /\ failed => pending' = <<>>
      /\ eventTime /\ ~failed => pending' = Batches(Sorted(Held))
      /\ ~eventTime => pending' = buf
      /\ UNCHANGED <<eventTime, unwritten, offered, buffered, sends, failed, err, rejected, outcome, answered>>
      /\ Written' = Written
  BY DEF BeginClose, IInv, Phases, Held, Written
<1>2. buf \in [Writer -> Seq(Line)] /\ Writers \in Nat /\ Elems(<<>>) = {} /\ <<>> \in Seq(Line)
  BY LokiAssumption DEF IInv, TypeOK, Elems
<1>3. Held \subseteq Line /\ Held \subseteq Written
  BY <1>2 DEF Held, Written, Elems, IInv, NothingMadeUp
<1>4. eventTime /\ ~failed =>
        /\ pending' \in Seq(Batch)
        /\ \A k \in 1 .. Len(pending') : Elems(pending'[k]) \subseteq Held
        /\ \A x \in Held : \E k \in 1 .. Len(pending') : x \in Elems(pending'[k])
        /\ \A k, l \in 1 .. Len(pending') : k < l =>
             \A x \in Elems(pending'[k]), y \in Elems(pending'[l]) : Before(x, y)
  BY <1>1, <1>3, SortedBatches
<1>5. ~eventTime => /\ pending' \in Seq(Batch \cup {<<>>}) /\ Len(pending') = Writers
                    /\ \A w \in Writer : pending'[w] = buf[w]
  <2> SUFFICES ASSUME ~eventTime
               PROVE  buf \in Seq(Batch \cup {<<>>}) /\ Len(buf) = Writers
    BY <1>1
  <2>1. ASSUME NEW w \in Writer PROVE buf[w] \in Batch \cup {<<>>}
    <3>1. buf[w] \in Seq(Line) /\ Len(buf[w]) < BatchLines /\ BatchLines \in Nat
      BY <1>2, LokiAssumption DEF IInv, Bounds
    <3>2. CASE buf[w] = <<>>
      BY <3>2
    <3>3. CASE buf[w] # <<>>
      <4>1. Len(buf[w]) \in 1 .. BatchLines /\ buf[w] \in [1 .. Len(buf[w]) -> Line]
        BY <3>1, <3>3
      <4> QED  BY <4>1 DEF Batch
    <3> QED  BY <3>2, <3>3
  <2>2. buf \in [1 .. Writers -> Batch \cup {<<>>}]
    BY <1>2, <2>1 DEF Writer
  <2> QED  BY <1>2, <2>2
<1>6. pending' \in Seq(Batch \cup {<<>>})
  <2>1. CASE eventTime /\ failed
    BY <1>1, <2>1
  <2>2. CASE eventTime /\ ~failed
    <3>1. pending' \in Seq(Batch)
      BY <1>4, <2>2
    <3> QED  BY <3>1
  <2>3. CASE ~eventTime
    BY <1>5, <2>3
  <2> QED  BY <2>1, <2>2, <2>3
<1>7. /\ \A w \in Writer : buf'[w] = <<>>
      /\ buf' \in [Writer -> Seq(Line)] /\ Held' = {} /\ Cardinality(Held') = 0
  <2>1. buf' \in [Writer -> Seq(Line)] /\ \A w \in Writer : buf'[w] = <<>>
    BY <1>1, <1>2
  <2>2. Held' = {}
    BY <1>2, <2>1 DEF Held
  <2> QED  BY <2>1, <2>2, FS_EmptySet
<1>8. TypeOK'
  <2>1. MaxLines \in Nat /\ buffered \in Nat
    BY LokiAssumption DEF IInv, TypeOK
  <2>2. Cardinality(UNION {Elems(buf'[w]) : w \in Writer}) <= MaxLines
    BY <1>7, <2>1 DEF Held
  <2> QED  BY <1>1, <1>6, <1>7, <2>2 DEF IInv, TypeOK, Senders
<1>9. Phases'
  BY <1>1, <1>7 DEF IInv, Phases
<1>10. Bounds'
  <2>1. 0 < BatchLines /\ Len(<<>>) = 0 /\ 0 <= buffered
    BY LokiAssumption DEF IInv, TypeOK
  <2> QED  BY <1>1, <1>7, <2>1 DEF IInv, Bounds
<1>11. NothingLost'
  <2> SUFFICES ASSUME ~failed, NEW x \in Written PROVE x \in answered \/ OnItsWay(x)'
    BY <1>1 DEF NothingLost
  <2>1. x \in answered \/ OnItsWay(x)
    BY DEF IInv, NothingLost
  <2>2. ASSUME NEW w \in Writer, x \in Elems(buf[w])
        PROVE  \E n \in 1 .. Len(pending') : x \in Elems(pending'[n])
    <3>1. CASE eventTime
      BY <1>4, <2>2, <3>1 DEF Held
    <3>2. CASE ~eventTime
      BY <1>5, <2>2, <3>2 DEF Writer
    <3> QED  BY <3>1, <3>2
  <2>3. pending = <<>>
    BY <1>1 DEF IInv, Phases
  <2> QED  BY <1>1, <1>2, <2>1, <2>2, <2>3 DEF OnItsWay
<1>12. NothingMadeUp'
  <2>1. ASSUME NEW n \in 1 .. Len(pending') PROVE Elems(pending'[n]) \subseteq Written
    <3>1. CASE eventTime /\ failed
      BY <1>1, <3>1
    <3>2. CASE eventTime /\ ~failed
      BY <1>3, <1>4, <3>2
    <3>3. CASE ~eventTime
      BY <1>5, <3>3 DEF Writer, IInv, NothingMadeUp
    <3> QED  BY <3>1, <3>2, <3>3
  <2> QED  BY <1>1, <1>2, <1>7, <2>1 DEF IInv, NothingMadeUp
<1>13. InOrder'
  <2> SUFFICES ASSUME eventTime, ~failed PROVE InOrder'
    BY <1>1 DEF InOrder
  <2>1. sends' = {} /\ answered' = {}
    BY <1>1 DEF IInv, Phases
  <2> QED  BY <1>4, <2>1 DEF InOrder
<1>14. OldestFirst'
  BY <1>1 DEF IInv, Phases, OldestFirst
<1> QED
  BY <1>8, <1>9, <1>10, <1>11, <1>12, <1>13, <1>14 DEF IInv

\* Close turns to the next batch: a sender gets it, or it is dropped.
LEMMA CloseSendKeeps ==
  ASSUME IInv, CloseSend
  PROVE  IInv'
<1> DEFINE h == Head(pending)
           rest == Tail(pending)
           t == Sending(h, 1, "start")
<1>1. /\ phase = "closing" /\ pending # <<>> /\ pending' = rest
      /\ \/ (failed \/ h = <<>>) /\ sends' = sends
         \/ ~failed /\ h # <<>> /\ Cardinality(sends) < Senders /\ sends' = sends \cup {t}
      /\ UNCHANGED <<eventTime, unwritten, buf, offered, buffered, failed, err, rejected, phase, outcome,
                      answered>>
      /\ Written' = Written
  BY DEF CloseSend, FreeSlot, writerVars, Written
<1>2. /\ pending \in Seq(Batch \cup {<<>>}) /\ Len(pending) \in Nat /\ Senders \in Nat /\ IsFiniteSet(sends)
      /\ Cardinality(sends) <= Senders
  BY LokiAssumption DEF IInv, TypeOK, Bounds, Senders
<1>3. /\ rest \in Seq(Batch \cup {<<>>}) /\ h \in Batch \cup {<<>>} /\ h = pending[1]
      /\ Len(rest) = Len(pending) - 1 /\ Len(rest) \in Nat
      /\ \A n \in 1 .. Len(rest) : rest[n] = pending[n + 1]
  BY <1>1, <1>2
<1>4. h # <<>> => t \in SenderType /\ t.batch = h
  <2>1. h # <<>> => h \in Batch
    BY <1>3
  <2> QED  BY <2>1, LokiAssumption, SendingFacts
<1> HIDE DEF h, rest, t
<1>5. /\ \A n \in 1 .. Len(rest) : n + 1 \in 1 .. Len(pending)
      /\ \A n \in 1 .. Len(pending) : n = 1 \/ \E m \in 1 .. Len(rest) : n = m + 1
      /\ 1 \in 1 .. Len(pending)
  <2>1. ASSUME NEW n \in 1 .. Len(pending), n # 1 PROVE n - 1 \in 1 .. Len(rest) /\ n = (n - 1) + 1
    BY <1>2, <1>3, <2>1
  <2> QED  BY <1>2, <1>3, <2>1
<1>6. Elems(<<>>) = {}
  BY DEF Elems
<1>7. IsFiniteSet(sends') /\ Cardinality(sends') <= Senders
  <2>1. CASE sends' = sends
    BY <1>2, <2>1
  <2>2. CASE Cardinality(sends) < Senders /\ sends' = sends \cup {t}
    <3>1. Cardinality(sends) \in Nat
      BY <1>2, FS_CardinalityType
    <3>2. /\ IsFiniteSet(sends')
          /\ Cardinality(sends') = IF t \in sends THEN Cardinality(sends) ELSE Cardinality(sends) + 1
      BY <1>2, <2>2, FS_AddElement
    <3> QED  BY <1>2, <2>2, <3>1, <3>2
  <2> QED  BY <1>1, <2>1, <2>2
<1>8. TypeOK'
  <2>1. sends' \subseteq SenderType
    BY <1>1, <1>4 DEF IInv, TypeOK, SenderType
  <2> QED  BY <1>1, <1>3, <1>7, <2>1 DEF IInv, TypeOK, Senders, SenderType
<1>9. Phases'
  BY <1>1 DEF IInv, Phases
<1>10. Bounds'
  BY <1>1, <1>7 DEF IInv, Bounds, Held
<1>11. NothingLost'
  <2> SUFFICES ASSUME ~failed, NEW x \in Written PROVE x \in answered \/ OnItsWay(x)'
    BY <1>1 DEF NothingLost
  <2>1. x \in answered \/ OnItsWay(x)
    BY DEF IInv, NothingLost
  <2>2. ASSUME NEW n \in 1 .. Len(pending), x \in Elems(pending[n]) PROVE OnItsWay(x)'
    <3>1. CASE n = 1
      <4>1. x \in Elems(h) /\ h # <<>>
        BY <1>3, <1>6, <2>2, <3>1
      <4>2. t \in sends' /\ t.batch = h
        BY <1>1, <1>4, <4>1
      <4> QED  BY <4>1, <4>2 DEF OnItsWay
    <3>2. ASSUME NEW m \in 1 .. Len(rest), n = m + 1 PROVE OnItsWay(x)'
      BY <1>1, <1>3, <2>2, <3>2 DEF OnItsWay
    <3> QED  BY <1>5, <3>1, <3>2
  <2>3. sends \subseteq sends'
    BY <1>1
  <2> QED  BY <1>1, <2>1, <2>2, <2>3 DEF OnItsWay
<1>12. NothingMadeUp'
  <2>1. Elems(h) \subseteq Written /\ \A n \in 1 .. Len(rest) : Elems(rest[n]) \subseteq Written
    BY <1>3, <1>5 DEF IInv, NothingMadeUp
  <2>2. \A u \in sends' : Elems(u.batch) \subseteq Written
    BY <1>1, <1>4, <2>1 DEF IInv, NothingMadeUp
  <2> QED  BY <1>1, <2>1, <2>2 DEF IInv, NothingMadeUp
<1>13. InOrder'
  <2> SUFFICES ASSUME eventTime, ~failed PROVE InOrder'
    BY <1>1 DEF InOrder
  <2>1. /\ \A m, n \in 1 .. Len(pending) : m < n =>
             \A x \in Elems(pending[m]), y \in Elems(pending[n]) : Before(x, y)
        /\ \A n \in 1 .. Len(pending) : \A y \in Elems(pending[n]) :
             /\ \A x \in answered : Before(x, y)
             /\ \A s \in sends : \A x \in Elems(s.batch) : Before(x, y)
        /\ \A s \in sends : \/ Elems(s.batch) \subseteq answered
                            \/ Elems(s.batch) \cap answered = {}
        /\ \A s \in sends : \A x \in answered \ Elems(s.batch), y \in Elems(s.batch) : Before(x, y)
    BY DEF IInv, InOrder
  <2>2. /\ \A m, n \in 1 .. Len(rest) : m < n =>
             \A x \in Elems(rest[m]), y \in Elems(rest[n]) : Before(x, y)
        /\ \A n \in 1 .. Len(rest) : \A y \in Elems(rest[n]) :
             /\ \A x \in answered : Before(x, y)
             /\ \A s \in sends : \A x \in Elems(s.batch) : Before(x, y)
             /\ \A x \in Elems(h) : Before(x, y)
    <3>1. ASSUME NEW m \in 1 .. Len(rest), NEW n \in 1 .. Len(rest), m < n,
                 NEW x \in Elems(rest[m]), NEW y \in Elems(rest[n])
          PROVE  Before(x, y)
      <4>1. m + 1 < n + 1
        BY <1>3, <3>1
      <4> QED  BY <1>3, <1>5, <2>1, <3>1, <4>1
    <3>2. ASSUME NEW n \in 1 .. Len(rest), NEW y \in Elems(rest[n])
          PROVE  /\ \A x \in answered : Before(x, y)
                 /\ \A s \in sends : \A x \in Elems(s.batch) : Before(x, y)
                 /\ \A x \in Elems(h) : Before(x, y)
      <4>1. 1 < n + 1 /\ y \in Elems(pending[n + 1])
        BY <1>3
      <4> QED  BY <1>3, <1>5, <2>1, <4>1
    <3> QED  BY <3>1, <3>2
  <2>3. \A x \in answered, y \in Elems(h) : Before(x, y)
    BY <1>3, <1>5, <2>1
  <2>4. Elems(h) \cap answered = {}
    <3> SUFFICES ASSUME NEW x \in Elems(h), x \in answered PROVE FALSE
      OBVIOUS
    <3>1. x \in Nat \X Nat
      BY LokiAssumption DEF IInv, NothingMadeUp, Written
    <3> QED  BY <2>3, <3>1, BeforeOrders
  <2>5. ASSUME NEW s \in sends'
        PROVE  /\ \A n \in 1 .. Len(rest) : \A y \in Elems(rest[n]) : \A x \in Elems(s.batch) : Before(x, y)
               /\ Elems(s.batch) \subseteq answered \/ Elems(s.batch) \cap answered = {}
               /\ \A x \in answered \ Elems(s.batch), y \in Elems(s.batch) : Before(x, y)
    <3>1. CASE s \in sends
      BY <2>1, <2>2, <3>1
    <3>2. CASE s \notin sends
      <4>1. s.batch = h
        BY <1>1, <1>4, <3>2
      <4> QED  BY <2>2, <2>3, <2>4, <4>1
    <3> QED  BY <3>1, <3>2
  <2> QED  BY <1>1, <2>2, <2>5 DEF InOrder
<1>14. OldestFirst'
  BY <1>1 DEF IInv, OldestFirst
<1> QED
  BY <1>8, <1>9, <1>10, <1>11, <1>12, <1>13, <1>14 DEF IInv

\* Close returns, or nothing happens.
LEMMA EndCloseKeeps ==
  ASSUME IInv, EndClose \/ UNCHANGED vars
  PROVE  IInv'
<1>1. /\ UNCHANGED <<eventTime, unwritten, buf, offered, buffered, sends, failed, err, rejected, pending, answered>>
      /\ Written' = Written
      /\ \/ /\ phase = "closing" /\ pending = <<>> /\ sends = {}
            /\ phase' = "closed" /\ outcome' \in {"nil", "error"}
         \/ phase' = phase /\ outcome' = outcome
  BY DEF EndClose, SendersOut, vars, writerVars, closeVars, Written
<1>2. TypeOK'
  BY <1>1 DEF IInv, TypeOK, Senders
<1>3. Phases'
  BY <1>1 DEF IInv, Phases
<1>4. Bounds'
  BY <1>1 DEF IInv, Bounds, Held
<1>5. NothingLost' /\ NothingMadeUp'
  BY <1>1 DEF IInv, NothingLost, NothingMadeUp, OnItsWay
<1>6. InOrder' /\ OldestFirst'
  BY <1>1 DEF IInv, InOrder, OldestFirst
<1> QED
  BY <1>2, <1>3, <1>4, <1>5, <1>6 DEF IInv

\* The invariant holds at the start.
LEMMA Opening == Init => IInv
<1> SUFFICES ASSUME Init PROVE IInv
  OBVIOUS
<1>1. /\ eventTime \in BOOLEAN /\ unwritten = Line /\ buf = [w \in Writer |-> <<>>] /\ offered = [w \in Writer |-> <<>>]
      /\ sends = {} /\ buffered = 0 /\ failed = FALSE /\ err = FALSE /\ rejected = 0
      /\ pending = <<>> /\ phase = "open" /\ outcome = "open" /\ answered = {} /\ Written = {}
  BY DEF Init, Written
<1>2. <<>> \in Seq(Line) /\ Elems(<<>>) = {} /\ Len(<<>>) = 0
  BY DEF Elems
<1>3. Held = {} /\ Cardinality(Held) = 0 /\ IsFiniteSet(sends) /\ Cardinality(sends) = 0
  <2>1. Held = {}
    BY <1>1, <1>2 DEF Held
  <2> QED  BY <1>1, <2>1, FS_EmptySet
<1>4. 0 < BatchLines /\ 0 <= MaxLines /\ 0 <= Senders
  BY LokiAssumption DEF Senders
<1>5. TypeOK
  <2>1. Cardinality(UNION {Elems(buf[w]) : w \in Writer}) <= MaxLines
    BY <1>3, <1>4 DEF Held
  <2>2. buf \in [Writer -> Seq(Line)] /\ offered \in [Writer -> Batch \cup {<<>>}]
    BY <1>1, <1>2
  <2>3. Cardinality(sends) <= Senders /\ buffered \in Nat /\ rejected \in Nat
    BY <1>1, <1>3, <1>4
  <2>4. pending \in Seq(Batch \cup {<<>>})
    BY <1>1
  <2>5. /\ eventTime \in BOOLEAN /\ unwritten \subseteq Line /\ failed \in BOOLEAN /\ err \in BOOLEAN
        /\ sends = {} /\ answered \subseteq Line
        /\ phase \in {"open", "closing", "closed"} /\ outcome \in {"open", "nil", "error"}
    BY <1>1
  <2> QED  BY <2>1, <2>2, <2>3, <2>4, <2>5 DEF TypeOK
<1>6. Phases
  BY <1>1 DEF Phases
<1>7. Bounds
  BY <1>1, <1>2, <1>3, <1>4 DEF Bounds
<1>8. NothingLost /\ NothingMadeUp
  BY <1>1, <1>2 DEF NothingLost, NothingMadeUp
<1>9. InOrder /\ OldestFirst
  BY <1>1 DEF InOrder, OldestFirst
<1> QED
  BY <1>5, <1>6, <1>7, <1>8, <1>9 DEF IInv

\* Every step keeps it.
LEMMA StepKeeps == IInv /\ [Next]_vars => IInv'
<1> SUFFICES ASSUME IInv, [Next]_vars PROVE IInv'
  OBVIOUS
<1>1. CASE WriteStep
  BY <1>1, WriteDroppedKeeps, WriteEventKeeps, WriteScanKeeps DEF WriteStep
<1>2. ASSUME NEW w \in Writer, Send(w) PROVE IInv'
  BY <1>2, SendKeeps
<1>3. CASE SendStep
  BY <1>3, SendersKeep
<1>4. CASE CloseStep
  BY <1>4, BeginCloseKeeps, CloseSendKeeps, EndCloseKeeps DEF CloseStep
<1>5. CASE Stop \/ UNCHANGED vars
  BY <1>5, EndCloseKeeps DEF Stop
<1> QED
  BY <1>1, <1>2, <1>3, <1>4, <1>5 DEF Next

\* Hence it holds throughout.
LEMMA Invariance == Spec => []IInv
  BY Opening, StepKeeps, PTL DEF Spec
-----------------------------------------------------------------------------
\* The state of the sink stays within its types: no batch is empty or longer
\* than BatchLines, no more senders run than there are slots, and in event mode
\* the writers together hold at most MaxLines lines (Write, flush and send in
\* sink/loki.go).
THEOREM TypesHold == Spec => []TypeOK
  BY Invariance, PTL DEF IInv

\* In event mode a line Loki answered for has no older written line of its
\* stream that Loki has not answered for (pushSorted in sink/loki.go).
THEOREM StreamsInOrder == Spec => []OldestFirst
  BY Invariance, PTL DEF IInv

\* After a failure no sender begins to post (the check at the start of the
\* goroutine of send in sink/loki.go).
THEOREM NoPostAfterFailure == Spec => FailedStops
<1>1. IInv /\ [Next]_vars => [failed => \A s \in sends' : s.pc = "post" =>
                                \E t \in sends : t.pc = "post" /\ t.batch = s.batch]_vars
  <2> SUFFICES ASSUME IInv, [Next]_vars, failed, NEW s \in sends', s.pc = "post", vars' # vars
               PROVE  \E t \in sends : t.pc = "post" /\ t.batch = s.batch
    BY DEF vars
  <2>1. \A b, n : Sending(b, n, "start").pc = "start"
    BY DEF Sending
  <2>2. \A b, n : Sending(b, n, "post").batch = b
    BY DEF Sending
  <2> HIDE DEF Sending
  <2>3. CASE s \in sends
    BY <2>3
  <2>4. CASE s \notin sends
    <3>1. CASE WriteStep \/ BeginClose \/ EndClose \/ Stop
      BY <2>4, <3>1 DEF WriteStep, WriteDropped, WriteEvent, WriteScan, BeginClose, EndClose, Stop, vars
    <3>2. ASSUME NEW w \in Writer, Send(w) PROVE FALSE
      BY <2>1, <2>4, <3>2 DEF Send
    <3>3. CASE CloseSend
      BY <2>4, <3>3 DEF CloseSend
    <3>4. CASE SendStep
      <4>1. PICK u \in sends : \/ Start(u) \/ PostOK(u) \/ PostRefused(u) \/ PostTooOld(u)
                               \/ \E stored \in BOOLEAN : PostRetries(u, stored)
        BY <3>4 DEF SendStep
      <4>2. CASE Start(u) \/ PostOK(u) \/ PostRefused(u) \/ PostTooOld(u)
        BY <2>4, <4>2 DEF Start, PostOK, PostRefused, PostTooOld
      <4>3. ASSUME NEW stored \in BOOLEAN, PostRetries(u, stored)
            PROVE  u.pc = "post" /\ u.batch = s.batch
        BY <2>2, <2>4, <4>3 DEF PostRetries
      <4> QED  BY <4>1, <4>2, <4>3
    <3> QED  BY <3>1, <3>2, <3>3, <3>4 DEF Next, CloseStep
  <2> QED  BY <2>3, <2>4
<1> QED
  BY <1>1, Invariance, PTL DEF Spec, FailedStops

\* A step of the sink is a step of Delivery: a write takes a line, an answer
\* answers for lines taken, and Close returns nil only when all are answered for.
LEMMA StepDelivers == IInv /\ [Next]_vars => [DeliveryOf!Next]_(DeliveryOf!deliveryVars)
<1> SUFFICES ASSUME IInv, [Next]_vars
             PROVE  DeliveryOf!Next \/ UNCHANGED <<Written, answered, outcome>>
  BY DEF DeliveryOf!deliveryVars
<1>1. ASSUME NEW w \in Writer, NEW l \in unwritten, MayWrite(w, l), unwritten' = unwritten \ {l},
             UNCHANGED <<answered, outcome>>
      PROVE  DeliveryOf!Take
  <2>1. Written' = Written \cup {l} /\ l \in Line \ Written /\ phase = "open"
    BY <1>1, WriteFacts DEF Written
  <2>2. outcome = "open"
    BY <2>1 DEF IInv, Phases
  <2>3. answered' = answered \cup {} /\ {} \in SUBSET Written'
    BY <1>1
  <2> QED  BY <1>1, <2>1, <2>2, <2>3 DEF DeliveryOf!Take
<1>2. CASE WriteStep
  BY <1>1, <1>2 DEF WriteStep, WriteDropped, WriteEvent, WriteScan, closeVars, DeliveryOf!Next
<1>3. CASE SendStep
  <2>1. PICK s \in sends : /\ UNCHANGED <<unwritten, outcome>>
                           /\ answered' = answered \/ answered' = answered \cup Elems(s.batch)
    BY <1>3 DEF SendStep, Start, PostOK, PostRefused, PostTooOld, PostRetries, writerVars, closeVars
  <2>2. Written' = Written
    BY <2>1 DEF Written
  <2>3. outcome = "open"
    BY OneSender DEF IInv, Phases
  <2>4. Elems(s.batch) \in SUBSET Written
    BY DEF IInv, NothingMadeUp
  <2>5. \E S \in SUBSET Written : answered' = answered \cup S
    <3>1. CASE answered' = answered
      <4>1. {} \in SUBSET Written /\ answered' = answered \cup {}
        BY <3>1
      <4> QED  BY <4>1
    <3>2. CASE answered' = answered \cup Elems(s.batch)
      BY <2>4, <3>2
    <3> QED  BY <2>1, <3>1, <3>2
  <2> QED  BY <2>1, <2>2, <2>3, <2>5 DEF DeliveryOf!Answer, DeliveryOf!Next
<1>4. CASE EndClose
  <2>1. /\ phase = "closing" /\ pending = <<>> /\ sends = {} /\ outcome' = (IF err THEN "error" ELSE "nil")
        /\ Written' = Written /\ answered' = answered
    BY <1>4 DEF EndClose, SendersOut, writerVars, Written
  <2>2. outcome = "open"
    BY <2>1 DEF IInv, Phases
  <2>3. ~err => Written = answered
    <3> SUFFICES ASSUME ~err, NEW x \in Written PROVE x \in answered
      BY DEF IInv, NothingMadeUp
    <3>1. ~failed /\ \A w \in Writer : buf[w] = <<>> /\ offered[w] = <<>>
      BY <2>1 DEF IInv, Phases
    <3>2. Elems(<<>>) = {}
      BY DEF Elems
    <3> QED  BY <2>1, <3>1, <3>2 DEF IInv, NothingLost, OnItsWay
  <2> QED  BY <2>1, <2>2, <2>3 DEF DeliveryOf!Close, DeliveryOf!Next
<1>5. CASE (\E w \in Writer : Send(w)) \/ BeginClose \/ CloseSend \/ Stop \/ UNCHANGED vars
  BY <1>5 DEF Send, BeginClose, CloseSend, Stop, vars, writerVars, closeVars, Written
<1> QED
  BY <1>2, <1>3, <1>4, <1>5 DEF Next, CloseStep

\* The Loki sink implements Delivery: a tick whose Close returned nil has had
\* every line answered for, through retries, refusals and failures
\* (Close in sink/loki.go).
THEOREM LokiDelivers == Spec => ImplementsDelivery
<1>1. Init => DeliveryOf!Init
  BY DEF Init, DeliveryOf!Init, Written
<1> QED
  BY <1>1, Invariance, StepDelivers, PTL DEF Spec, ImplementsDelivery, DeliveryOf!Spec
=============================================================================
