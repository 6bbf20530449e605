--------------------------- MODULE SummaryProofs ----------------------------
(*****************************************************************************)
(* The proofs about what the summaries of load balancer, web ACL, S3 and     *)
(* CloudTrail logs are made of. For every part of a summary there is a       *)
(* predicate that says what it holds of a set of entries, and three          *)
(* lemmas: it holds of no entry at first, of an entry more after an          *)
(* addition, and of both sets after a merge. So it holds however the         *)
(* entries were spread over the workers. The last lemmas about a part say    *)
(* that it is then the one that is asked for.                                *)
(*****************************************************************************)
EXTENDS ElbLog, WafLog, S3Log, TrailLog, FiniteSetTheorems, WellFoundedInduction, TLAPS

(*****************************************************************************)
(* Numbers, finite sets, and sums over finite sets of entries.               *)
(*****************************************************************************)

\* A set of numbers has a least one: of the intervals up to its members, one does
\* not contain another.
LEMMA LeastFacts ==
  ASSUME NEW S \in SUBSET Nat, S # {}
  PROVE  \E n \in S : \A m \in S : n <= m
<1> DEFINE T == {0 .. n : n \in S}
           R == StrictSubsetOrdering(Nat)
<1>1. T \subseteq FiniteSubsetsOf(Nat) /\ T # {}
  <2>1. \A n \in S : 0 .. n \subseteq Nat /\ IsFiniteSet(0 .. n)
    BY FS_Interval
  <2> QED  BY <2>1 DEF FiniteSubsetsOf
<1>2. IsWellFoundedOn(R, FiniteSubsetsOf(Nat))
  BY FS_StrictSubsetOrderingWellFounded
<1>3. \E X \in T : \A Y \in T : <<Y, X>> \notin R
  <2> HIDE DEF T, R
  <2> QED  BY <1>1, <1>2, WFMin
<1>4. PICK n \in S : \A m \in S : <<0 .. m, 0 .. n>> \notin R
  BY <1>3
<1>5. ASSUME NEW m \in S, m < n PROVE FALSE
  <2>1. 0 .. m \in SUBSET Nat /\ 0 .. n \in SUBSET Nat /\ 0 .. m \subseteq 0 .. n
    BY <1>5
  <2>2. n \in 0 .. n /\ n \notin 0 .. m
    BY <1>5
  <2>3. <<0 .. m, 0 .. n>> \in R
    BY <2>1, <2>2 DEF StrictSubsetOrdering
  <2> QED  BY <1>4, <2>3
<1>6. \A m \in S : n <= m
  BY <1>5
<1> QED  BY <1>6

\* Induction over the numbers, as a fact about the set of those a claim holds for.
LEMMA EveryNumber ==
  ASSUME NEW P, 0 \in P, \A n \in Nat : n \in P => n + 1 \in P
  PROVE  \A n \in Nat : n \in P
<1> SUFFICES ASSUME Nat \ P # {} PROVE FALSE
  OBVIOUS
<1>1. PICK n \in Nat \ P : \A m \in Nat \ P : n <= m
  BY LeastFacts
<1>2. n - 1 \in Nat /\ n - 1 \notin P
  <2>1. n # 0
    OBVIOUS
  <2>2. n - 1 \in Nat /\ n = (n - 1) + 1
    BY <2>1
  <2>3. n - 1 \in P => n \in P
    BY <2>2
  <2> QED  BY <2>2, <2>3
<1>3. n - 1 \in Nat \ P
  BY <1>2
<1>4. n <= n - 1
  BY <1>1, <1>3
<1> QED  BY <1>4

\* A part of a finite set is finite, and no larger.
LEMMA Sizes ==
  ASSUME NEW S, IsFiniteSet(S), NEW T \in SUBSET S
  PROVE  /\ IsFiniteSet(T) /\ Cardinality(T) \in Nat /\ Cardinality(S) \in Nat
         /\ Cardinality(T) <= Cardinality(S)
  BY FS_Subset, FS_CardinalityType

\* One element more.
LEMMA OneMore ==
  ASSUME NEW S, IsFiniteSet(S), NEW x
  PROVE  /\ IsFiniteSet(S \cup {x}) /\ Cardinality(S) \in Nat
         /\ Cardinality(S \cup {x}) <= Cardinality(S) + 1
         /\ x \notin S => Cardinality(S \cup {x}) = Cardinality(S) + 1
<1>1. /\ IsFiniteSet(S \cup {x})
      /\ Cardinality(S \cup {x}) = IF x \in S THEN Cardinality(S) ELSE Cardinality(S) + 1
  BY FS_AddElement
<1>2. Cardinality(S) \in Nat
  BY FS_CardinalityType
<1> QED  BY <1>1, <1>2

\* Induction over a finite set, one element at a time.
LEMMA EverySet ==
  ASSUME NEW D, IsFiniteSet(D), NEW P, {} \in P,
         \A S \in SUBSET D, x \in D : S \in P /\ x \notin S => S \cup {x} \in P
  PROVE  D \in P
<1> DEFINE Q == {n \in Nat : \A S \in SUBSET D : Cardinality(S) <= n => S \in P}
<1>1. \A S \in SUBSET D : IsFiniteSet(S) /\ Cardinality(S) \in Nat
  BY Sizes
<1>2. 0 \in Q
  <2>1. \A S \in SUBSET D : Cardinality(S) <= 0 => S = {}
    BY <1>1, FS_EmptySet
  <2> QED  BY <2>1
<1>3. ASSUME NEW n \in Nat, n \in Q PROVE n + 1 \in Q
  <2> SUFFICES ASSUME NEW S \in SUBSET D, Cardinality(S) <= n + 1 PROVE S \in P
    OBVIOUS
  <2>1. CASE S = {}
    BY <2>1
  <2>2. CASE S # {}
    <3>1. PICK x : x \in S
      BY <2>2
    <3>2. S \ {x} \in SUBSET D /\ x \in D /\ x \notin S \ {x} /\ (S \ {x}) \cup {x} = S
      BY <3>1
    <3>3. Cardinality(S) = Cardinality(S \ {x}) + 1
      BY <1>1, <3>2, OneMore
    <3>4. Cardinality(S \ {x}) <= n
      BY <1>1, <3>2, <3>3
    <3>5. S \ {x} \in P
      BY <1>3, <3>2, <3>4
    <3> QED  BY <3>2, <3>5
  <2> QED  BY <2>1, <2>2
<1> HIDE DEF Q
<1>4. Cardinality(D) \in Q
  <2>1. \A n \in Nat : n \in Q
    BY <1>2, <1>3, EveryNumber
  <2> QED  BY <1>1, <2>1
<1>5. Cardinality(D) <= Cardinality(D)
  BY <1>1
<1> QED  BY <1>4, <1>5 DEF Q

\* The element that a sum takes first.
First(s) == CHOOSE x \in s : TRUE

\* g gives the sums of f over the parts of D.
Unfolds(g, f, D) == \A s \in SUBSET D : g[s] = IF s = {} THEN 0 ELSE f[First(s)] + g[s \ {First(s)}]
Adds(g, f, D) == g \in [SUBSET D -> Int] /\ Unfolds(g, f, D)

\* There are such sums: up to size 0, and up to each size after it.
LEMMA SumsExist ==
  ASSUME NEW D, IsFiniteSet(D), NEW f, \A x \in D : f[x] \in Int
  PROVE  \E g : Adds(g, f, D)
<1> DEFINE Rest(g, s) == IF s = {} THEN 0 ELSE f[First(s)] + g[s \ {First(s)}]
           UpTo(g, n) == \A s \in SUBSET D : Cardinality(s) <= n => g[s] = Rest(g, s)
           Q == {n \in Nat : \E g \in [SUBSET D -> Int] : UpTo(g, n)}
<1>1. \A s \in SUBSET D : IsFiniteSet(s) /\ Cardinality(s) \in Nat
  BY Sizes
<1>2. \A s \in SUBSET D : s # {} => First(s) \in s
  BY DEF First
<1>3. 0 \in Q
  <2> DEFINE g == [s \in SUBSET D |-> 0]
  <2>1. \A s \in SUBSET D : Cardinality(s) <= 0 => s = {}
    BY <1>1, FS_EmptySet
  <2>2. g \in [SUBSET D -> Int] /\ UpTo(g, 0)
    BY <2>1
  <2> HIDE DEF g, UpTo
  <2> QED  BY <2>2
<1>4. ASSUME NEW n \in Nat, n \in Q PROVE n + 1 \in Q
  <2>1. PICK g \in [SUBSET D -> Int] : UpTo(g, n)
    BY <1>4
  <2> DEFINE h == [s \in SUBSET D |-> Rest(g, s)]
  <2>2. h \in [SUBSET D -> Int]
    <3>1. \A s \in SUBSET D : Rest(g, s) \in Int
      <4> SUFFICES ASSUME NEW s \in SUBSET D PROVE Rest(g, s) \in Int
        OBVIOUS
      <4>1. CASE s = {}
        BY <4>1
      <4>2. CASE s # {}
        <5>1. f[First(s)] \in Int /\ g[s \ {First(s)}] \in Int
          BY <1>2, <4>2
        <5> QED  BY <4>2, <5>1
      <4> QED  BY <4>1, <4>2
    <3> HIDE DEF Rest
    <3> QED  BY <3>1
  <2>3. ASSUME NEW s \in SUBSET D, Cardinality(s) <= n + 1 PROVE h[s] = Rest(h, s)
    <3>1. CASE s = {}
      BY <3>1
    <3>2. CASE s # {}
      <4>1. PICK t : t = s \ {First(s)}
        OBVIOUS
      <4>2. First(s) \in s /\ t \in SUBSET D /\ First(s) \notin t /\ t \cup {First(s)} = s
        BY <1>2, <3>2, <4>1
      <4>3. Cardinality(s) = Cardinality(t) + 1
        BY <1>1, <4>2, OneMore
      <4>4. Cardinality(t) <= n
        BY <1>1, <2>3, <4>2, <4>3
      <4>5. g[t] = Rest(g, t)
        BY <2>1, <4>2, <4>4
      <4>6. h[t] = g[t]
        BY <4>2, <4>5
      <4>7. h[s] = f[First(s)] + g[t]
        BY <3>2, <4>1
      <4> QED  BY <3>2, <4>1, <4>6, <4>7
    <3> QED  BY <3>1, <3>2
  <2>4. UpTo(h, n + 1)
    BY <2>3
  <2> HIDE DEF h, UpTo
  <2> QED  BY <2>2, <2>4
<1> HIDE DEF Q
<1>5. \A n \in Nat : n \in Q
  BY <1>3, <1>4, EveryNumber
<1>6. PICK g \in [SUBSET D -> Int] : UpTo(g, Cardinality(D))
  BY <1>1, <1>5 DEF Q
<1>7. \A s \in SUBSET D : Cardinality(s) <= Cardinality(D)
  BY Sizes
<1> QED  BY <1>6, <1>7 DEF Adds, Unfolds

\* Sum takes a function that satisfies its recursion, if there is one.
LEMMA SumUnfolds ==
  ASSUME NEW f, NEW S
  PROVE  Sum(f, S) = (CHOOSE g : g = [s \in SUBSET S |-> IF s = {} THEN 0
                                        ELSE f[CHOOSE x \in s : TRUE] + g[s \ {CHOOSE x \in s : TRUE}]])[S]
  BY DEF Sum, MapThenSumSet, MapThenFoldSet

\* Sums of a part are the same, whatever it is a part of.
LEMMA SumsAgree ==
  ASSUME NEW D, IsFiniteSet(D), NEW S \in SUBSET D, NEW f, NEW g, NEW h,
         Unfolds(g, f, D), Unfolds(h, f, S)
  PROVE  h[S] = g[S]
<1> DEFINE Q == {n \in Nat : \A s \in SUBSET S : Cardinality(s) <= n => h[s] = g[s]}
<1>1. \A s \in SUBSET S : s \in SUBSET D /\ IsFiniteSet(s) /\ Cardinality(s) \in Nat
  BY Sizes
<1>2. /\ \A s \in SUBSET D : g[s] = IF s = {} THEN 0 ELSE f[First(s)] + g[s \ {First(s)}]
      /\ \A s \in SUBSET S : h[s] = IF s = {} THEN 0 ELSE f[First(s)] + h[s \ {First(s)}]
  BY DEF Unfolds
<1>3. 0 \in Q
  <2>1. \A s \in SUBSET S : Cardinality(s) <= 0 => s = {}
    BY <1>1, FS_EmptySet
  <2> QED  BY <1>2, <2>1
<1>4. ASSUME NEW n \in Nat, n \in Q PROVE n + 1 \in Q
  <2> SUFFICES ASSUME NEW s \in SUBSET S, Cardinality(s) <= n + 1 PROVE h[s] = g[s]
    OBVIOUS
  <2>1. CASE s = {}
    BY <1>2, <2>1
  <2>2. CASE s # {}
    <3>1. PICK t : t = s \ {First(s)}
      OBVIOUS
    <3>2. First(s) \in s /\ t \in SUBSET S /\ First(s) \notin t /\ t \cup {First(s)} = s
      BY <2>2, <3>1 DEF First
    <3>3. Cardinality(s) = Cardinality(t) + 1
      BY <1>1, <3>2, OneMore
    <3>4. Cardinality(t) <= n
      BY <1>1, <3>2, <3>3
    <3>5. h[t] = g[t]
      BY <1>4, <3>2, <3>4
    <3>6. h[s] = f[First(s)] + h[t] /\ g[s] = f[First(s)] + g[t]
      BY <1>1, <1>2, <2>2, <3>1
    <3> QED  BY <3>5, <3>6
  <2> QED  BY <2>1, <2>2
<1> HIDE DEF Q
<1>5. Cardinality(S) \in Q
  <2>1. \A n \in Nat : n \in Q
    BY <1>3, <1>4, EveryNumber
  <2> QED  BY <1>1, <2>1
<1>6. Cardinality(S) <= Cardinality(S)
  BY <1>1
<1> QED  BY <1>5, <1>6 DEF Q

\* So Sum is that function.
LEMMA SumIs ==
  ASSUME NEW D, IsFiniteSet(D), NEW S \in SUBSET D, NEW f, \A x \in D : f[x] \in Int,
         NEW g, Adds(g, f, D)
  PROVE  Sum(f, S) = g[S]
<1> DEFINE Is(h) == h = [s \in SUBSET S |-> IF s = {} THEN 0
                                     ELSE f[CHOOSE x \in s : TRUE] + h[s \ {CHOOSE x \in s : TRUE}]]
<1>1. IsFiniteSet(S) /\ \A x \in S : f[x] \in Int
  BY Sizes
<1>2. PICK e : Adds(e, f, S)
  BY <1>1, SumsExist
<1>3. Is(e)
  BY <1>2 DEF Adds, Unfolds, First
<1>4. PICK h : h = CHOOSE k : Is(k)
  OBVIOUS
<1>5. Is(h) /\ Sum(f, S) = h[S]
  <2>1. Sum(f, S) = (CHOOSE k : Is(k))[S]
    BY SumUnfolds
  <2> HIDE DEF Is
  <2> QED  BY <1>3, <1>4, <2>1
<1>6. Unfolds(h, f, S)
  BY <1>5 DEF First, Unfolds
<1> HIDE DEF Is
<1>7. h[S] = g[S]
  BY <1>6, SumsAgree DEF Adds
<1> QED  BY <1>5, <1>7

\* One element at a time.
LEMMA SumRec ==
  ASSUME NEW S, IsFiniteSet(S), NEW f, \A x \in S : f[x] \in Int
  PROVE  /\ Sum(f, S) \in Int
         /\ S # {} => /\ First(S) \in S
                      /\ Sum(f, S) = f[First(S)] + Sum(f, S \ {First(S)})
<1>1. PICK g : Adds(g, f, S)
  BY SumsExist
<1>2. \A s \in SUBSET S : Sum(f, s) = g[s]
  BY <1>1, SumIs
<1>3. S \in SUBSET S /\ S \ {First(S)} \in SUBSET S
  OBVIOUS
<1> QED  BY <1>1, <1>2, <1>3 DEF Adds, Unfolds, First

\* Nothing adds up to 0.
LEMMA SumEmpty ==
  ASSUME NEW f
  PROVE  Sum(f, {}) = 0
<1>1. IsFiniteSet({}) /\ \A x \in {} : f[x] \in Int
  BY FS_EmptySet
<1>2. PICK g : Adds(g, f, {})
  BY <1>1, SumsExist
<1>3. {} \in SUBSET {}
  OBVIOUS
<1>4. Sum(f, {}) = g[{}]
  BY <1>1, <1>2, <1>3, SumIs
<1> QED  BY <1>2, <1>3, <1>4 DEF Adds, Unfolds

\* An element more adds its value, wherever in the order of the sum it comes.
LEMMA SumAdd ==
  ASSUME NEW D, IsFiniteSet(D), NEW f, \A x \in D : f[x] \in Int,
         NEW S0 \in SUBSET D, NEW x0 \in D, x0 \notin S0
  PROVE  Sum(f, S0 \cup {x0}) = Sum(f, S0) + f[x0]
<1> DEFINE Q == {n \in Nat : \A S \in SUBSET D, x \in D :
                     x \notin S /\ Cardinality(S) <= n => Sum(f, S \cup {x}) = Sum(f, S) + f[x]}
<1>0. \A S \in SUBSET D : IsFiniteSet(S) /\ Cardinality(S) \in Nat
  BY Sizes
<1>1. \A S \in SUBSET D : /\ Sum(f, S) \in Int
                          /\ S # {} => /\ First(S) \in S
                                       /\ Sum(f, S) = f[First(S)] + Sum(f, S \ {First(S)})
  <2> SUFFICES ASSUME NEW S \in SUBSET D
               PROVE  /\ Sum(f, S) \in Int
                      /\ S # {} => /\ First(S) \in S
                                   /\ Sum(f, S) = f[First(S)] + Sum(f, S \ {First(S)})
    OBVIOUS
  <2>1. IsFiniteSet(S) /\ \A x \in S : f[x] \in Int
    BY <1>0
  <2> QED  BY <2>1, SumRec
<1>2. ASSUME NEW S \in SUBSET D, NEW x \in D, x \notin S, First(S \cup {x}) = x
      PROVE  Sum(f, S \cup {x}) = Sum(f, S) + f[x]
  <2>1. S \cup {x} \in SUBSET D /\ S \cup {x} # {} /\ (S \cup {x}) \ {x} = S
    BY <1>2
  <2>2. Sum(f, S \cup {x}) = f[x] + Sum(f, S)
    BY <1>1, <1>2, <2>1
  <2>3. Sum(f, S) \in Int /\ f[x] \in Int
    BY <1>1
  <2> HIDE DEF Q
  <2> QED  BY <2>2, <2>3
<1>3. 0 \in Q
  <2> SUFFICES ASSUME NEW S \in SUBSET D, NEW x \in D, x \notin S, Cardinality(S) <= 0
               PROVE  Sum(f, S \cup {x}) = Sum(f, S) + f[x]
    OBVIOUS
  <2>1. S = {}
    BY <1>0, FS_EmptySet
  <2>2. First(S \cup {x}) = x
    BY <2>1 DEF First
  <2> QED  BY <1>2, <2>2
<1>4. ASSUME NEW n \in Nat, n \in Q PROVE n + 1 \in Q
  <2> SUFFICES ASSUME NEW S \in SUBSET D, NEW x \in D, x \notin S, Cardinality(S) <= n + 1
               PROVE  Sum(f, S \cup {x}) = Sum(f, S) + f[x]
    OBVIOUS
  <2>1. PICK c : c = First(S \cup {x})
    OBVIOUS
  <2>2. CASE c = x
    BY <1>2, <2>1, <2>2
  <2>3. CASE c # x
    <3>1. PICK T : T = S \ {c}
      OBVIOUS
    <3>2. c \in S \cup {x} /\ Sum(f, S \cup {x}) = f[c] + Sum(f, (S \cup {x}) \ {c})
      <4>1. S \cup {x} \in SUBSET D /\ S \cup {x} # {}
        OBVIOUS
      <4> QED  BY <1>1, <2>1, <4>1
    <3>3. /\ c \in S /\ c \in D /\ T \in SUBSET D /\ c \notin T /\ x \notin T
          /\ T \cup {c} = S /\ (S \cup {x}) \ {c} = T \cup {x}
      BY <2>3, <3>1, <3>2
    <3>4. Cardinality(S) = Cardinality(T) + 1
      BY <1>0, <3>3, OneMore
    <3>5. Cardinality(T) <= n
      BY <1>0, <3>3, <3>4
    <3>6. Sum(f, T \cup {x}) = Sum(f, T) + f[x] /\ Sum(f, T \cup {c}) = Sum(f, T) + f[c]
      BY <1>4, <3>3, <3>5
    <3>7. Sum(f, T) \in Int /\ f[x] \in Int /\ f[c] \in Int
      BY <1>1, <3>3
    <3>8. PICK a, b, m \in Int : a = Sum(f, T) /\ b = f[x] /\ m = f[c]
      BY <3>7
    <3>9. Sum(f, S \cup {x}) = m + (a + b) /\ Sum(f, S) = a + m
      BY <3>2, <3>3, <3>6, <3>8
    <3>10. m + (a + b) = (a + m) + b
      OBVIOUS
    <3> QED  BY <3>8, <3>9, <3>10
  <2> QED  BY <2>2, <2>3
<1> HIDE DEF Q
<1>5. Cardinality(S0) \in Q
  <2>1. \A n \in Nat : n \in Q
    BY <1>3, <1>4, EveryNumber
  <2> QED  BY <1>0, <2>1
<1>6. Cardinality(S0) <= Cardinality(S0)
  BY <1>0
<1> QED  BY <1>5, <1>6 DEF Q

\* What SumAdd says of a whole set.
LEMMA SumTake ==
  ASSUME NEW S, IsFiniteSet(S), NEW f, \A x \in S : f[x] \in Int, NEW k \in S
  PROVE  Sum(f, S) = Sum(f, S \ {k}) + f[k] /\ Sum(f, S) \in Int /\ Sum(f, S \ {k}) \in Int
<1>1. S \ {k} \in SUBSET S /\ k \notin S \ {k} /\ (S \ {k}) \cup {k} = S
  OBVIOUS
<1>2. Sum(f, (S \ {k}) \cup {k}) = Sum(f, S \ {k}) + f[k]
  BY <1>1, SumAdd
<1>3. IsFiniteSet(S \ {k}) /\ \A x \in S \ {k} : f[x] \in Int
  BY <1>1, Sizes
<1>4. Sum(f, S) \in Int /\ Sum(f, S \ {k}) \in Int
  BY <1>3, SumRec
<1> QED  BY <1>1, <1>2, <1>4

\* Equal values have equal sums.
LEMMA SumSame ==
  ASSUME NEW S, IsFiniteSet(S), NEW f, NEW g, \A x \in S : f[x] \in Int /\ g[x] = f[x]
  PROVE  Sum(g, S) = Sum(f, S)
<1> DEFINE P == {T \in SUBSET S : Sum(g, T) = Sum(f, T)}
<1>1. {} \in P
  BY SumEmpty
<1>2. ASSUME NEW T \in SUBSET S, NEW x \in S, T \in P, x \notin T PROVE T \cup {x} \in P
  <2>1. Sum(g, T \cup {x}) = Sum(g, T) + g[x] /\ Sum(f, T \cup {x}) = Sum(f, T) + f[x]
    BY <1>2, SumAdd
  <2> QED  BY <1>2, <2>1
<1> HIDE DEF P
<1>3. S \in P
  BY <1>1, <1>2, EverySet
<1> QED  BY <1>3 DEF P

\* Sums are added value by value.
LEMMA SumPlus ==
  ASSUME NEW S, IsFiniteSet(S), NEW f, NEW g, NEW h,
         \A x \in S : f[x] \in Int /\ g[x] \in Int /\ h[x] = f[x] + g[x]
  PROVE  Sum(h, S) = Sum(f, S) + Sum(g, S)
<1> DEFINE P == {T \in SUBSET S : Sum(h, T) = Sum(f, T) + Sum(g, T)}
<1>1. {} \in P
  BY SumEmpty
<1>2. ASSUME NEW T \in SUBSET S, NEW x \in S, T \in P, x \notin T PROVE T \cup {x} \in P
  <2>1. \A y \in S : h[y] \in Int
    OBVIOUS
  <2>2. Sum(h, T \cup {x}) = Sum(h, T) + h[x]
    BY <1>2, <2>1, SumAdd
  <2>3. Sum(f, T \cup {x}) = Sum(f, T) + f[x] /\ Sum(g, T \cup {x}) = Sum(g, T) + g[x]
    BY <1>2, SumAdd
  <2>4. IsFiniteSet(T) /\ \A y \in T : f[y] \in Int /\ g[y] \in Int
    BY Sizes
  <2>5. Sum(f, T) \in Int /\ Sum(g, T) \in Int
    BY <2>4, SumRec
  <2> QED  BY <1>2, <2>2, <2>3, <2>5
<1> HIDE DEF P
<1>3. S \in P
  BY <1>1, <1>2, EverySet
<1> QED  BY <1>3 DEF P

\* A set is added up part by part.
LEMMA SumUnion ==
  ASSUME NEW D, IsFiniteSet(D), NEW f, \A x \in D : f[x] \in Int,
         NEW A \in SUBSET D, NEW B \in SUBSET D, A \cap B = {}
  PROVE  Sum(f, A \cup B) = Sum(f, A) + Sum(f, B)
<1> DEFINE P == {T \in SUBSET B : Sum(f, A \cup T) = Sum(f, A) + Sum(f, T)}
<1>0. IsFiniteSet(A) /\ IsFiniteSet(B) /\ \A x \in A : f[x] \in Int
  BY Sizes
<1>1. {} \in P
  <2>1. Sum(f, A) \in Int /\ A \cup {} = A
    BY <1>0, SumRec
  <2> QED  BY <2>1, SumEmpty
<1>2. ASSUME NEW T \in SUBSET B, NEW x \in B, T \in P, x \notin T PROVE T \cup {x} \in P
  <2>1. /\ x \notin A \cup T /\ A \cup T \in SUBSET D /\ T \in SUBSET D /\ x \in D
        /\ A \cup (T \cup {x}) = (A \cup T) \cup {x}
    BY <1>2
  <2>2. PICK U : U = A \cup T
    OBVIOUS
  <2>5. Sum(f, U \cup {x}) = Sum(f, U) + f[x]
    BY <2>1, <2>2, SumAdd
  <2>6. Sum(f, T \cup {x}) = Sum(f, T) + f[x]
    BY <1>2, <2>1, SumAdd
  <2>3. IsFiniteSet(T) /\ \A y \in T : f[y] \in Int
    BY <2>1, Sizes
  <2>4. Sum(f, T) \in Int /\ Sum(f, A) \in Int /\ f[x] \in Int
    BY <1>0, <2>1, <2>3, SumRec
  <2>7. Sum(f, U) = Sum(f, A) + Sum(f, T) /\ A \cup (T \cup {x}) = U \cup {x}
    BY <1>2, <2>1, <2>2
  <2>8. Sum(f, A \cup (T \cup {x})) = Sum(f, A) + Sum(f, T \cup {x})
    <3>1. PICK a, b, m \in Int : a = Sum(f, A) /\ b = Sum(f, T) /\ m = f[x]
      BY <2>4
    <3>2. Sum(f, U) = a + b /\ Sum(f, T \cup {x}) = b + m
      BY <2>6, <2>7, <3>1
    <3>3. Sum(f, A \cup (T \cup {x})) = (a + b) + m
      BY <2>5, <2>7, <3>1, <3>2
    <3>4. (a + b) + m = a + (b + m)
      OBVIOUS
    <3> QED  BY <3>1, <3>2, <3>3, <3>4
  <2> QED  BY <1>2, <2>8
<1> HIDE DEF P
<1>3. B \in P
  BY <1>0, <1>1, <1>2, EverySet
<1> QED  BY <1>3 DEF P

\* Zeros add up to 0.
LEMMA SumZero ==
  ASSUME NEW S, IsFiniteSet(S), NEW f, \A x \in S : f[x] = 0
  PROVE  Sum(f, S) = 0
<1> DEFINE P == {T \in SUBSET S : Sum(f, T) = 0}
<1>1. {} \in P
  BY SumEmpty
<1>2. ASSUME NEW T \in SUBSET S, NEW x \in S, T \in P, x \notin T PROVE T \cup {x} \in P
  <2>1. \A y \in S : f[y] \in Int
    OBVIOUS
  <2>2. Sum(f, T \cup {x}) = Sum(f, T) + f[x]
    BY <1>2, <2>1, SumAdd
  <2> QED  BY <1>2, <2>2
<1> HIDE DEF P
<1>3. S \in P
  BY <1>1, <1>2, EverySet
<1> QED  BY <1>3 DEF P

\* g is f with n more at k.
OneMoreAt(f, g, k, n, S) == \A x \in S : f[x] \in Int /\ g[x] = f[x] + (IF x = k THEN n ELSE 0)

\* One value more in one place.
LEMMA SumOne ==
  ASSUME NEW S, IsFiniteSet(S), NEW f, NEW g, NEW k \in S, NEW n \in Int, OneMoreAt(f, g, k, n, S)
  PROVE  Sum(g, S) = Sum(f, S) + n
<1>1. \A x \in S : f[x] \in Int /\ g[x] \in Int
  BY DEF OneMoreAt
<1>2. g[k] = f[k] + n /\ f[k] \in Int /\ \A x \in S \ {k} : f[x] \in Int /\ g[x] = f[x]
  BY <1>1 DEF OneMoreAt
<1>3. IsFiniteSet(S \ {k})
  BY Sizes
<1>4. Sum(g, S \ {k}) = Sum(f, S \ {k})
  BY <1>2, <1>3, SumSame
<1>5. Sum(g, S) = Sum(g, S \ {k}) + g[k] /\ Sum(f, S) = Sum(f, S \ {k}) + f[k] /\ Sum(f, S \ {k}) \in Int
  BY <1>1, SumTake
<1> QED  BY <1>2, <1>4, <1>5

-----------------------------------------------------------------------------
(*****************************************************************************)
(* Sums and counters by name, spans, latencies, and maps of such parts by    *)
(* key.                                                                      *)
(*****************************************************************************)

\* Value n of what K gives each entry, and the keys that f gives the entries S, counted.
Column(K, n) == [e \in DOMAIN K |-> K[e][n]]
Counter(f, S) == [k \in {f[e] : e \in S} |-> Cardinality({e \in S : f[e] = k})]
Keyed(f, S) == {e \in S : f[e] # ""}

\* Sums and counters by name, as they should be for the entries S.
SumsAre(s, K, names, S) == DOMAIN s = names /\ \A n \in names : s[n] = Sum(Column(K, n), S)
KeysAre(c, K, names, S) ==
  DOMAIN c = names /\ \A n \in names : c[n] = Counter(Column(K, n), Keyed(Column(K, n), S))

\* Two finite sets that share nothing.
LEMMA ApartAddUp ==
  ASSUME NEW A, NEW B, IsFiniteSet(A), IsFiniteSet(B), A \cap B = {}
  PROVE  Cardinality(A \cup B) = Cardinality(A) + Cardinality(B)
<1>1. Cardinality(A) \in Nat /\ Cardinality(B) \in Nat
  BY FS_CardinalityType
<1>2. Cardinality(A \cup B) = Cardinality(A) + Cardinality(B) - Cardinality(A \cap B)
  BY FS_Union
<1>3. Cardinality(A \cap B) = 0
  BY FS_EmptySet
<1> QED  BY <1>1, <1>2, <1>3

\* Of one element the sum is its value.
LEMMA SumSingle ==
  ASSUME NEW f, NEW e, f[e] \in Int
  PROVE  Sum(f, {e}) = f[e]
<1>1. IsFiniteSet({e}) /\ \A x \in {e} : f[x] \in Int
  BY FS_Singleton
<1>2. {} \in SUBSET {e} /\ e \in {e} /\ e \notin {} /\ {} \cup {e} = {e}
  OBVIOUS
<1>3. Sum(f, {} \cup {e}) = Sum(f, {}) + f[e]
  BY <1>1, <1>2, SumAdd
<1> QED  BY <1>2, <1>3, SumEmpty

\* Nothing is counted of nothing.
LEMMA CounterEmpty ==
  ASSUME NEW f
  PROVE  Counter(f, {}) = EmptyBag
BY DEF Counter, EmptyBag, SetToBag

\* The counts of two sets that share nothing add up.
LEMMA CounterUnion ==
  ASSUME NEW f, NEW S, NEW T, IsFiniteSet(S), IsFiniteSet(T), S \cap T = {}
  PROVE  Counter(f, S) (+) Counter(f, T) = Counter(f, S \cup T)
<1> DEFINE withKey(X, k) == {e \in X : f[e] = k}
           C == Counter(f, S)
           D == Counter(f, T)
           E == Counter(f, S \cup T)
<1>1. \A X : /\ DOMAIN Counter(f, X) = {f[e] : e \in X}
             /\ \A k \in DOMAIN Counter(f, X) : Counter(f, X)[k] = Cardinality(withKey(X, k))
  BY DEF Counter
<1>2. \A X, k : k \notin DOMAIN Counter(f, X) => Cardinality(withKey(X, k)) = 0
  <2> SUFFICES ASSUME NEW X, NEW k, k \notin DOMAIN Counter(f, X) PROVE Cardinality(withKey(X, k)) = 0
    OBVIOUS
  <2>1. withKey(X, k) = {}
    BY <1>1
  <2> HIDE DEF withKey
  <2> QED  BY <2>1, FS_EmptySet
<1>3. \A k : Cardinality(withKey(S \cup T, k)) = Cardinality(withKey(S, k)) + Cardinality(withKey(T, k))
  <2> SUFFICES ASSUME NEW k PROVE Cardinality(withKey(S \cup T, k)) = Cardinality(withKey(S, k)) + Cardinality(withKey(T, k))
    OBVIOUS
  <2>1. withKey(S \cup T, k) = withKey(S, k) \cup withKey(T, k) /\ withKey(S, k) \cap withKey(T, k) = {}
    OBVIOUS
  <2>2. withKey(S, k) \in SUBSET S /\ withKey(T, k) \in SUBSET T
    OBVIOUS
  <2> HIDE DEF withKey
  <2>3. IsFiniteSet(withKey(S, k)) /\ IsFiniteSet(withKey(T, k))
    BY <2>2, FS_Subset
  <2> QED  BY <2>1, <2>3, ApartAddUp
<1>4. DOMAIN E = DOMAIN C \cup DOMAIN D
  <2>1. {f[e] : e \in S \cup T} = {f[e] : e \in S} \cup {f[e] : e \in T}
    OBVIOUS
  <2> QED  BY <1>1, <2>1
<1>5. C (+) D = [k \in DOMAIN C \cup DOMAIN D |->
                   (IF k \in DOMAIN C THEN C[k] ELSE 0) + (IF k \in DOMAIN D THEN D[k] ELSE 0)]
  BY DEF (+)
<1>6. \A k : (IF k \in DOMAIN C THEN C[k] ELSE 0) = Cardinality(withKey(S, k)) /\ (IF k \in DOMAIN D THEN D[k] ELSE 0) = Cardinality(withKey(T, k))
  BY <1>1, <1>2
<1>7. E = [k \in DOMAIN E |-> Cardinality(withKey(S \cup T, k))]
  BY DEF Counter
<1> HIDE DEF withKey, C, D, E
<1>8. C (+) D = [k \in DOMAIN E |-> Cardinality(withKey(S, k)) + Cardinality(withKey(T, k))]
  BY <1>4, <1>5, <1>6
<1>9. C (+) D = E
  BY <1>3, <1>7, <1>8
<1> QED  BY <1>9 DEF C, D, E

\* One entry counts its key once.
LEMMA CounterSingle ==
  ASSUME NEW f, NEW e
  PROVE  Counter(f, {e}) = SetToBag({f[e]})
<1>1. {f[x] : x \in {e}} = {f[e]}
  OBVIOUS
<1>2. {x \in {e} : f[x] = f[e]} = {e} /\ Cardinality({e}) = 1
  BY FS_Singleton
<1> QED  BY <1>1, <1>2 DEF Counter, SetToBag

\* An entry more adds its key.
LEMMA CounterMore ==
  ASSUME NEW f, NEW S, IsFiniteSet(S), NEW e, e \notin S
  PROVE  Counter(f, S) (+) SetToBag({f[e]}) = Counter(f, S \cup {e})
<1>1. IsFiniteSet({e}) /\ S \cap {e} = {}
  BY FS_Singleton
<1>2. Counter(f, S) (+) Counter(f, {e}) = Counter(f, S \cup {e})
  BY <1>1, CounterUnion
<1> QED  BY <1>2, CounterSingle

\* Counter.add: but "" is no key.
LEMMA CounterAdd ==
  ASSUME NEW f, NEW S, IsFiniteSet(S), NEW e, e \notin S
  PROVE  add(Counter(f, Keyed(f, S)), f[e]) = Counter(f, Keyed(f, S \cup {e}))
<1>1. \A X \in SUBSET S : Counter(f, X) (+) SetToBag({f[e]}) = Counter(f, X \cup {e})
  BY FS_Subset, CounterMore
<1>2. Keyed(f, S) \in SUBSET S /\ Keyed(f, S \cup {e}) = IF f[e] = "" THEN Keyed(f, S) ELSE Keyed(f, S) \cup {e}
  BY DEF Keyed
<1>3. add(Counter(f, Keyed(f, S)), f[e]) = Counter(f, Keyed(f, S \cup {e}))
  <2>1. CASE f[e] = ""
    BY <1>2, <2>1 DEF add
  <2>2. CASE f[e] # ""
    BY <1>1, <1>2, <2>2 DEF add
  <2> QED  BY <2>1, <2>2
<1> QED  BY <1>1, <1>3

\* Counter.merge.
LEMMA CounterMerge ==
  ASSUME NEW f, NEW S, NEW T, IsFiniteSet(S), IsFiniteSet(T), S \cap T = {}
  PROVE  Counter(f, Keyed(f, S)) (+) Counter(f, Keyed(f, T)) = Counter(f, Keyed(f, S \cup T))
<1>1. /\ Keyed(f, S) \in SUBSET S /\ Keyed(f, T) \in SUBSET T
      /\ Keyed(f, S \cup T) = Keyed(f, S) \cup Keyed(f, T) /\ Keyed(f, S) \cap Keyed(f, T) = {}
  BY DEF Keyed
<1>2. IsFiniteSet(Keyed(f, S)) /\ IsFiniteSet(Keyed(f, T))
  BY <1>1, FS_Subset
<1> QED  BY <1>1, <1>2, CounterUnion

-----------------------------------------------------------------------------
\* The sums of no entries, of one entry more, and of two sets of entries.
LEMMA SumsStart ==
  ASSUME NEW K, NEW names
  PROVE  SumsAre(NoSums(names), K, names, {})
BY SumEmpty DEF SumsAre, NoSums

\* The sums of two sets of entries add up name by name.
LEMMA SumsMerge ==
  ASSUME NEW K, NEW names, NEW S, NEW T, IsFiniteSet(S), IsFiniteSet(T), S \cap T = {},
         S \cup T \subseteq DOMAIN K, \A e \in S \cup T, n \in names : K[e][n] \in Int,
         NEW s, SumsAre(s, K, names, S), NEW t, SumsAre(t, K, names, T)
  PROVE  SumsAre(plus(s, t), K, names, S \cup T)
<1>1. ASSUME NEW n \in names PROVE Sum(Column(K, n), S \cup T) = Sum(Column(K, n), S) + Sum(Column(K, n), T)
  <2>1. PICK f : f = Column(K, n)
    OBVIOUS
  <2>2. \A x \in S \cup T : f[x] \in Int
    BY <2>1 DEF Column
  <2>3. PICK D : D = S \cup T
    OBVIOUS
  <2>4. IsFiniteSet(D) /\ S \in SUBSET D /\ T \in SUBSET D
    BY <2>3, FS_Union
  <2>5. \A x \in D : f[x] \in Int
    BY <2>2, <2>3
  <2>6. Sum(f, S \cup T) = Sum(f, S) + Sum(f, T)
    BY <2>4, <2>5, SumUnion
  <2> QED  BY <2>1, <2>6
<1> QED  BY <1>1 DEF SumsAre, plus

\* The sums with an entry more.
LEMMA SumsAdd ==
  ASSUME NEW K, NEW names, NEW S, IsFiniteSet(S), NEW e, e \notin S,
         S \cup {e} \subseteq DOMAIN K, \A x \in S \cup {e}, n \in names : K[x][n] \in Int,
         NEW s, SumsAre(s, K, names, S), DOMAIN K[e] = names
  PROVE  SumsAre(plus(s, K[e]), K, names, S \cup {e})
<1>1. SumsAre(K[e], K, names, {e})
  <2>1. ASSUME NEW n \in names PROVE K[e][n] = Sum(Column(K, n), {e})
    <3>1. Column(K, n)[e] = K[e][n] /\ K[e][n] \in Int
      BY DEF Column
    <3> QED  BY <3>1, SumSingle
  <2> QED  BY <2>1 DEF SumsAre
<1>2. IsFiniteSet({e}) /\ S \cap {e} = {}
  BY FS_Singleton
<1> QED  BY <1>1, <1>2, SumsMerge

\* The counters of no entries, of one entry more, and of two sets of entries.
LEMMA KeysStart ==
  ASSUME NEW K, NEW names
  PROVE  KeysAre(NoKeys(names), K, names, {})
<1>1. \A f : Keyed(f, {}) = {}
  BY DEF Keyed
<1> QED  BY <1>1, CounterEmpty DEF KeysAre, NoKeys

\* The counters of two sets of entries add up.
LEMMA KeysMerge ==
  ASSUME NEW K, NEW names, NEW S, NEW T, IsFiniteSet(S), IsFiniteSet(T), S \cap T = {},
         NEW s, KeysAre(s, K, names, S), NEW t, KeysAre(t, K, names, T)
  PROVE  KeysAre(merge(s, t), K, names, S \cup T)
<1>1. ASSUME NEW n \in names
      PROVE  s[n] (+) t[n] = Counter(Column(K, n), Keyed(Column(K, n), S \cup T))
  BY CounterMerge DEF KeysAre
<1> QED  BY <1>1 DEF KeysAre, merge

\* The counters with an entry more.
LEMMA KeysAdd ==
  ASSUME NEW K, NEW names, NEW S, IsFiniteSet(S), NEW e \in DOMAIN K, e \notin S,
         NEW s, KeysAre(s, K, names, S)
  PROVE  KeysAre(addKeys(s, K[e]), K, names, S \cup {e})
<1>1. ASSUME NEW n \in names
      PROVE  add(s[n], K[e][n]) = Counter(Column(K, n), Keyed(Column(K, n), S \cup {e}))
  <2>1. Column(K, n)[e] = K[e][n]
    BY DEF Column
  <2>2. add(Counter(Column(K, n), Keyed(Column(K, n), S)), Column(K, n)[e])
          = Counter(Column(K, n), Keyed(Column(K, n), S \cup {e}))
    <3>1. PICK f : f = Column(K, n)
      OBVIOUS
    <3>2. add(Counter(f, Keyed(f, S)), f[e]) = Counter(f, Keyed(f, S \cup {e}))
      BY Zenon, CounterAdd
    <3> QED  BY <3>1, <3>2
  <2> QED  BY <2>1, <2>2 DEF KeysAre
<1> QED  BY <1>1 DEF KeysAre, addKeys

\* A span, and a latency, as they should be for the entries S: v gives each its
\* duration: a latency that was measured is added, one that was not is left out.
Timed(S) == {e \in S : e.time > 0}
SpanIs(s, S) ==
  /\ s = [first |-> s.first, last |-> s.last]
  /\ Timed(S) = {} => s = NoSpan
  /\ Timed(S) # {} => /\ \E e \in Timed(S) : s.first = e.time
                      /\ \E e \in Timed(S) : s.last = e.time
                      /\ \A e \in Timed(S) : s.first <= e.time /\ e.time <= s.last
Measured(v, S) == {e \in S : v[e] >= 0}
LatIs(l, v, S) ==
  LET M == Measured(v, S) IN
  /\ l = [count |-> l.count, sum |-> l.sum, min |-> l.min, max |-> l.max]
  /\ l.count = Cardinality(M) /\ l.sum = Sum(v, M)
  /\ M = {} => l = NoLat
  /\ M # {} => /\ \E e \in M : l.min = v[e]
               /\ \E e \in M : l.max = v[e]
               /\ \A e \in M : l.min <= v[e] /\ v[e] <= l.max

\* The least and the greatest of a set, where there are such.
LEMMA MinMaxAre ==
  ASSUME NEW S \in SUBSET Int, NEW x \in S
  PROVE  /\ (\A y \in S : x <= y) => Min(S) = x
         /\ (\A y \in S : y <= x) => Max(S) = x
<1>1. ASSUME \A y \in S : x <= y PROVE Min(S) = x
  <2>1. x \in S /\ \A y \in S : x <= y
    BY <1>1
  <2>2. Min(S) \in S /\ \A y \in S : Min(S) <= y
    BY <2>1 DEF Min
  <2>3. Min(S) <= x /\ x <= Min(S) /\ Min(S) \in Int
    BY <2>1, <2>2
  <2> QED  BY <2>3
<1>2. ASSUME \A y \in S : y <= x PROVE Max(S) = x
  <2>1. x \in S /\ \A y \in S : x >= y
    BY <1>2
  <2>2. Max(S) \in S /\ \A y \in S : Max(S) >= y
    BY <2>1 DEF Max
  <2>3. Max(S) >= x /\ x >= Max(S) /\ Max(S) \in Int
    BY <2>1, <2>2
  <2> QED  BY <2>3
<1> QED  BY <1>1, <1>2

\* No entries have no span; one entry spans its own time, if it has one.
LEMMA SpanStart ==
  /\ SpanIs(NoSpan, {})
  /\ \A e : e.time \in Nat => SpanIs(At(e.time), {e})
<1>1. SpanIs(NoSpan, {})
  BY DEF SpanIs, Timed, NoSpan
<1>2. ASSUME NEW e, e.time \in Nat PROVE SpanIs(At(e.time), {e})
  <2>1. CASE e.time = 0
    <3>1. Timed({e}) = {}
      BY <2>1 DEF Timed
    <3> QED  BY <2>1, <3>1 DEF SpanIs, At, NoSpan
  <2>2. CASE e.time # 0
    <3>1. Timed({e}) = {e}
      BY <1>2, <2>2 DEF Timed
    <3> QED  BY <1>2, <3>1 DEF SpanIs, At
  <2> QED  BY <2>1, <2>2
<1> QED  BY <1>1, <1>2

\* The parts of a span are times.
LEMMA SpanTypes ==
  ASSUME NEW S, \A e \in S : e.time \in Nat, NEW s, SpanIs(s, S)
  PROVE  /\ s.first \in Nat /\ s.last \in Nat /\ s = [first |-> s.first, last |-> s.last]
         /\ s.first = 0 <=> Timed(S) = {}
         /\ s.last = 0 <=> Timed(S) = {}
<1>1. CASE Timed(S) = {}
  BY <1>1 DEF SpanIs, NoSpan
<1>2. CASE Timed(S) # {}
  <2>1. PICK a \in Timed(S), b \in Timed(S) : s.first = a.time /\ s.last = b.time
    BY <1>2 DEF SpanIs
  <2>2. a.time \in Nat /\ a.time > 0 /\ b.time \in Nat /\ b.time > 0
    BY DEF Timed
  <2>3. s = [first |-> s.first, last |-> s.last]
    BY DEF SpanIs
  <2> QED  BY <1>2, <2>1, <2>2, <2>3
<1> QED  BY <1>1, <1>2

\* Spans are widened to that of all entries.
LEMMA SpanMerge ==
  ASSUME NEW S, NEW T, \A e \in S \cup T : e.time \in Nat, NEW s, SpanIs(s, S), NEW t, SpanIs(t, T)
  PROVE  SpanIs(widen(s, t), S \cup T)
<1>1. PICK U : U = S \cup T
  OBVIOUS
<1>2. PICK A, B : A = Timed(S) /\ B = Timed(T)
  OBVIOUS
<1>3. Timed(U) = A \cup B /\ \A e \in A \cup B : e.time \in Nat /\ e.time > 0
  BY <1>1, <1>2 DEF Timed
<1>4. /\ s.first \in Nat /\ s.last \in Nat /\ t.first \in Nat /\ t.last \in Nat
      /\ s.first = 0 <=> A = {}
      /\ s.last = 0 <=> A = {}
      /\ t.first = 0 <=> B = {}
      /\ t.last = 0 <=> B = {}
  BY <1>2, SpanTypes
<1>5. PICK r : r = widen(s, t)
  OBVIOUS
<1>6. /\ r = [first |-> r.first, last |-> r.last]
      /\ r.first = IF t.first > 0 /\ (s.first = 0 \/ t.first < s.first) THEN t.first ELSE s.first
      /\ r.last = IF t.last > s.last THEN t.last ELSE s.last
  BY <1>5 DEF widen
<1>7. A # {} => /\ \E e \in A : s.first = e.time
                /\ \E e \in A : s.last = e.time
                /\ \A e \in A : s.first <= e.time /\ e.time <= s.last
  BY <1>2 DEF SpanIs
<1>8. B # {} => /\ \E e \in B : t.first = e.time
                /\ \E e \in B : t.last = e.time
                /\ \A e \in B : t.first <= e.time /\ e.time <= t.last
  BY <1>2 DEF SpanIs
<1>9. CASE A = {} /\ B = {}
  <2>1. r.first = 0 /\ r.last = 0
    BY <1>4, <1>6, <1>9
  <2>2. r = NoSpan
    BY <1>6, <2>1 DEF NoSpan
  <2> QED  BY <1>1, <1>3, <1>5, <1>6, <1>9, <2>2 DEF SpanIs
<1>10. CASE A \cup B # {}
  <2>1. \E e \in A \cup B : r.first = e.time
    <3>1. CASE t.first > 0 /\ (s.first = 0 \/ t.first < s.first)
      BY <1>4, <1>6, <1>8, <3>1
    <3>2. CASE ~(t.first > 0 /\ (s.first = 0 \/ t.first < s.first))
      <4>1. A # {}
        BY <1>4, <1>10, <3>2
      <4> QED  BY <1>6, <1>7, <3>2, <4>1
    <3> QED  BY <3>1, <3>2
  <2>2. \E e \in A \cup B : r.last = e.time
    <3>1. CASE t.last > s.last
      BY <1>4, <1>6, <1>8, <3>1
    <3>2. CASE ~(t.last > s.last)
      <4>1. A # {}
        BY <1>4, <1>10, <3>2
      <4> QED  BY <1>6, <1>7, <3>2, <4>1
    <3> QED  BY <3>1, <3>2
  <2>3. ASSUME NEW e \in A \cup B PROVE r.first <= e.time /\ e.time <= r.last
    <3>1. e.time \in Nat /\ e.time > 0
      BY <1>3
    <3>2. CASE e \in A
      BY <1>4, <1>6, <1>7, <3>1, <3>2
    <3>3. CASE e \in B
      BY <1>4, <1>6, <1>8, <3>1, <3>3
    <3> QED  BY <3>2, <3>3
  <2> QED  BY <1>1, <1>3, <1>5, <1>6, <1>10, <2>1, <2>2, <2>3 DEF SpanIs
<1> QED  BY <1>9, <1>10

\* A span that is as it should be is the one of the definition.
LEMMA SpanEnd ==
  ASSUME NEW S, \A e \in S : e.time \in Nat, NEW s, SpanIs(s, S)
  PROVE  s = SpanOf(Timed(S))
<1>1. CASE Timed(S) = {}
  BY <1>1 DEF SpanIs, SpanOf
<1>2. CASE Timed(S) # {}
  <2>1. PICK T : T = {e.time : e \in Timed(S)}
    OBVIOUS
  <2>2. T \in SUBSET Int
    BY <2>1 DEF Timed
  <2>3. s.first \in T /\ s.last \in T /\ \A t \in T : s.first <= t /\ t <= s.last
    BY <1>2, <2>1 DEF SpanIs
  <2>4. Min(T) = s.first /\ Max(T) = s.last
    BY <2>2, <2>3, MinMaxAre
  <2>5. s = [first |-> s.first, last |-> s.last]
    BY DEF SpanIs
  <2> QED  BY <1>2, <2>1, <2>4, <2>5 DEF SpanOf
<1> QED  BY <1>1, <1>2
-----------------------------------------------------------------------------
\* No entries have no latency.
LEMMA LatStart == \A v : LatIs(NoLat, v, {})
<1>1. \A v : Measured(v, {}) = {}
  BY DEF Measured
<1> QED  BY <1>1, SumEmpty, FS_EmptySet DEF LatIs, NoLat

\* The parts of a latency are numbers.
LEMMA LatTypes ==
  ASSUME NEW v, NEW S, IsFiniteSet(S), \A e \in S : v[e] \in Int, NEW l, LatIs(l, v, S)
  PROVE  /\ l.count \in Nat /\ l.sum \in Int /\ l.min \in Nat /\ l.max \in Nat
         /\ l.count = 0 <=> Measured(v, S) = {}
         /\ IsFiniteSet(Measured(v, S))
<1>1. PICK M : M = Measured(v, S)
  OBVIOUS
<1>2. M \in SUBSET S /\ \A e \in M : v[e] \in Int /\ v[e] >= 0
  BY <1>1 DEF Measured
<1>3. IsFiniteSet(M)
  BY <1>2, FS_Subset
<1>4. l.count \in Nat /\ l.sum \in Int /\ (l.count = 0 <=> M = {})
  <2>1. l.count = Cardinality(M) /\ l.sum = Sum(v, M)
    BY <1>1 DEF LatIs
  <2>2. Sum(v, M) \in Int
    BY <1>2, <1>3, SumRec
  <2> QED  BY <1>3, <2>1, <2>2, FS_CardinalityType, FS_EmptySet
<1>5. l.min \in Nat /\ l.max \in Nat
  <2>1. CASE M = {}
    BY <1>1, <2>1 DEF LatIs, NoLat
  <2>2. CASE M # {}
    <3>1. (\E e \in M : l.min = v[e]) /\ (\E e \in M : l.max = v[e])
      BY <1>1, <2>2 DEF LatIs
    <3> QED  BY <1>2, <3>1
  <2> QED  BY <2>1, <2>2
<1> QED  BY <1>1, <1>3, <1>4, <1>5

\* LatStat.merge.
LEMMA LatMerge ==
  ASSUME NEW v, NEW S, NEW T, IsFiniteSet(S), IsFiniteSet(T), S \cap T = {}, \A e \in S \cup T : v[e] \in Int,
         NEW s, LatIs(s, v, S), NEW t, LatIs(t, v, T)
  PROVE  LatIs(mergeLat(s, t), v, S \cup T)
<1>1. PICK A, B : A = Measured(v, S) /\ B = Measured(v, T)
  OBVIOUS
<1>2. /\ Measured(v, S \cup T) = A \cup B /\ A \cap B = {}
      /\ \A e \in A \cup B : v[e] \in Int /\ v[e] >= 0
  BY <1>1 DEF Measured
<1>3. /\ s.count \in Nat /\ s.sum \in Int /\ s.min \in Nat /\ s.max \in Nat
      /\ s.count = 0 <=> A = {}
      /\ IsFiniteSet(A)
  BY <1>1, LatTypes
<1>4. /\ t.count \in Nat /\ t.sum \in Int /\ t.min \in Nat /\ t.max \in Nat
      /\ t.count = 0 <=> B = {}
      /\ IsFiniteSet(B)
  BY <1>1, LatTypes
<1>5. CASE B = {}
  <2>1. mergeLat(s, t) = s /\ A \cup B = A
    BY <1>4, <1>5 DEF mergeLat
  <2> QED  BY <1>1, <1>2, <2>1 DEF LatIs
<1>6. CASE B # {}
  <2>1. PICK r : r = mergeLat(s, t)
    OBVIOUS
  <2>2. /\ r = [count |-> r.count, sum |-> r.sum, min |-> r.min, max |-> r.max]
        /\ r.count = s.count + t.count /\ r.sum = s.sum + t.sum
        /\ r.min = IF s.count = 0 \/ t.min < s.min THEN t.min ELSE s.min
        /\ r.max = IF t.max > s.max THEN t.max ELSE s.max
    BY <1>4, <1>6, <2>1 DEF mergeLat
  <2>3. /\ s.count = Cardinality(A) /\ s.sum = Sum(v, A)
        /\ A = {} => s = NoLat
        /\ A # {} => /\ \E e \in A : s.min = v[e]
                     /\ \E e \in A : s.max = v[e]
                     /\ \A e \in A : s.min <= v[e] /\ v[e] <= s.max
    BY <1>1 DEF LatIs
  <2>4. /\ t.count = Cardinality(B) /\ t.sum = Sum(v, B)
        /\ \E e \in B : t.min = v[e]
        /\ \E e \in B : t.max = v[e]
        /\ \A e \in B : t.min <= v[e] /\ v[e] <= t.max
    BY <1>1, <1>6 DEF LatIs
  <2>5. r.count = Cardinality(A \cup B)
    BY <1>2, <1>3, <1>4, <2>2, <2>3, <2>4, ApartAddUp
  <2>6. r.sum = Sum(v, A \cup B)
    <3>1. PICK D : D = A \cup B
      OBVIOUS
    <3>2. IsFiniteSet(D) /\ A \in SUBSET D /\ B \in SUBSET D
      BY <1>3, <1>4, <3>1, FS_Union
    <3>3. \A x \in D : v[x] \in Int
      BY <1>2, <3>1
    <3>4. Sum(v, A \cup B) = Sum(v, A) + Sum(v, B)
      BY <1>2, <3>2, <3>3, SumUnion
    <3> QED  BY <2>2, <2>3, <2>4, <3>4
  <2>7. \E e \in A \cup B : r.min = v[e]
    <3>1. CASE s.count = 0 \/ t.min < s.min
      BY <2>2, <2>4, <3>1
    <3>2. CASE ~(s.count = 0 \/ t.min < s.min)
      BY <1>3, <2>2, <2>3, <3>2
    <3> QED  BY <3>1, <3>2
  <2>8. \E e \in A \cup B : r.max = v[e]
    <3>1. CASE t.max > s.max
      BY <2>2, <2>4, <3>1
    <3>2. CASE ~(t.max > s.max) /\ A # {}
      BY <2>2, <2>3, <3>2
    <3>3. CASE ~(t.max > s.max) /\ A = {}
      <4>1. s.max = 0 /\ r.max = s.max
        BY <2>2, <2>3, <3>3 DEF NoLat
      <4>2. r.max = t.max
        BY <1>4, <3>3, <4>1
      <4> QED  BY <2>4, <4>2
    <3> QED  BY <3>1, <3>2, <3>3
  <2>9. ASSUME NEW e \in A \cup B PROVE r.min <= v[e] /\ v[e] <= r.max
    <3>1. v[e] \in Int
      BY <1>2
    <3>2. CASE e \in A
      <4>1. s.min <= v[e] /\ v[e] <= s.max /\ s.count # 0
        BY <1>3, <2>3, <3>2
      <4> QED  BY <1>3, <1>4, <2>2, <3>1, <4>1
    <3>3. CASE e \in B
      <4>1. t.min <= v[e] /\ v[e] <= t.max
        BY <2>4, <3>3
      <4> QED  BY <1>3, <1>4, <2>2, <3>1, <4>1
    <3> QED  BY <3>2, <3>3
  <2>10. A \cup B # {}
    BY <1>6
  <2> QED  BY <1>2, <2>1, <2>2, <2>5, <2>6, <2>7, <2>8, <2>9, <2>10 DEF LatIs
<1> QED  BY <1>5, <1>6

\* LatStat.add: a duration below 0 is none.
LEMMA LatAdd ==
  ASSUME NEW v, NEW S, IsFiniteSet(S), NEW e, e \notin S, \A x \in S \cup {e} : v[x] \in Int,
         NEW s, LatIs(s, v, S)
  PROVE  LatIs(addLat(s, v[e]), v, S \cup {e})
<1>1. v[e] \in Int
  OBVIOUS
<1>2. CASE v[e] < 0
  <2>1. Measured(v, S \cup {e}) = Measured(v, S)
    BY <1>1, <1>2 DEF Measured
  <2>2. addLat(s, v[e]) = s
    BY <1>2 DEF addLat
  <2> QED  BY <2>1, <2>2 DEF LatIs
<1>3. CASE ~(v[e] < 0)
  <2>1. PICK o : o = [count |-> 1, sum |-> v[e], min |-> v[e], max |-> v[e]]
    OBVIOUS
  <2>2. Measured(v, {e}) = {e}
    BY <1>1, <1>3 DEF Measured
  <2>3. Cardinality({e}) = 1 /\ Sum(v, {e}) = v[e]
    BY <1>1, SumSingle, FS_Singleton
  <2>4. LatIs(o, v, {e})
    BY <1>1, <2>1, <2>2, <2>3 DEF LatIs
  <2>5. addLat(s, v[e]) = mergeLat(s, o)
    BY <1>3, <2>1 DEF addLat
  <2>6. IsFiniteSet({e}) /\ S \cap {e} = {}
    BY FS_Singleton
  <2>7. LatIs(mergeLat(s, o), v, S \cup {e})
    BY <2>4, <2>6, LatMerge
  <2> QED  BY <2>5, <2>7
<1> QED  BY <1>2, <1>3

\* A sparse map by h has a value for each key of the entries S but those of X; joined
\* with another, or with one entry more, it has for the keys N their new values.
Having(h, k, S) == {e \in S : h[e] = k}
KeySet(h, X, S) == {h[e] : e \in S} \ X
KeyedBy(m, h, X, S) == DOMAIN m = KeySet(h, X, S)
Changed(n, m, N) == DOMAIN n = DOMAIN m \cup N /\ \A k \in DOMAIN m \ N : n[k] = m[k]

\* What it has, and what it does not.
LEMMA HavingFacts ==
  ASSUME NEW h, NEW X, NEW S, NEW T, S \cap T = {}, NEW m, KeyedBy(m, h, X, S),
         NEW o, KeyedBy(o, h, X, T), NEW n, Changed(n, m, DOMAIN o)
  PROVE  /\ KeyedBy(n, h, X, S \cup T)
         /\ \A k \in DOMAIN n :
              /\ Having(h, k, S \cup T) = Having(h, k, S) \cup Having(h, k, T)
              /\ Having(h, k, S) \cap Having(h, k, T) = {}
              /\ k \notin DOMAIN m => Having(h, k, S) = {}
              /\ k \notin DOMAIN o => Having(h, k, T) = {} /\ k \in DOMAIN m /\ n[k] = m[k]
<1>1. {h[e] : e \in S \cup T} = {h[e] : e \in S} \cup {h[e] : e \in T}
  OBVIOUS
<1>2. DOMAIN m = {h[e] : e \in S} \ X /\ DOMAIN o = {h[e] : e \in T} \ X
  BY DEF KeyedBy, KeySet
<1>3. KeyedBy(n, h, X, S \cup T)
  BY <1>1, <1>2 DEF KeyedBy, KeySet, Changed
<1>4. ASSUME NEW k \in DOMAIN n
      PROVE  /\ Having(h, k, S \cup T) = Having(h, k, S) \cup Having(h, k, T)
             /\ Having(h, k, S) \cap Having(h, k, T) = {}
             /\ k \notin DOMAIN m => Having(h, k, S) = {}
             /\ k \notin DOMAIN o => Having(h, k, T) = {} /\ k \in DOMAIN m /\ n[k] = m[k]
  <2>1. k \in DOMAIN m \/ k \in DOMAIN o
    BY DEF Changed
  <2>2. k \notin X
    BY <1>2, <2>1
  <2>3. k \notin DOMAIN m => Having(h, k, S) = {}
    BY <1>2, <2>2 DEF Having
  <2>6. k \notin DOMAIN o => Having(h, k, T) = {}
    BY <1>2, <2>2 DEF Having
  <2>4. k \notin DOMAIN o => Having(h, k, T) = {} /\ k \in DOMAIN m /\ n[k] = m[k]
    BY <2>1, <2>6 DEF Changed
  <2>5. /\ Having(h, k, S \cup T) = Having(h, k, S) \cup Having(h, k, T)
        /\ Having(h, k, S) \cap Having(h, k, T) = {}
    BY DEF Having
  <2> QED  BY <2>3, <2>4, <2>5
<1> QED  BY <1>3, <1>4

\* Of finitely many entries, each key has finitely many.
LEMMA HavingFinite ==
  ASSUME NEW S, IsFiniteSet(S)
  PROVE  \A h, k : IsFiniteSet(Having(h, k, S)) /\ Having(h, k, S) \subseteq S
<1>1. \A h, k : Having(h, k, S) \in SUBSET S
  BY DEF Having
<1> QED  BY <1>1, FS_Subset

\* One entry more has its own key, and changes no other.
LEMMA HavingMore ==
  ASSUME NEW h, NEW X, NEW S, NEW e, e \notin S, NEW m, KeyedBy(m, h, X, S),
         NEW n, Changed(n, m, {h[e]} \ X)
  PROVE  /\ KeyedBy(n, h, X, S \cup {e})
         /\ \A k \in DOMAIN n :
              /\ k \notin DOMAIN m => Having(h, k, S) = {}
              /\ k = h[e] => Having(h, k, S \cup {e}) = Having(h, k, S) \cup {e} /\ k \in {h[e]} \ X
              /\ k # h[e] => Having(h, k, S \cup {e}) = Having(h, k, S) /\ k \in DOMAIN m /\ n[k] = m[k]
              /\ e \notin Having(h, k, S)
<1>1. PICK o : o = [k \in {h[e]} \ X |-> 0]
  OBVIOUS
<1>2. DOMAIN o = {h[e]} \ X
  BY <1>1
<1>3. {h[x] : x \in {e}} = {h[e]}
  OBVIOUS
<1>4. KeyedBy(o, h, X, {e}) /\ Changed(n, m, DOMAIN o) /\ S \cap {e} = {}
  BY <1>2, <1>3 DEF KeyedBy, KeySet
<1>5. /\ KeyedBy(n, h, X, S \cup {e})
      /\ \A k \in DOMAIN n :
           /\ Having(h, k, S \cup {e}) = Having(h, k, S) \cup Having(h, k, {e})
           /\ k \notin DOMAIN m => Having(h, k, S) = {}
           /\ k \notin DOMAIN o => Having(h, k, {e}) = {} /\ k \in DOMAIN m /\ n[k] = m[k]
  BY ZenonT(60), <1>4, HavingFacts
<1>6. \A k \in DOMAIN n : k \notin X
  BY <1>5 DEF KeyedBy, KeySet
<1>7. \A k : (k = h[e] => Having(h, k, {e}) = {e}) /\ e \notin Having(h, k, S)
  BY DEF Having
<1> QED  BY SMTT(40), <1>2, <1>5, <1>6, <1>7

\* Sparse maps of counters (of the keys that g gives), of sums and of latencies.
CountersBy(m, h, X, g, S) ==
  KeyedBy(m, h, X, S) /\ \A k \in DOMAIN m : m[k] = Counter(g, Keyed(g, Having(h, k, S)))
SumsBy(m, h, X, K, names, S) ==
  KeyedBy(m, h, X, S) /\ \A k \in DOMAIN m : SumsAre(m[k], K, names, Having(h, k, S))
LatsBy(m, h, X, v, S) ==
  KeyedBy(m, h, X, S) /\ \A k \in DOMAIN m : LatIs(m[k], v, Having(h, k, S))

\* Without entries there are no keys.
LEMMA MapsStart ==
  \A h, X, g, K, names, v : /\ KeyedBy(<<>>, h, X, {})
                            /\ CountersBy(<<>>, h, X, g, {}) /\ SumsBy(<<>>, h, X, K, names, {})
                            /\ LatsBy(<<>>, h, X, v, {})
BY DEF KeyedBy, KeySet, CountersBy, SumsBy, LatsBy

\* Maps of counters are merged key by key.
LEMMA CountersMerge ==
  ASSUME NEW h, NEW X, NEW g, NEW S, NEW T, IsFiniteSet(S), IsFiniteSet(T), S \cap T = {},
         NEW m, CountersBy(m, h, X, g, S), NEW o, CountersBy(o, h, X, g, T),
         NEW n, Changed(n, m, DOMAIN o), \A k \in DOMAIN o : n[k] = ValueAt(m, k, EmptyBag) (+) o[k]
  PROVE  CountersBy(n, h, X, g, S \cup T)
<1>1. KeyedBy(m, h, X, S) /\ KeyedBy(o, h, X, T)
  BY DEF CountersBy
<1>2. /\ KeyedBy(n, h, X, S \cup T)
      /\ \A k \in DOMAIN n :
           /\ Having(h, k, S \cup T) = Having(h, k, S) \cup Having(h, k, T)
           /\ Having(h, k, S) \cap Having(h, k, T) = {}
           /\ k \notin DOMAIN m => Having(h, k, S) = {}
           /\ k \notin DOMAIN o => Having(h, k, T) = {} /\ k \in DOMAIN m /\ n[k] = m[k]
  BY <1>1, HavingFacts
<1>4. \A k : IsFiniteSet(Having(h, k, S)) /\ IsFiniteSet(Having(h, k, T))
  BY HavingFinite
<1>3. ASSUME NEW k \in DOMAIN n PROVE n[k] = Counter(g, Keyed(g, Having(h, k, S \cup T)))
  <2>1. PICK A, B : A = Having(h, k, S) /\ B = Having(h, k, T)
    OBVIOUS
  <2>2. CASE k \in DOMAIN o
    <3>1. o[k] = Counter(g, Keyed(g, B))
      BY <2>1, <2>2 DEF CountersBy
    <3>2. ValueAt(m, k, EmptyBag) = Counter(g, Keyed(g, A))
      <4>1. CASE k \in DOMAIN m
        BY <2>1, <4>1 DEF CountersBy, ValueAt
      <4>2. CASE k \notin DOMAIN m
        <5>1. Keyed(g, A) = {}
          BY <1>2, <2>1, <4>2 DEF Keyed
        <5> QED  BY <4>2, <5>1, CounterEmpty DEF ValueAt
      <4> QED  BY <4>1, <4>2
    <3>3. Counter(g, Keyed(g, A)) (+) Counter(g, Keyed(g, B)) = Counter(g, Keyed(g, A \cup B))
      BY <1>2, <1>4, <2>1, CounterMerge
    <3>4. Having(h, k, S \cup T) = A \cup B
      BY <1>2, <2>1
    <3> QED  BY <2>2, <3>1, <3>2, <3>3, <3>4
  <2>3. CASE k \notin DOMAIN o
    <3>1. k \in DOMAIN m /\ n[k] = m[k] /\ Having(h, k, S \cup T) = Having(h, k, S)
      BY <1>2, <2>3
    <3> QED  BY <3>1 DEF CountersBy
  <2> QED  BY <2>2, <2>3
<1> QED  BY <1>2, <1>3 DEF CountersBy

\* An entry more counts under its key.
LEMMA CountersAdd ==
  ASSUME NEW h, NEW X, NEW g, NEW S, IsFiniteSet(S), NEW e, e \notin S,
         NEW m, CountersBy(m, h, X, g, S), NEW n, Changed(n, m, {h[e]} \ X),
         \A k \in {h[e]} \ X : n[k] = add(ValueAt(m, k, EmptyBag), g[e])
  PROVE  CountersBy(n, h, X, g, S \cup {e})
<1>1. KeyedBy(m, h, X, S)
  BY DEF CountersBy
<1>2. /\ KeyedBy(n, h, X, S \cup {e})
      /\ \A k \in DOMAIN n :
           /\ k \notin DOMAIN m => Having(h, k, S) = {}
           /\ k = h[e] => Having(h, k, S \cup {e}) = Having(h, k, S) \cup {e} /\ k \in {h[e]} \ X
           /\ k # h[e] => Having(h, k, S \cup {e}) = Having(h, k, S) /\ k \in DOMAIN m /\ n[k] = m[k]
           /\ e \notin Having(h, k, S)
  BY <1>1, HavingMore
<1>3. ASSUME NEW k \in DOMAIN n PROVE n[k] = Counter(g, Keyed(g, Having(h, k, S \cup {e})))
  <2>1. PICK A : A = Having(h, k, S)
    OBVIOUS
  <2>2. CASE k = h[e]
    <3>1. ValueAt(m, k, EmptyBag) = Counter(g, Keyed(g, A))
      <4>1. CASE k \in DOMAIN m
        BY <2>1, <4>1 DEF CountersBy, ValueAt
      <4>2. CASE k \notin DOMAIN m
        <5>1. Keyed(g, A) = {}
          BY <1>2, <2>1, <4>2 DEF Keyed
        <5> QED  BY <4>2, <5>1, CounterEmpty DEF ValueAt
      <4> QED  BY <4>1, <4>2
    <3>2. Having(h, k, S \cup {e}) = A \cup {e} /\ e \notin A /\ k \in {h[e]} \ X
      BY <1>2, <2>1, <2>2
    <3>3. add(Counter(g, Keyed(g, A)), g[e]) = Counter(g, Keyed(g, A \cup {e}))
      <4>1. IsFiniteSet(A)
        BY <2>1, HavingFinite
      <4> QED  BY ZenonT(60), <3>2, <4>1, CounterAdd
    <3> QED  BY <3>1, <3>2, <3>3
  <2>3. CASE k # h[e]
    <3>1. k \in DOMAIN m /\ n[k] = m[k] /\ Having(h, k, S \cup {e}) = Having(h, k, S)
      BY <1>2, <2>3
    <3> QED  BY <3>1 DEF CountersBy
  <2> QED  BY <2>2, <2>3
<1> QED  BY <1>2, <1>3 DEF CountersBy

\* Maps of sums are merged key by key.
LEMMA SumMapsMerge ==
  ASSUME NEW h, NEW X, NEW K, NEW names, NEW S, NEW T, IsFiniteSet(S), IsFiniteSet(T), S \cap T = {},
         S \cup T \subseteq DOMAIN K, \A x \in S \cup T, i \in names : K[x][i] \in Int,
         NEW m, SumsBy(m, h, X, K, names, S), NEW o, SumsBy(o, h, X, K, names, T),
         NEW n, Changed(n, m, DOMAIN o), \A k \in DOMAIN o : n[k] = plus(ValueAt(m, k, NoSums(names)), o[k])
  PROVE  SumsBy(n, h, X, K, names, S \cup T)
<1>1. KeyedBy(m, h, X, S) /\ KeyedBy(o, h, X, T)
  BY DEF SumsBy
<1>2. /\ KeyedBy(n, h, X, S \cup T)
      /\ \A k \in DOMAIN n :
           /\ Having(h, k, S \cup T) = Having(h, k, S) \cup Having(h, k, T)
           /\ Having(h, k, S) \cap Having(h, k, T) = {}
           /\ k \notin DOMAIN m => Having(h, k, S) = {}
           /\ k \notin DOMAIN o => Having(h, k, T) = {} /\ k \in DOMAIN m /\ n[k] = m[k]
  BY <1>1, HavingFacts
<1>4. \A k : /\ IsFiniteSet(Having(h, k, S)) /\ Having(h, k, S) \subseteq S
            /\ IsFiniteSet(Having(h, k, T)) /\ Having(h, k, T) \subseteq T
  BY HavingFinite
<1>3. ASSUME NEW k \in DOMAIN n PROVE SumsAre(n[k], K, names, Having(h, k, S \cup T))
  <2>1. PICK A, B : A = Having(h, k, S) /\ B = Having(h, k, T)
    OBVIOUS
  <2>2. CASE k \in DOMAIN o
    <3>1. SumsAre(o[k], K, names, B)
      BY <2>1, <2>2 DEF SumsBy
    <3>2. SumsAre(ValueAt(m, k, NoSums(names)), K, names, A)
      <4>1. CASE k \in DOMAIN m
        BY <2>1, <4>1 DEF SumsBy, ValueAt
      <4>2. CASE k \notin DOMAIN m
        <5>1. A = {} /\ ValueAt(m, k, NoSums(names)) = NoSums(names)
          BY <1>2, <2>1, <4>2 DEF ValueAt
        <5> QED  BY <5>1, SumsStart
      <4> QED  BY <4>1, <4>2
    <3>3. A \cup B = Having(h, k, S \cup T) /\ A \cap B = {} /\ IsFiniteSet(A) /\ IsFiniteSet(B)
          /\ A \subseteq S /\ B \subseteq T
      BY <1>2, <1>4, <2>1
    <3>4. SumsAre(plus(ValueAt(m, k, NoSums(names)), o[k]), K, names, A \cup B)
      BY <3>1, <3>2, <3>3, SumsMerge
    <3> QED  BY <2>2, <3>3, <3>4
  <2>3. CASE k \notin DOMAIN o
    <3>1. k \in DOMAIN m /\ n[k] = m[k] /\ Having(h, k, S \cup T) = Having(h, k, S)
      BY <1>2, <2>3
    <3> QED  BY <3>1 DEF SumsBy
  <2> QED  BY <2>2, <2>3
<1> QED  BY <1>2, <1>3 DEF SumsBy

\* An entry more adds to the sums of its key.
LEMMA SumMapsAdd ==
  ASSUME NEW h, NEW X, NEW K, NEW names, NEW S, IsFiniteSet(S), NEW e, e \notin S,
         S \cup {e} \subseteq DOMAIN K, \A x \in S \cup {e}, i \in names : K[x][i] \in Int,
         DOMAIN K[e] = names,
         NEW m, SumsBy(m, h, X, K, names, S), NEW n, Changed(n, m, {h[e]} \ X),
         \A k \in {h[e]} \ X : n[k] = plus(ValueAt(m, k, NoSums(names)), K[e])
  PROVE  SumsBy(n, h, X, K, names, S \cup {e})
<1>1. KeyedBy(m, h, X, S)
  BY DEF SumsBy
<1>2. /\ KeyedBy(n, h, X, S \cup {e})
      /\ \A k \in DOMAIN n :
           /\ k \notin DOMAIN m => Having(h, k, S) = {}
           /\ k = h[e] => Having(h, k, S \cup {e}) = Having(h, k, S) \cup {e} /\ k \in {h[e]} \ X
           /\ k # h[e] => Having(h, k, S \cup {e}) = Having(h, k, S) /\ k \in DOMAIN m /\ n[k] = m[k]
           /\ e \notin Having(h, k, S)
  BY <1>1, HavingMore
<1>3. ASSUME NEW k \in DOMAIN n PROVE SumsAre(n[k], K, names, Having(h, k, S \cup {e}))
  <2>1. PICK A : A = Having(h, k, S)
    OBVIOUS
  <2>2. CASE k = h[e]
    <3>1. SumsAre(ValueAt(m, k, NoSums(names)), K, names, A)
      <4>1. CASE k \in DOMAIN m
        BY <2>1, <4>1 DEF SumsBy, ValueAt
      <4>2. CASE k \notin DOMAIN m
        <5>1. A = {} /\ ValueAt(m, k, NoSums(names)) = NoSums(names)
          BY <1>2, <2>1, <4>2 DEF ValueAt
        <5> QED  BY <5>1, SumsStart
      <4> QED  BY <4>1, <4>2
    <3>2. Having(h, k, S \cup {e}) = A \cup {e} /\ e \notin A /\ k \in {h[e]} \ X
      BY <1>2, <2>1, <2>2
    <3>3. IsFiniteSet(A) /\ A \subseteq S
      BY <2>1, HavingFinite
    <3>4. SumsAre(plus(ValueAt(m, k, NoSums(names)), K[e]), K, names, A \cup {e})
      BY <3>1, <3>2, <3>3, SumsAdd
    <3> QED  BY <3>2, <3>4
  <2>3. CASE k # h[e]
    <3>1. k \in DOMAIN m /\ n[k] = m[k] /\ Having(h, k, S \cup {e}) = Having(h, k, S)
      BY <1>2, <2>3
    <3> QED  BY <3>1 DEF SumsBy
  <2> QED  BY <2>2, <2>3
<1> QED  BY <1>2, <1>3 DEF SumsBy

\* Maps of latencies are merged key by key.
LEMMA LatsMerge ==
  ASSUME NEW h, NEW X, NEW v, NEW S, NEW T, IsFiniteSet(S), IsFiniteSet(T), S \cap T = {},
         \A x \in S \cup T : v[x] \in Int,
         NEW m, LatsBy(m, h, X, v, S), NEW o, LatsBy(o, h, X, v, T),
         NEW n, Changed(n, m, DOMAIN o), \A k \in DOMAIN o : n[k] = mergeLat(ValueAt(m, k, NoLat), o[k])
  PROVE  LatsBy(n, h, X, v, S \cup T)
<1>1. KeyedBy(m, h, X, S) /\ KeyedBy(o, h, X, T)
  BY DEF LatsBy
<1>2. /\ KeyedBy(n, h, X, S \cup T)
      /\ \A k \in DOMAIN n :
           /\ Having(h, k, S \cup T) = Having(h, k, S) \cup Having(h, k, T)
           /\ Having(h, k, S) \cap Having(h, k, T) = {}
           /\ k \notin DOMAIN m => Having(h, k, S) = {}
           /\ k \notin DOMAIN o => Having(h, k, T) = {} /\ k \in DOMAIN m /\ n[k] = m[k]
  BY <1>1, HavingFacts
<1>4. \A k : /\ IsFiniteSet(Having(h, k, S)) /\ Having(h, k, S) \subseteq S
            /\ IsFiniteSet(Having(h, k, T)) /\ Having(h, k, T) \subseteq T
  BY HavingFinite
<1>3. ASSUME NEW k \in DOMAIN n PROVE LatIs(n[k], v, Having(h, k, S \cup T))
  <2>1. PICK A, B : A = Having(h, k, S) /\ B = Having(h, k, T)
    OBVIOUS
  <2>2. CASE k \in DOMAIN o
    <3>1. LatIs(o[k], v, B)
      BY <2>1, <2>2 DEF LatsBy
    <3>2. LatIs(ValueAt(m, k, NoLat), v, A)
      <4>1. CASE k \in DOMAIN m
        BY <2>1, <4>1 DEF LatsBy, ValueAt
      <4>2. CASE k \notin DOMAIN m
        <5>1. A = {} /\ ValueAt(m, k, NoLat) = NoLat
          BY <1>2, <2>1, <4>2 DEF ValueAt
        <5> QED  BY <5>1, LatStart
      <4> QED  BY <4>1, <4>2
    <3>3. A \cup B = Having(h, k, S \cup T) /\ A \cap B = {} /\ IsFiniteSet(A) /\ IsFiniteSet(B)
          /\ A \subseteq S /\ B \subseteq T
      BY <1>2, <1>4, <2>1
    <3>4. LatIs(mergeLat(ValueAt(m, k, NoLat), o[k]), v, A \cup B)
      BY <3>1, <3>2, <3>3, LatMerge
    <3> QED  BY <2>2, <3>3, <3>4
  <2>3. CASE k \notin DOMAIN o
    <3>1. k \in DOMAIN m /\ n[k] = m[k] /\ Having(h, k, S \cup T) = Having(h, k, S)
      BY <1>2, <2>3
    <3> QED  BY <3>1 DEF LatsBy
  <2> QED  BY <2>2, <2>3
<1> QED  BY <1>2, <1>3 DEF LatsBy

\* An entry more counts for the latency of its key.
LEMMA LatsAdd ==
  ASSUME NEW h, NEW X, NEW v, NEW S, IsFiniteSet(S), NEW e, e \notin S,
         \A x \in S \cup {e} : v[x] \in Int,
         NEW m, LatsBy(m, h, X, v, S), NEW n, Changed(n, m, {h[e]} \ X),
         \A k \in {h[e]} \ X : n[k] = addLat(ValueAt(m, k, NoLat), v[e])
  PROVE  LatsBy(n, h, X, v, S \cup {e})
<1>1. KeyedBy(m, h, X, S)
  BY DEF LatsBy
<1>2. /\ KeyedBy(n, h, X, S \cup {e})
      /\ \A k \in DOMAIN n :
           /\ k \notin DOMAIN m => Having(h, k, S) = {}
           /\ k = h[e] => Having(h, k, S \cup {e}) = Having(h, k, S) \cup {e} /\ k \in {h[e]} \ X
           /\ k # h[e] => Having(h, k, S \cup {e}) = Having(h, k, S) /\ k \in DOMAIN m /\ n[k] = m[k]
           /\ e \notin Having(h, k, S)
  BY <1>1, HavingMore
<1>3. ASSUME NEW k \in DOMAIN n PROVE LatIs(n[k], v, Having(h, k, S \cup {e}))
  <2>1. PICK A : A = Having(h, k, S)
    OBVIOUS
  <2>2. CASE k = h[e]
    <3>1. LatIs(ValueAt(m, k, NoLat), v, A)
      <4>1. CASE k \in DOMAIN m
        BY <2>1, <4>1 DEF LatsBy, ValueAt
      <4>2. CASE k \notin DOMAIN m
        <5>1. A = {} /\ ValueAt(m, k, NoLat) = NoLat
          BY <1>2, <2>1, <4>2 DEF ValueAt
        <5> QED  BY <5>1, LatStart
      <4> QED  BY <4>1, <4>2
    <3>2. Having(h, k, S \cup {e}) = A \cup {e} /\ e \notin A /\ k \in {h[e]} \ X
      BY <1>2, <2>1, <2>2
    <3>3. IsFiniteSet(A) /\ A \subseteq S
      BY <2>1, HavingFinite
    <3>4. LatIs(addLat(ValueAt(m, k, NoLat), v[e]), v, A \cup {e})
      BY <3>1, <3>2, <3>3, LatAdd
    <3> QED  BY <3>2, <3>4
  <2>3. CASE k # h[e]
    <3>1. k \in DOMAIN m /\ n[k] = m[k] /\ Having(h, k, S \cup {e}) = Having(h, k, S)
      BY <1>2, <2>3
    <3> QED  BY <3>1 DEF LatsBy
  <2> QED  BY <2>2, <2>3
<1> QED  BY <1>2, <1>3 DEF LatsBy

\* K gives each entry of U its numbers by name; v gives each its number.
Table(K, names, U) == DOMAIN K = U /\ \A e \in U : DOMAIN K[e] = names /\ \A n \in names : K[e][n] \in Int
Valued(v, U) == DOMAIN v = U /\ \A e \in U : v[e] \in Int

\* The parts of finitely many entries are finite.
LEMMA Parts ==
  ASSUME NEW U, IsFiniteSet(U)
  PROVE  \A S \in SUBSET U : IsFiniteSet(S) /\ \A e \in U : S \cup {e} \in SUBSET U /\ (e \notin S => S \cap {e} = {})
BY FS_Subset

\* All there is to say of sums by name.
Total(K, n, S) == Sum([e \in S |-> K[e][n]], S)
TotalsAre(s, K, names, S) ==
  DOMAIN s = names /\ (\A n \in names : s[n] = Total(K, n, S)) /\ (\A n \in names : s[n] \in Int)

\* Sums by name are those of no entry at first, of an entry more after an addition, and of both
\* sets of entries after a merge.
LEMMA SumsRules ==
  ASSUME NEW U, IsFiniteSet(U), NEW K, NEW names, Table(K, names, U)
  PROVE  /\ SumsAre(NoSums(names), K, names, {})
         /\ \A S \in SUBSET U, e \in U : \A s : SumsAre(s, K, names, S) /\ e \notin S => SumsAre(plus(s, K[e]), K, names, S \cup {e})
         /\ \A S, T \in SUBSET U : \A s, t : SumsAre(s, K, names, S) /\ SumsAre(t, K, names, T) /\ S \cap T = {}
              => SumsAre(plus(s, t), K, names, S \cup T)
<1>0. \A S \in SUBSET U : IsFiniteSet(S)
  BY FS_Subset
<1>1. DOMAIN K = U /\ \A e \in U : DOMAIN K[e] = names /\ \A n \in names : K[e][n] \in Int
  BY DEF Table
<1>2. SumsAre(NoSums(names), K, names, {})
  BY SumsStart
<1>3. ASSUME NEW S \in SUBSET U, NEW e \in U, NEW s, SumsAre(s, K, names, S), e \notin S
      PROVE  SumsAre(plus(s, K[e]), K, names, S \cup {e})
  <2>1. IsFiniteSet(S) /\ S \cup {e} \subseteq DOMAIN K /\ (\A x \in S \cup {e}, n \in names : K[x][n] \in Int) /\ DOMAIN K[e] = names
    BY <1>0, <1>1
  <2> QED  BY <1>3, <2>1, SumsAdd
<1>4. ASSUME NEW S \in SUBSET U, NEW T \in SUBSET U, NEW s, NEW t, SumsAre(s, K, names, S), SumsAre(t, K, names, T), S \cap T = {}
      PROVE  SumsAre(plus(s, t), K, names, S \cup T)
  <2>1. IsFiniteSet(S) /\ IsFiniteSet(T) /\ S \cup T \subseteq DOMAIN K /\ (\A x \in S \cup T, n \in names : K[x][n] \in Int)
    BY <1>0, <1>1
  <2> QED  BY <1>4, <2>1, SumsMerge
<1> QED  BY <1>2, <1>3, <1>4

\* The sums that are as they should be.
LEMMA SumsEnd ==
  ASSUME NEW U, IsFiniteSet(U), NEW K, NEW names, Table(K, names, U), NEW S \in SUBSET U, NEW s, SumsAre(s, K, names, S)
  PROVE  TotalsAre(s, K, names, S)
<1>0. IsFiniteSet(S)
  BY FS_Subset
<1>1. DOMAIN K = U /\ \A e \in U : DOMAIN K[e] = names /\ \A n \in names : K[e][n] \in Int
  BY DEF Table
<1>2. ASSUME NEW n \in names PROVE Sum(Column(K, n), S) = Sum([e \in S |-> K[e][n]], S) /\ Sum(Column(K, n), S) \in Int
  <2>1. PICK f, g : f = Column(K, n) /\ g = [e \in S |-> K[e][n]]
    OBVIOUS
  <2>2. \A e \in S : g[e] \in Int /\ f[e] \in Int /\ f[e] = g[e]
    BY <1>1, <2>1 DEF Column
  <2>3. Sum(f, S) = Sum(g, S)
    BY <1>0, <2>2, SumSame
  <2>4. Sum(f, S) \in Int
    BY <1>0, <2>2, SumRec
  <2> QED  BY <2>1, <2>3, <2>4
<1> QED  BY <1>2 DEF SumsAre, Total, TotalsAre

\* All there is to say of counters by name.
Keys(K, n, S) ==
  LET T == {x \in S : K[x][n] # ""} IN [k \in {K[e][n] : e \in T} |-> Cardinality({e \in T : K[e][n] = k})]

\* So are the counters by name.
LEMMA KeysRules ==
  ASSUME NEW U, IsFiniteSet(U), NEW K, DOMAIN K = U, NEW names
  PROVE  /\ KeysAre(NoKeys(names), K, names, {})
         /\ \A S \in SUBSET U, e \in U : \A s : KeysAre(s, K, names, S) /\ e \notin S => KeysAre(addKeys(s, K[e]), K, names, S \cup {e})
         /\ \A S, T \in SUBSET U : \A s, t : KeysAre(s, K, names, S) /\ KeysAre(t, K, names, T) /\ S \cap T = {}
              => KeysAre(merge(s, t), K, names, S \cup T)
<1>0. \A S \in SUBSET U : IsFiniteSet(S)
  BY FS_Subset
<1>2. KeysAre(NoKeys(names), K, names, {})
  BY KeysStart
<1>3. ASSUME NEW S \in SUBSET U, NEW e \in U, NEW s, KeysAre(s, K, names, S), e \notin S
      PROVE  KeysAre(addKeys(s, K[e]), K, names, S \cup {e})
  BY <1>0, <1>3, KeysAdd
<1>4. ASSUME NEW S \in SUBSET U, NEW T \in SUBSET U, NEW s, NEW t, KeysAre(s, K, names, S), KeysAre(t, K, names, T), S \cap T = {}
      PROVE  KeysAre(merge(s, t), K, names, S \cup T)
  BY <1>0, <1>4, KeysMerge
<1> QED  BY <1>2, <1>3, <1>4

\* The counters that are as they should be.
LEMMA KeysEnd ==
  ASSUME NEW U, NEW K, DOMAIN K = U, NEW names, NEW S \in SUBSET U, NEW s, KeysAre(s, K, names, S)
  PROVE  DOMAIN s = names /\ \A n \in names : s[n] = Keys(K, n, S)
<1>1. ASSUME NEW n \in names PROVE s[n] = Keys(K, n, S)
  <2>1. PICK f : f = Column(K, n)
    OBVIOUS
  <2>2. s[n] = Counter(f, Keyed(f, S))
    BY <2>1 DEF KeysAre
  <2>3. \A e \in S : f[e] = K[e][n]
    BY <2>1 DEF Column
  <2>4. Keyed(f, S) = {e \in S : K[e][n] # ""}
    BY <2>3 DEF Keyed
  <2>5. {f[e] : e \in Keyed(f, S)} = {K[e][n] : e \in Keyed(f, S)}
    BY <2>3 DEF Keyed
  <2>6. \A k : {e \in Keyed(f, S) : f[e] = k} = {e \in Keyed(f, S) : K[e][n] = k}
    BY <2>3 DEF Keyed
  <2> QED  BY <2>2, <2>4, <2>5, <2>6 DEF Counter, Keys
<1> QED  BY <1>1 DEF KeysAre

\* All there is to say of spans.
LEMMA SpanRules ==
  ASSUME NEW U, \A e \in U : e.time \in Nat
  PROVE  /\ SpanIs(NoSpan, {})
         /\ \A S \in SUBSET U, e \in U : \A s : SpanIs(s, S) => SpanIs(widen(s, At(e.time)), S \cup {e})
         /\ \A S, T \in SUBSET U : \A s, t : SpanIs(s, S) /\ SpanIs(t, T) => SpanIs(widen(s, t), S \cup T)
<1>1. SpanIs(NoSpan, {})
  BY SpanStart
<1>2. ASSUME NEW S \in SUBSET U, NEW T \in SUBSET U, NEW s, NEW t, SpanIs(s, S), SpanIs(t, T)
      PROVE  SpanIs(widen(s, t), S \cup T)
  BY <1>2, SpanMerge
<1>3. ASSUME NEW S \in SUBSET U, NEW e \in U, NEW s, SpanIs(s, S) PROVE SpanIs(widen(s, At(e.time)), S \cup {e})
  <2>1. SpanIs(At(e.time), {e}) /\ {e} \in SUBSET U
    BY SpanStart
  <2> QED  BY <1>2, <1>3, <2>1
<1> QED  BY <1>1, <1>2, <1>3

\* A latency that is as it should be is the one of the definition.
Lats(v, S) ==
  LET M == {e \in S : v[e] >= 0}
  IN  IF M = {} THEN NoLat
      ELSE [count |-> Cardinality(M), sum |-> Sum([e \in M |-> v[e]], M), min |-> Min({v[e] : e \in M}), max |-> Max({v[e] : e \in M})]

\* A latency kept entry by entry is the one of the definition.
LEMMA LatEnd ==
  ASSUME NEW v, NEW S, IsFiniteSet(S), \A e \in S : v[e] \in Int, NEW l, LatIs(l, v, S)
  PROVE  l = Lats(v, S)
<1>1. PICK M : M = Measured(v, S)
  OBVIOUS
<1>2. M = {e \in S : v[e] >= 0}
  BY <1>1 DEF Measured
<1>3. CASE M = {}
  BY <1>1, <1>2, <1>3 DEF LatIs, Lats
<1>4. CASE M # {}
  <2>1. PICK T : T = {v[e] : e \in M}
    OBVIOUS
  <2>2. T \in SUBSET Int
    BY <1>2, <2>1
  <2>3. l.min \in T /\ l.max \in T /\ \A x \in T : l.min <= x /\ x <= l.max
    BY <1>1, <1>4, <2>1 DEF LatIs
  <2>4. Min(T) = l.min /\ Max(T) = l.max
    BY <2>2, <2>3, MinMaxAre
  <2>5. l = [count |-> l.count, sum |-> l.sum, min |-> l.min, max |-> l.max] /\ l.count = Cardinality(M) /\ l.sum = Sum(v, M)
    BY <1>1 DEF LatIs
  <2>6. PICK g : g = [e \in M |-> v[e]]
    OBVIOUS
  <2>7. IsFiniteSet(M)
    BY <1>1, LatTypes
  <2>8. Sum(g, M) = Sum(v, M)
    <3>1. \A e \in M : v[e] \in Int /\ g[e] = v[e]
      BY <1>2, <2>6
    <3> QED  BY <2>7, <3>1, SumSame
  <2>9. l = [count |-> Cardinality(M), sum |-> Sum(g, M), min |-> Min(T), max |-> Max(T)]
    BY <2>4, <2>5, <2>8
  <2> QED  BY <1>2, <1>4, <2>1, <2>6, <2>9 DEF Lats
<1> QED  BY <1>3, <1>4

\* All there is to say of latencies.
LEMMA LatRules ==
  ASSUME NEW U, IsFiniteSet(U), NEW v, Valued(v, U)
  PROVE  /\ LatIs(NoLat, v, {})
         /\ \A S \in SUBSET U, e \in U : \A s : LatIs(s, v, S) /\ e \notin S => LatIs(addLat(s, v[e]), v, S \cup {e})
         /\ \A S, T \in SUBSET U : \A s, t : LatIs(s, v, S) /\ LatIs(t, v, T) /\ S \cap T = {} => LatIs(mergeLat(s, t), v, S \cup T)
<1>0. \A S \in SUBSET U : IsFiniteSet(S) /\ \A e \in S : v[e] \in Int
  BY FS_Subset DEF Valued
<1>1. LatIs(NoLat, v, {})
  BY LatStart
<1>2. ASSUME NEW S \in SUBSET U, NEW e \in U, NEW s, LatIs(s, v, S), e \notin S PROVE LatIs(addLat(s, v[e]), v, S \cup {e})
  <2>1. \A x \in S \cup {e} : v[x] \in Int
    BY DEF Valued
  <2> QED  BY <1>0, <1>2, <2>1, LatAdd
<1>3. ASSUME NEW S \in SUBSET U, NEW T \in SUBSET U, NEW s, NEW t, LatIs(s, v, S), LatIs(t, v, T), S \cap T = {}
      PROVE  LatIs(mergeLat(s, t), v, S \cup T)
  <2>1. \A x \in S \cup T : v[x] \in Int
    BY DEF Valued
  <2> QED  BY <1>0, <1>3, <2>1, LatMerge
<1> QED  BY <1>1, <1>2, <1>3

\* All there is to say of maps of counters.
LEMMA CountersRules ==
  ASSUME NEW U, IsFiniteSet(U), NEW h, NEW X, NEW g
  PROVE  /\ CountersBy(<<>>, h, X, g, {})
         /\ \A S \in SUBSET U, e \in U : \A m, n :
              CountersBy(m, h, X, g, S) /\ e \notin S /\ Changed(n, m, {h[e]} \ X)
              /\ (\A k \in {h[e]} \ X : n[k] = add(ValueAt(m, k, EmptyBag), g[e]))
                => CountersBy(n, h, X, g, S \cup {e})
         /\ \A S, T \in SUBSET U : \A m, o, n :
              CountersBy(m, h, X, g, S) /\ CountersBy(o, h, X, g, T) /\ S \cap T = {} /\ Changed(n, m, DOMAIN o)
              /\ (\A k \in DOMAIN o : n[k] = ValueAt(m, k, EmptyBag) (+) o[k])
                => CountersBy(n, h, X, g, S \cup T)
<1>0. \A S \in SUBSET U : IsFiniteSet(S)
  BY FS_Subset
<1>1. CountersBy(<<>>, h, X, g, {})
  BY Zenon, MapsStart
<1>2. ASSUME NEW S \in SUBSET U, NEW e \in U, NEW m, NEW n, CountersBy(m, h, X, g, S), e \notin S, Changed(n, m, {h[e]} \ X),
             \A k \in {h[e]} \ X : n[k] = add(ValueAt(m, k, EmptyBag), g[e])
      PROVE  CountersBy(n, h, X, g, S \cup {e})
  BY Zenon, <1>0, <1>2, CountersAdd
<1>3. ASSUME NEW S \in SUBSET U, NEW T \in SUBSET U, NEW m, NEW o, NEW n, CountersBy(m, h, X, g, S), CountersBy(o, h, X, g, T), S \cap T = {},
             Changed(n, m, DOMAIN o), \A k \in DOMAIN o : n[k] = ValueAt(m, k, EmptyBag) (+) o[k]
      PROVE  CountersBy(n, h, X, g, S \cup T)
  BY Zenon, <1>0, <1>3, CountersMerge
<1> QED  BY <1>1, <1>2, <1>3

\* All there is to say of maps of sums.
LEMMA SumMapsRules ==
  ASSUME NEW U, IsFiniteSet(U), NEW h, NEW X, NEW K, NEW names, Table(K, names, U)
  PROVE  /\ SumsBy(<<>>, h, X, K, names, {})
         /\ \A S \in SUBSET U, e \in U : \A m, n :
              SumsBy(m, h, X, K, names, S) /\ e \notin S /\ Changed(n, m, {h[e]} \ X)
              /\ (\A k \in {h[e]} \ X : n[k] = plus(ValueAt(m, k, NoSums(names)), K[e]))
                => SumsBy(n, h, X, K, names, S \cup {e})
         /\ \A S, T \in SUBSET U : \A m, o, n :
              SumsBy(m, h, X, K, names, S) /\ SumsBy(o, h, X, K, names, T) /\ S \cap T = {} /\ Changed(n, m, DOMAIN o)
              /\ (\A k \in DOMAIN o : n[k] = plus(ValueAt(m, k, NoSums(names)), o[k]))
                => SumsBy(n, h, X, K, names, S \cup T)
<1>0. \A S \in SUBSET U : IsFiniteSet(S)
  BY FS_Subset
<1>1. SumsBy(<<>>, h, X, K, names, {})
  BY Zenon, MapsStart
<1>2. ASSUME NEW S \in SUBSET U, NEW e \in U, NEW m, NEW n, SumsBy(m, h, X, K, names, S), e \notin S, Changed(n, m, {h[e]} \ X),
             \A k \in {h[e]} \ X : n[k] = plus(ValueAt(m, k, NoSums(names)), K[e])
      PROVE  SumsBy(n, h, X, K, names, S \cup {e})
  <2>1. S \cup {e} \subseteq DOMAIN K /\ (\A x \in S \cup {e}, i \in names : K[x][i] \in Int) /\ DOMAIN K[e] = names
    BY DEF Table
  <2> QED  BY Zenon, <1>0, <1>2, <2>1, SumMapsAdd
<1>3. ASSUME NEW S \in SUBSET U, NEW T \in SUBSET U, NEW m, NEW o, NEW n, SumsBy(m, h, X, K, names, S), SumsBy(o, h, X, K, names, T), S \cap T = {},
             Changed(n, m, DOMAIN o), \A k \in DOMAIN o : n[k] = plus(ValueAt(m, k, NoSums(names)), o[k])
      PROVE  SumsBy(n, h, X, K, names, S \cup T)
  <2>1. S \cup T \subseteq DOMAIN K /\ (\A x \in S \cup T, i \in names : K[x][i] \in Int)
    BY DEF Table
  <2> QED  BY Zenon, <1>0, <1>3, <2>1, SumMapsMerge
<1> QED  BY <1>1, <1>2, <1>3

\* All there is to say of maps of latencies.
LEMMA LatMapsRules ==
  ASSUME NEW U, IsFiniteSet(U), NEW h, NEW X, NEW v, Valued(v, U)
  PROVE  /\ LatsBy(<<>>, h, X, v, {})
         /\ \A S \in SUBSET U, e \in U : \A m, n :
              LatsBy(m, h, X, v, S) /\ e \notin S /\ Changed(n, m, {h[e]} \ X)
              /\ (\A k \in {h[e]} \ X : n[k] = addLat(ValueAt(m, k, NoLat), v[e]))
                => LatsBy(n, h, X, v, S \cup {e})
         /\ \A S, T \in SUBSET U : \A m, o, n :
              LatsBy(m, h, X, v, S) /\ LatsBy(o, h, X, v, T) /\ S \cap T = {} /\ Changed(n, m, DOMAIN o)
              /\ (\A k \in DOMAIN o : n[k] = mergeLat(ValueAt(m, k, NoLat), o[k]))
                => LatsBy(n, h, X, v, S \cup T)
<1>0. \A S \in SUBSET U : IsFiniteSet(S)
  BY FS_Subset
<1>1. LatsBy(<<>>, h, X, v, {})
  BY Zenon, MapsStart
<1>2. ASSUME NEW S \in SUBSET U, NEW e \in U, NEW m, NEW n, LatsBy(m, h, X, v, S), e \notin S, Changed(n, m, {h[e]} \ X),
             \A k \in {h[e]} \ X : n[k] = addLat(ValueAt(m, k, NoLat), v[e])
      PROVE  LatsBy(n, h, X, v, S \cup {e})
  <2>1. \A x \in S \cup {e} : v[x] \in Int
    BY DEF Valued
  <2> QED  BY Zenon, <1>0, <1>2, <2>1, LatsAdd
<1>3. ASSUME NEW S \in SUBSET U, NEW T \in SUBSET U, NEW m, NEW o, NEW n, LatsBy(m, h, X, v, S), LatsBy(o, h, X, v, T), S \cap T = {},
             Changed(n, m, DOMAIN o), \A k \in DOMAIN o : n[k] = mergeLat(ValueAt(m, k, NoLat), o[k])
      PROVE  LatsBy(n, h, X, v, S \cup T)
  <2>1. \A x \in S \cup T : v[x] \in Int
    BY DEF Valued
  <2> QED  BY Zenon, <1>0, <1>3, <2>1, LatsMerge
<1> QED  BY <1>1, <1>2, <1>3

-----------------------------------------------------------------------------
(*****************************************************************************)
(* The summary of CloudTrail records.                                        *)
(*****************************************************************************)

\* An addition of a Boolean is zero or one.
LEMMA Ones == \A c : One(c) \in Int /\ One(c) \in 0 .. 1
BY DEF One
-----------------------------------------------------------------------------
\* A summary of CloudTrail records is as it should be for the records S of U.
trailTotals == {"TotalEvents", "WriteEvents", "ErrorEvents"}
TrailRep(s, S, U) ==
  /\ SumsAre(s.sums, [e \in U |-> trailSums(e)], trailTotals, S)
  /\ KeysAre(s.by, [e \in U |-> trailKeys(e)], trailCounters, S)
  /\ SpanIs(s.span, S)

\* Every CloudTrail record adds whole numbers to the sums.
LEMMA TrailSumsAre ==
  ASSUME NEW U
  PROVE  Table([e \in U |-> trailSums(e)], trailTotals, U)
<1>1. ASSUME NEW e PROVE DOMAIN trailSums(e) = trailTotals /\ \A n \in trailTotals : trailSums(e)[n] \in Int
  <2>1. PICK a, b : a = One(IsWrite(e)) /\ b = One(e.error # "")
    OBVIOUS
  <2>2. a \in Int /\ b \in Int
    BY Zenon, <2>1, Ones
  <2>3. trailSums(e) = [TotalEvents |-> 1, WriteEvents |-> a, ErrorEvents |-> b]
    BY <2>1, Zenon DEF trailSums
  <2> QED  BY <2>2, <2>3 DEF trailTotals
<1> QED  BY <1>1 DEF Table

\* NewSummary, Add and Merge of CloudTrail summaries keep the summary that of its records, and such
\* a summary is the one the result is to hold.
LEMMA TrailRules ==
  ASSUME NEW U, IsFiniteSet(U), \A e \in U : e.time \in Nat
  PROVE  /\ TrailRep(NewSummary, {}, U)
         /\ \A S \in SUBSET U, e \in U : \A s : TrailRep(s, S, U) /\ e \notin S => TrailRep(trailAdd(s, e), S \cup {e}, U)
         /\ \A S, T \in SUBSET U : \A s, t : TrailRep(s, S, U) /\ TrailRep(t, T, U) /\ S \cap T = {}
              => TrailRep(trailMerge(s, t), S \cup T, U)
         /\ \A S \in SUBSET U : \A s : TrailRep(s, S, U) => TrailIsOf(s, S)
<1>1. PICK K : K = [e \in U |-> trailSums(e)]
  OBVIOUS
<1>2. PICK L : L = [e \in U |-> trailKeys(e)]
  OBVIOUS
<1>3. \A s, S : TrailRep(s, S, U) <=> SumsAre(s.sums, K, trailTotals, S) /\ KeysAre(s.by, L, trailCounters, S) /\ SpanIs(s.span, S)
  BY <1>1, <1>2, Zenon DEF TrailRep
<1>4. Table(K, trailTotals, U) /\ DOMAIN L = U
  BY <1>1, <1>2, TrailSumsAre
<1>5. \A e \in U : K[e] = trailSums(e) /\ L[e] = trailKeys(e)
  BY <1>1, <1>2
<1>6. TrailRep(NewSummary, {}, U)
  <2>1. SumsAre(NoSums(trailTotals), K, trailTotals, {}) /\ KeysAre(NoKeys(trailCounters), L, trailCounters, {}) /\ SpanIs(NoSpan, {})
    BY SumsStart, KeysStart, SpanStart
  <2>2. NewSummary = [sums |-> NoSums(trailTotals), span |-> NoSpan, by |-> NoKeys(trailCounters)]
    BY DEF NewSummary, trailTotals
  <2> QED  BY <1>3, <2>1, <2>2
<1>7. ASSUME NEW S \in SUBSET U, NEW e \in U, NEW s, TrailRep(s, S, U), e \notin S
      PROVE  TrailRep(trailAdd(s, e), S \cup {e}, U)
  <2>1. SumsAre(s.sums, K, trailTotals, S) /\ KeysAre(s.by, L, trailCounters, S) /\ SpanIs(s.span, S)
    BY <1>3, <1>7
  <2>2. SumsAre(plus(s.sums, K[e]), K, trailTotals, S \cup {e})
    BY <1>4, <1>7, <2>1, SumsRules
  <2>3. KeysAre(addKeys(s.by, L[e]), L, trailCounters, S \cup {e})
    BY <1>4, <1>7, <2>1, KeysRules
  <2>4. SpanIs(widen(s.span, At(e.time)), S \cup {e})
    BY <2>1, SpanRules
  <2>5. trailAdd(s, e) = [sums |-> plus(s.sums, K[e]), span |-> widen(s.span, At(e.time)), by |-> addKeys(s.by, L[e])]
    BY <1>5, Zenon DEF trailAdd
  <2> QED  BY <1>3, <2>2, <2>3, <2>4, <2>5
<1>8. ASSUME NEW S \in SUBSET U, NEW T \in SUBSET U, NEW s, NEW t, TrailRep(s, S, U), TrailRep(t, T, U), S \cap T = {}
      PROVE  TrailRep(trailMerge(s, t), S \cup T, U)
  <2>1. /\ SumsAre(s.sums, K, trailTotals, S) /\ KeysAre(s.by, L, trailCounters, S) /\ SpanIs(s.span, S)
        /\ SumsAre(t.sums, K, trailTotals, T) /\ KeysAre(t.by, L, trailCounters, T) /\ SpanIs(t.span, T)
    BY <1>3, <1>8
  <2>2. SumsAre(plus(s.sums, t.sums), K, trailTotals, S \cup T)
    BY <1>4, <1>8, <2>1, SumsRules
  <2>3. KeysAre(merge(s.by, t.by), L, trailCounters, S \cup T)
    BY <1>4, <1>8, <2>1, KeysRules
  <2>4. SpanIs(widen(s.span, t.span), S \cup T)
    BY <2>1, SpanRules
  <2>5. trailMerge(s, t) = [sums |-> plus(s.sums, t.sums), span |-> widen(s.span, t.span), by |-> merge(s.by, t.by)]
    BY Zenon DEF trailMerge
  <2> QED  BY <1>3, <2>2, <2>3, <2>4, <2>5
<1>9. ASSUME NEW S \in SUBSET U, NEW s, TrailRep(s, S, U) PROVE TrailIsOf(s, S)
  <2>1. SumsAre(s.sums, K, trailTotals, S) /\ KeysAre(s.by, L, trailCounters, S) /\ SpanIs(s.span, S)
    BY <1>3, <1>9
  <2>2. TotalsAre(s.sums, K, trailTotals, S)
    BY <1>4, <2>1, SumsEnd
  <2>3. \A n \in DOMAIN s.sums : s.sums[n] = SumOf(S, LAMBDA r : trailSums(r)[n])
    <3>1. \A n : [e \in S |-> K[e][n]] = [e \in S |-> trailSums(e)[n]]
      BY <1>5
    <3> QED  BY <2>2, <3>1 DEF SumOf, Total, TotalsAre
  <2>4. \A n \in trailCounters : s.by[n] = Keys(L, n, S)
    BY <1>4, <2>1, KeysEnd
  <2>5. ASSUME NEW n \in trailCounters PROVE s.by[n] = CountKeys(S, LAMBDA r : trailKeys(r)[n])
    <3>1. PICK T : T = {x \in S : L[x][n] # ""}
      OBVIOUS
    <3>2. T = {x \in S : trailKeys(x)[n] # ""} /\ {L[e][n] : e \in T} = {trailKeys(e)[n] : e \in T}
      BY <1>5, <3>1
    <3>3. \A k : {e \in T : L[e][n] = k} = {e \in T : trailKeys(e)[n] = k}
      BY <1>5, <3>1
    <3>4. Keys(L, n, S) = [k \in {trailKeys(e)[n] : e \in T} |-> Cardinality({e \in T : trailKeys(e)[n] = k})]
      BY <3>1, <3>2, <3>3 DEF Keys
    <3> QED  BY <2>4, <3>2, <3>4 DEF CountKeys, CountAll
  <2>6. s.span = SpanOf(Timed(S))
    BY <2>1, SpanEnd
  <2> QED  BY <2>3, <2>5, <2>6 DEF TrailIsOf, Timed
<1> QED  BY <1>6, <1>7, <1>8, <1>9

-----------------------------------------------------------------------------
(*****************************************************************************)
(* The summary of load balancer connections.                                 *)
(*****************************************************************************)

connTotals == {"Total", "TLS", "HandshakeFailed"}
connCounters == {"ByLB", "ByListener", "ByProtocol", "ByCipher", "ByListenerTLS", "ByKeyExchange", "ByVerify", "ByClientIP",
                 "ByFailedClientIP"}

\* Every connection adds whole numbers to the sums.
LEMMA ConnSumsAre ==
  ASSUME NEW U
  PROVE  Table([e \in U |-> connSums(e)], connTotals, U)
<1>1. ASSUME NEW e PROVE DOMAIN connSums(e) = connTotals /\ \A n \in connTotals : connSums(e)[n] \in Int
  <2>1. PICK a, b : a = One(e.protocol # "") /\ b = One(HandshakeFailed(e))
    OBVIOUS
  <2>2. a \in Int /\ b \in Int
    BY Zenon, <2>1, Ones
  <2>3. connSums(e) = [Total |-> 1, TLS |-> a, HandshakeFailed |-> b]
    BY <2>1, Zenon DEF connSums
  <2> QED  BY <2>2, <2>3 DEF connTotals
<1>2. PICK K : K = [e \in U |-> connSums(e)]
  OBVIOUS
<1>3. DOMAIN K = U /\ \A e \in U : K[e] = connSums(e)
  BY <1>2
<1>4. Table(K, connTotals, U)
  BY <1>1, <1>3 DEF Table
<1> QED  BY <1>2, <1>4

ConnRep(s, S, U) ==
  /\ SumsAre(s.sums, [e \in U |-> connSums(e)], connTotals, S)
  /\ KeysAre(s.by, [e \in U |-> connKeys(e)], connCounters, S)
  /\ SpanIs(s.span, S)
  /\ LatIs(s.Handshake, [e \in U |-> e.handshake], S)

\* NewConnSummary, Add and Merge keep a summary of connections that of its entries.
LEMMA ConnRules ==
  ASSUME NEW U, IsFiniteSet(U), \A e \in U : e.time \in Nat /\ e.time > 0 /\ e.handshake \in Int
  PROVE  /\ ConnRep(NewConnSummary, {}, U)
         /\ \A S \in SUBSET U, e \in U : \A s : ConnRep(s, S, U) /\ e \notin S => ConnRep(connAdd(s, e), S \cup {e}, U)
         /\ \A S, T \in SUBSET U : \A s, t : ConnRep(s, S, U) /\ ConnRep(t, T, U) /\ S \cap T = {}
              => ConnRep(connMerge(s, t), S \cup T, U)
<1>pK. PICK K : K = [e \in U |-> connSums(e)]
  OBVIOUS
<1>pL. PICK L : L = [e \in U |-> connKeys(e)]
  OBVIOUS
<1>pv. PICK v : v = [e \in U |-> e.handshake]
  OBVIOUS
<1>a. /\ \A e \in U : K[e] = connSums(e)
      /\ \A e \in U : L[e] = connKeys(e)
      /\ \A e \in U : v[e] = e.handshake
  BY <1>pK, <1>pL, <1>pv
<1>d0. Table(K, connTotals, U)
  BY <1>pK, <1>pL, <1>pv, ConnSumsAre
<1>d1. DOMAIN L = U
  BY <1>pK, <1>pL, <1>pv DEF Valued
<1>d2. \A e \in U : e.time \in Nat
  BY <1>pK, <1>pL, <1>pv DEF Valued
<1>d3. Valued(v, U)
  BY <1>pK, <1>pL, <1>pv DEF Valued
<1>1. /\ \A e \in U : K[e] = connSums(e)
      /\ \A e \in U : L[e] = connKeys(e)
      /\ \A e \in U : v[e] = e.handshake
      /\ Table(K, connTotals, U)
      /\ DOMAIN L = U
      /\ \A e \in U : e.time \in Nat
      /\ Valued(v, U)
  BY <1>a, <1>d0, <1>d1, <1>d2, <1>d3
<1>2. \A s, S : ConnRep(s, S, U) <=> /\ SumsAre(s.sums, K, connTotals, S)
                                    /\ KeysAre(s.by, L, connCounters, S)
                                    /\ SpanIs(s.span, S)
                                    /\ LatIs(s.Handshake, v, S)
  BY <1>pK, <1>pL, <1>pv, Zenon DEF ConnRep
<1>3. ConnRep(NewConnSummary, {}, U)
  <2>1. SumsAre(NoSums(connTotals), K, connTotals, {})
    BY Zenon, SumsStart
  <2>2. KeysAre(NoKeys(connCounters), L, connCounters, {})
    BY Zenon, KeysStart
  <2>3. SpanIs(NoSpan, {})
    BY Zenon, SpanStart
  <2>4. LatIs(NoLat, v, {})
    BY Zenon, LatStart
  <2>r. PICK n : n = NewConnSummary
    OBVIOUS
  <2>r1. n.sums = NoSums(connTotals)
    BY <2>r DEF NewConnSummary, connTotals, connCounters
  <2>r2. n.by = NoKeys(connCounters)
    BY <2>r DEF NewConnSummary, connTotals, connCounters
  <2>r3. n.span = NoSpan
    BY <2>r DEF NewConnSummary, connTotals, connCounters
  <2>r4. n.Handshake = NoLat
    BY <2>r DEF NewConnSummary, connTotals, connCounters
  <2> QED  BY <1>2, <2>r, <2>1, <2>r1, <2>2, <2>r2, <2>3, <2>r3, <2>4, <2>r4
<1>4. ASSUME NEW S \in SUBSET U, NEW e \in U, NEW s, ConnRep(s, S, U), e \notin S
      PROVE  ConnRep(connAdd(s, e), S \cup {e}, U)
  <2>0. /\ SumsAre(s.sums, K, connTotals, S)
        /\ KeysAre(s.by, L, connCounters, S)
        /\ SpanIs(s.span, S)
        /\ LatIs(s.Handshake, v, S)
    BY <1>2, <1>4
  <2>r. PICK n : n = connAdd(s, e)
    OBVIOUS
  <2>r1. n.sums = plus(s.sums, K[e])
    BY <1>1, <2>r DEF connAdd
  <2>1. SumsAre(plus(s.sums, K[e]), K, connTotals, S \cup {e})
    BY <1>1, <1>4, <2>0, SumsRules
  <2>r2. n.by = addKeys(s.by, L[e])
    BY <1>1, <2>r DEF connAdd
  <2>2. KeysAre(addKeys(s.by, L[e]), L, connCounters, S \cup {e})
    BY <1>1, <1>4, <2>0, KeysRules
  <2>r3. n.span = widen(s.span, At(e.time))
    BY <1>1, <2>r DEF connAdd
  <2>3. SpanIs(widen(s.span, At(e.time)), S \cup {e})
    BY <1>1, <1>4, <2>0, SpanRules
  <2>r4. n.Handshake = addLat(s.Handshake, v[e])
    BY <1>1, <2>r DEF connAdd
  <2>4. LatIs(addLat(s.Handshake, v[e]), v, S \cup {e})
    BY <1>1, <1>4, <2>0, LatRules
  <2> QED  BY <1>2, <2>r, <2>1, <2>r1, <2>2, <2>r2, <2>3, <2>r3, <2>4, <2>r4
<1>5. ASSUME NEW S \in SUBSET U, NEW T \in SUBSET U, NEW s, NEW t, ConnRep(s, S, U), ConnRep(t, T, U), S \cap T = {}
      PROVE  ConnRep(connMerge(s, t), S \cup T, U)
  <2>0. /\ SumsAre(s.sums, K, connTotals, S) /\ SumsAre(t.sums, K, connTotals, T)
        /\ KeysAre(s.by, L, connCounters, S) /\ KeysAre(t.by, L, connCounters, T)
        /\ SpanIs(s.span, S) /\ SpanIs(t.span, T)
        /\ LatIs(s.Handshake, v, S) /\ LatIs(t.Handshake, v, T)
    BY <1>2, <1>5
  <2>r. PICK n : n = connMerge(s, t)
    OBVIOUS
  <2>r1. n.sums = plus(s.sums, t.sums)
    BY <1>1, <2>r DEF connMerge
  <2>1. SumsAre(plus(s.sums, t.sums), K, connTotals, S \cup T)
    BY <1>1, <1>5, <2>0, SumsRules
  <2>r2. n.by = merge(s.by, t.by)
    BY <1>1, <2>r DEF connMerge
  <2>2. KeysAre(merge(s.by, t.by), L, connCounters, S \cup T)
    BY <1>1, <1>5, <2>0, KeysRules
  <2>r3. n.span = widen(s.span, t.span)
    BY <1>1, <2>r DEF connMerge
  <2>3. SpanIs(widen(s.span, t.span), S \cup T)
    BY <1>1, <1>5, <2>0, SpanRules
  <2>r4. n.Handshake = mergeLat(s.Handshake, t.Handshake)
    BY <1>1, <2>r DEF connMerge
  <2>4. LatIs(mergeLat(s.Handshake, t.Handshake), v, S \cup T)
    BY <1>1, <1>5, <2>0, LatRules
  <2> QED  BY <1>2, <2>r, <2>1, <2>r1, <2>2, <2>r2, <2>3, <2>r3, <2>4, <2>r4
<1> QED  BY <1>3, <1>4, <1>5

\* Such a summary of connections is the one the result is to hold.
LEMMA ConnEnd ==
  ASSUME NEW U, IsFiniteSet(U), \A e \in U : e.time \in Nat /\ e.time > 0 /\ e.handshake \in Int,
         NEW S \in SUBSET U, NEW s, ConnRep(s, S, U)
  PROVE  ConnIsOf(s, S)
<1>pK. PICK K : K = [e \in U |-> connSums(e)]
  OBVIOUS
<1>pL. PICK L : L = [e \in U |-> connKeys(e)]
  OBVIOUS
<1>pv. PICK v : v = [e \in U |-> e.handshake]
  OBVIOUS
<1>a. /\ \A e \in U : K[e] = connSums(e)
      /\ \A e \in U : L[e] = connKeys(e)
      /\ \A e \in U : v[e] = e.handshake
  BY <1>pK, <1>pL, <1>pv
<1>d0. Table(K, connTotals, U)
  BY <1>pK, <1>pL, <1>pv, ConnSumsAre
<1>d1. DOMAIN L = U
  BY <1>pK, <1>pL, <1>pv DEF Valued
<1>d2. \A e \in U : e.time \in Nat
  BY <1>pK, <1>pL, <1>pv DEF Valued
<1>d3. Valued(v, U)
  BY <1>pK, <1>pL, <1>pv DEF Valued
<1>1. /\ \A e \in U : K[e] = connSums(e)
      /\ \A e \in U : L[e] = connKeys(e)
      /\ \A e \in U : v[e] = e.handshake
      /\ Table(K, connTotals, U)
      /\ DOMAIN L = U
      /\ \A e \in U : e.time \in Nat
      /\ Valued(v, U)
  BY <1>a, <1>d0, <1>d1, <1>d2, <1>d3
<1>2. ConnRep(s, S, U) <=> /\ SumsAre(s.sums, K, connTotals, S)
                          /\ KeysAre(s.by, L, connCounters, S)
                          /\ SpanIs(s.span, S)
                          /\ LatIs(s.Handshake, v, S)
  BY <1>pK, <1>pL, <1>pv, Zenon DEF ConnRep
<1>3. IsFiniteSet(S) /\ \A e \in S : e \in U
  BY FS_Subset
<1>4. /\ SumsAre(s.sums, K, connTotals, S)
      /\ KeysAre(s.by, L, connCounters, S)
      /\ SpanIs(s.span, S)
      /\ LatIs(s.Handshake, v, S)
  BY <1>2
<1>5. \A n \in connTotals : s.sums[n] = SumOf(S, LAMBDA e : connSums(e)[n])
  <2>0. Table(K, connTotals, U) /\ SumsAre(s.sums, K, connTotals, S) /\ \A e \in S : K[e] = connSums(e)
    BY <1>1, <1>3, <1>4
  <2>1. TotalsAre(s.sums, K, connTotals, S)
    BY <2>0, SumsEnd
  <2>2. \A n : [e \in S |-> K[e][n]] = [e \in S |-> connSums(e)[n]]
    BY <2>0
  <2> QED  BY <2>1, <2>2 DEF SumOf, Total, TotalsAre
<1>6. ASSUME NEW n \in connCounters PROVE s.by[n] = CountKeys(S, LAMBDA e : connKeys(e)[n])
  <2>0. DOMAIN L = U /\ KeysAre(s.by, L, connCounters, S) /\ \A e \in S : L[e] = connKeys(e)
    BY <1>1, <1>3, <1>4
  <2>1. s.by[n] = Keys(L, n, S)
    BY <2>0, KeysEnd
  <2>2. PICK T : T = {x \in S : L[x][n] # ""}
    OBVIOUS
  <2>3. T = {x \in S : connKeys(x)[n] # ""} /\ {L[e][n] : e \in T} = {connKeys(e)[n] : e \in T}
    BY <2>0, <2>2
  <2>4. \A k : {e \in T : L[e][n] = k} = {e \in T : connKeys(e)[n] = k}
    BY <2>0, <2>2
  <2>5. Keys(L, n, S) = [k \in {connKeys(e)[n] : e \in T} |-> Cardinality({e \in T : connKeys(e)[n] = k})]
    BY <2>2, <2>3, <2>4 DEF Keys
  <2> QED  BY <2>1, <2>3, <2>5 DEF CountKeys, CountAll
<1>7. s.span = SpanOf(S)
  <2>1. s.span = SpanOf(Timed(S))
    BY <1>1, <1>3, <1>4, SpanEnd
  <2>2. Timed(S) = S
    BY DEF Timed
  <2> QED  BY <2>1, <2>2
<1>8. s.Handshake = LatOf(S, LAMBDA e : e.handshake)
  <2>1. s.Handshake = Lats(v, S)
    <3>1. LatIs(s.Handshake, v, S) /\ IsFiniteSet(S) /\ Valued(v, U)
      BY <1>1, <1>3, <1>4
    <3>2. \A e \in S : v[e] \in Int
      BY <3>1 DEF Valued
    <3> QED  BY <3>1, <3>2, LatEnd
  <2>2. PICK M : M = {e \in S : v[e] >= 0}
    OBVIOUS
  <2>3. M = {e \in S : e.handshake >= 0} /\ {v[e] : e \in M} = {e.handshake : e \in M} /\ [e \in M |-> v[e]] = [e \in M |-> e.handshake]
    BY <1>1, <1>3, <1>4, <2>2
  <2> QED  BY <2>1, <2>2, <2>3 DEF Lats, LatOf, SumOf
<1>9. DOMAIN s.sums = connTotals /\ DOMAIN s.by = connCounters
  BY <1>4 DEF SumsAre, KeysAre
<1> QED  BY <1>5, <1>6, <1>7, <1>8, <1>9 DEF ConnIsOf

-----------------------------------------------------------------------------
(*****************************************************************************)
(* The summary of load balancer requests: cells, then the whole.             *)
(*****************************************************************************)

\* A cell of the requests S: V says of each what it is counted as.
CellIs(c, V, S) ==
  /\ c.requests = Cardinality(S) /\ c.connErrors = Cardinality(S \cap V.failing)
  /\ c.elb = Counter(V.elb, S \cap V.counted) /\ c.tgt = Counter(V.tgt, S)
  /\ c.targets = Counter(V.target, S \cap V.named)
  /\ LatIs(c.TargetTime, V.targetTime, S) /\ LatIs(c.Latency, V.latency, S)
CellsBy(m, h, X, V, S) == KeyedBy(m, h, X, S) /\ \A k \in DOMAIN m : CellIs(m[k], V, Having(h, k, S))

\* A cell of no requests.
LEMMA CellStart == \A V : CellIs(NoCell, V, {})
<1> SUFFICES ASSUME NEW V PROVE CellIs(NoCell, V, {})
  OBVIOUS
<1>1. /\ NoCell.requests = 0 /\ NoCell.connErrors = 0 /\ NoCell.elb = EmptyBag /\ NoCell.tgt = EmptyBag
      /\ NoCell.targets = EmptyBag /\ NoCell.TargetTime = NoLat /\ NoCell.Latency = NoLat
  BY DEF NoCell
<1>2. {} \cap V.failing = {} /\ {} \cap V.counted = {} /\ {} \cap V.named = {}
  OBVIOUS
<1>3. \A f : Counter(f, {}) = EmptyBag
  BY Zenon, CounterEmpty
<1>4. \A v : LatIs(NoLat, v, {})
  BY Zenon, LatStart
<1>5. Cardinality({}) = 0
  BY FS_EmptySet
<1> QED  BY <1>1, <1>2, <1>3, <1>4, <1>5 DEF CellIs

\* mergeCell: the cells of two sets of entries.
LEMMA CellMerge ==
  ASSUME NEW V, NEW S, NEW T, IsFiniteSet(S), IsFiniteSet(T), S \cap T = {},
         \A x \in S \cup T : V.targetTime[x] \in Int /\ V.latency[x] \in Int,
         NEW c, CellIs(c, V, S), NEW d, CellIs(d, V, T)
  PROVE  CellIs(mergeCell(c, d), V, S \cup T)
<1>1. PICK m : m = mergeCell(c, d)
  OBVIOUS
<1>2. /\ m.requests = c.requests + d.requests /\ m.connErrors = c.connErrors + d.connErrors
      /\ m.elb = c.elb (+) d.elb /\ m.tgt = c.tgt (+) d.tgt /\ m.targets = c.targets (+) d.targets
      /\ m.TargetTime = mergeLat(c.TargetTime, d.TargetTime) /\ m.Latency = mergeLat(c.Latency, d.Latency)
  BY <1>1 DEF mergeCell
<1>3. \A Q : /\ (S \cup T) \cap Q = (S \cap Q) \cup (T \cap Q) /\ (S \cap Q) \cap (T \cap Q) = {}
             /\ S \cap Q \in SUBSET S /\ T \cap Q \in SUBSET T
  OBVIOUS
<1>4. \A Q : IsFiniteSet(S \cap Q) /\ IsFiniteSet(T \cap Q)
  BY <1>3, FS_Subset
<1>5. \A Q : Cardinality((S \cup T) \cap Q) = Cardinality(S \cap Q) + Cardinality(T \cap Q)
  BY <1>3, <1>4, ApartAddUp
<1>6. Cardinality(S \cup T) = Cardinality(S) + Cardinality(T)
  BY ApartAddUp
<1>7. \A f, Q : Counter(f, S \cap Q) (+) Counter(f, T \cap Q) = Counter(f, (S \cup T) \cap Q)
  <2> SUFFICES ASSUME NEW f, NEW Q PROVE Counter(f, S \cap Q) (+) Counter(f, T \cap Q) = Counter(f, (S \cup T) \cap Q)
    OBVIOUS
  <2>1. PICK A, B : A = S \cap Q /\ B = T \cap Q
    OBVIOUS
  <2>2. IsFiniteSet(A) /\ IsFiniteSet(B) /\ A \cap B = {} /\ (S \cup T) \cap Q = A \cup B
    BY <1>3, <1>4, <2>1
  <2> QED  BY <2>1, <2>2, CounterUnion
<1>8. \A f : Counter(f, S) (+) Counter(f, T) = Counter(f, S \cup T)
  BY CounterUnion
<1>9. LatIs(mergeLat(c.TargetTime, d.TargetTime), V.targetTime, S \cup T)
  <2>1. LatIs(c.TargetTime, V.targetTime, S) /\ LatIs(d.TargetTime, V.targetTime, T)
    BY DEF CellIs
  <2> QED  BY <2>1, LatMerge
<1>10. LatIs(mergeLat(c.Latency, d.Latency), V.latency, S \cup T)
  <2>1. LatIs(c.Latency, V.latency, S) /\ LatIs(d.Latency, V.latency, T)
    BY DEF CellIs
  <2> QED  BY <2>1, LatMerge
<1>11. m.requests = Cardinality(S \cup T) /\ m.connErrors = Cardinality((S \cup T) \cap V.failing)
  BY <1>2, <1>5, <1>6 DEF CellIs
<1>12. /\ m.elb = Counter(V.elb, (S \cup T) \cap V.counted) /\ m.tgt = Counter(V.tgt, S \cup T)
       /\ m.targets = Counter(V.target, (S \cup T) \cap V.named)
  <2>1. /\ c.elb = Counter(V.elb, S \cap V.counted) /\ c.tgt = Counter(V.tgt, S) /\ c.targets = Counter(V.target, S \cap V.named)
        /\ d.elb = Counter(V.elb, T \cap V.counted) /\ d.tgt = Counter(V.tgt, T) /\ d.targets = Counter(V.target, T \cap V.named)
    BY Zenon DEF CellIs
  <2>2. m.elb = Counter(V.elb, (S \cup T) \cap V.counted)
    <3>1. PICK f, Q : f = V.elb /\ Q = V.counted
      OBVIOUS
    <3>2. Counter(f, S \cap Q) (+) Counter(f, T \cap Q) = Counter(f, (S \cup T) \cap Q)
      BY <1>7
    <3> QED  BY <1>2, <2>1, <3>1, <3>2
  <2>3. m.tgt = Counter(V.tgt, S \cup T)
    BY Zenon, <1>2, <1>8, <2>1
  <2>4. m.targets = Counter(V.target, (S \cup T) \cap V.named)
    <3>1. PICK f, Q : f = V.target /\ Q = V.named
      OBVIOUS
    <3>2. Counter(f, S \cap Q) (+) Counter(f, T \cap Q) = Counter(f, (S \cup T) \cap Q)
      BY <1>7
    <3> QED  BY <1>2, <2>1, <3>1, <3>2
  <2> QED  BY <2>2, <2>3, <2>4
<1>13. LatIs(m.TargetTime, V.targetTime, S \cup T) /\ LatIs(m.Latency, V.latency, S \cup T)
  BY <1>2, <1>9, <1>10
<1> QED  BY <1>1, <1>11, <1>12, <1>13 DEF CellIs

\* A cell with an entry more is the merge with a cell of that entry alone.
LEMMA CellMore ==
  ASSUME NEW V, NEW S, IsFiniteSet(S), NEW e, e \notin S, \A x \in S \cup {e} : V.targetTime[x] \in Int /\ V.latency[x] \in Int,
         NEW c, CellIs(c, V, S), NEW d, CellIs(d, V, {e})
  PROVE  CellIs(mergeCell(c, d), V, S \cup {e})
<1>1. IsFiniteSet({e}) /\ S \cap {e} = {}
  BY FS_Singleton
<1> QED  BY <1>1, CellMerge

\* Maps of cells are merged key by key.
LEMMA CellsMerge ==
  ASSUME NEW h, NEW X, NEW V, NEW S, NEW T, IsFiniteSet(S), IsFiniteSet(T), S \cap T = {},
         \A x \in S \cup T : V.targetTime[x] \in Int /\ V.latency[x] \in Int,
         NEW m, CellsBy(m, h, X, V, S), NEW o, CellsBy(o, h, X, V, T),
         NEW n, Changed(n, m, DOMAIN o), \A k \in DOMAIN o : n[k] = mergeCell(ValueAt(m, k, NoCell), o[k])
  PROVE  CellsBy(n, h, X, V, S \cup T)
<1>1. KeyedBy(m, h, X, S) /\ KeyedBy(o, h, X, T)
  BY DEF CellsBy
<1>2. /\ KeyedBy(n, h, X, S \cup T)
      /\ \A k \in DOMAIN n :
           /\ Having(h, k, S \cup T) = Having(h, k, S) \cup Having(h, k, T)
           /\ Having(h, k, S) \cap Having(h, k, T) = {}
           /\ k \notin DOMAIN m => Having(h, k, S) = {}
           /\ k \notin DOMAIN o => Having(h, k, T) = {} /\ k \in DOMAIN m /\ n[k] = m[k]
  BY <1>1, HavingFacts
<1>4. \A k : /\ IsFiniteSet(Having(h, k, S)) /\ Having(h, k, S) \subseteq S
            /\ IsFiniteSet(Having(h, k, T)) /\ Having(h, k, T) \subseteq T
  BY HavingFinite
<1>3. ASSUME NEW k \in DOMAIN n PROVE CellIs(n[k], V, Having(h, k, S \cup T))
  <2>1. PICK A, B : A = Having(h, k, S) /\ B = Having(h, k, T)
    OBVIOUS
  <2>2. CASE k \in DOMAIN o
    <3>1. CellIs(o[k], V, B)
      BY <2>1, <2>2 DEF CellsBy
    <3>2. CellIs(ValueAt(m, k, NoCell), V, A)
      <4>1. CASE k \in DOMAIN m
        BY <2>1, <4>1 DEF CellsBy, ValueAt
      <4>2. CASE k \notin DOMAIN m
        <5>1. A = {} /\ ValueAt(m, k, NoCell) = NoCell
          BY <1>2, <2>1, <4>2 DEF ValueAt
        <5> QED  BY <5>1, CellStart
      <4> QED  BY <4>1, <4>2
    <3>3. A \cup B = Having(h, k, S \cup T) /\ A \cap B = {} /\ IsFiniteSet(A) /\ IsFiniteSet(B)
          /\ A \subseteq S /\ B \subseteq T
      BY <1>2, <1>4, <2>1
    <3>4. CellIs(mergeCell(ValueAt(m, k, NoCell), o[k]), V, A \cup B)
      BY <3>1, <3>2, <3>3, CellMerge
    <3> QED  BY <2>2, <3>3, <3>4
  <2>3. CASE k \notin DOMAIN o
    <3>1. k \in DOMAIN m /\ n[k] = m[k] /\ Having(h, k, S \cup T) = Having(h, k, S)
      BY <1>2, <2>3
    <3> QED  BY <3>1 DEF CellsBy
  <2> QED  BY <2>2, <2>3
<1> QED  BY <1>2, <1>3 DEF CellsBy

\* An entry more counts in the cell of its key.
LEMMA CellsAdd ==
  ASSUME NEW h, NEW X, NEW V, NEW S, IsFiniteSet(S), NEW e, e \notin S,
         \A x \in S \cup {e} : V.targetTime[x] \in Int /\ V.latency[x] \in Int,
         NEW d, CellIs(d, V, {e}),
         NEW m, CellsBy(m, h, X, V, S), NEW n, Changed(n, m, {h[e]} \ X),
         \A k \in {h[e]} \ X : n[k] = mergeCell(ValueAt(m, k, NoCell), d)
  PROVE  CellsBy(n, h, X, V, S \cup {e})
<1>1. KeyedBy(m, h, X, S)
  BY DEF CellsBy
<1>2. /\ KeyedBy(n, h, X, S \cup {e})
      /\ \A k \in DOMAIN n :
           /\ k \notin DOMAIN m => Having(h, k, S) = {}
           /\ k = h[e] => Having(h, k, S \cup {e}) = Having(h, k, S) \cup {e} /\ k \in {h[e]} \ X
           /\ k # h[e] => Having(h, k, S \cup {e}) = Having(h, k, S) /\ k \in DOMAIN m /\ n[k] = m[k]
           /\ e \notin Having(h, k, S)
  BY <1>1, HavingMore
<1>3. ASSUME NEW k \in DOMAIN n PROVE CellIs(n[k], V, Having(h, k, S \cup {e}))
  <2>1. PICK A : A = Having(h, k, S)
    OBVIOUS
  <2>2. CASE k = h[e]
    <3>1. CellIs(ValueAt(m, k, NoCell), V, A)
      <4>1. CASE k \in DOMAIN m
        BY <2>1, <4>1 DEF CellsBy, ValueAt
      <4>2. CASE k \notin DOMAIN m
        <5>1. A = {} /\ ValueAt(m, k, NoCell) = NoCell
          BY <1>2, <2>1, <4>2 DEF ValueAt
        <5> QED  BY <5>1, CellStart
      <4> QED  BY <4>1, <4>2
    <3>2. Having(h, k, S \cup {e}) = A \cup {e} /\ e \notin A /\ k \in {h[e]} \ X
      BY <1>2, <2>1, <2>2
    <3>3. IsFiniteSet(A) /\ A \subseteq S
      BY <2>1, HavingFinite
    <3>4. CellIs(mergeCell(ValueAt(m, k, NoCell), d), V, A \cup {e})
      BY <3>1, <3>2, <3>3, CellMore
    <3> QED  BY <3>2, <3>4
  <2>3. CASE k # h[e]
    <3>1. k \in DOMAIN m /\ n[k] = m[k] /\ Having(h, k, S \cup {e}) = Having(h, k, S)
      BY <1>2, <2>3
    <3> QED  BY <3>1 DEF CellsBy
  <2> QED  BY <2>2, <2>3
<1> QED  BY <1>2, <1>3 DEF CellsBy

\* All there is to say of maps of cells.
LEMMA CellsRules ==
  ASSUME NEW U, IsFiniteSet(U), NEW h, NEW X, NEW V, Valued(V.targetTime, U), Valued(V.latency, U),
         NEW one, \A e \in U : CellIs(one[e], V, {e})
  PROVE  /\ CellsBy(<<>>, h, X, V, {})
         /\ \A S \in SUBSET U, e \in U : \A m, n :
              CellsBy(m, h, X, V, S) /\ e \notin S /\ Changed(n, m, {h[e]} \ X)
              /\ (\A k \in {h[e]} \ X : n[k] = mergeCell(ValueAt(m, k, NoCell), one[e]))
                => CellsBy(n, h, X, V, S \cup {e})
         /\ \A S, T \in SUBSET U : \A m, o, n :
              CellsBy(m, h, X, V, S) /\ CellsBy(o, h, X, V, T) /\ S \cap T = {} /\ Changed(n, m, DOMAIN o)
              /\ (\A k \in DOMAIN o : n[k] = mergeCell(ValueAt(m, k, NoCell), o[k]))
                => CellsBy(n, h, X, V, S \cup T)
<1>0. \A S \in SUBSET U : IsFiniteSet(S)
  BY FS_Subset
<1>1. CellsBy(<<>>, h, X, V, {})
  BY DEF CellsBy, KeyedBy, KeySet
<1>2. ASSUME NEW S \in SUBSET U, NEW e \in U, NEW m, NEW n, CellsBy(m, h, X, V, S), e \notin S, Changed(n, m, {h[e]} \ X),
             \A k \in {h[e]} \ X : n[k] = mergeCell(ValueAt(m, k, NoCell), one[e])
      PROVE  CellsBy(n, h, X, V, S \cup {e})
  <2>1. \A x \in S \cup {e} : V.targetTime[x] \in Int /\ V.latency[x] \in Int
    BY DEF Valued
  <2>2. PICK d : d = one[e]
    OBVIOUS
  <2>3. CellIs(d, V, {e}) /\ (\A k \in {h[e]} \ X : n[k] = mergeCell(ValueAt(m, k, NoCell), d)) /\ IsFiniteSet(S)
    BY <1>0, <1>2, <2>2
  <2> QED  BY Zenon, <1>2, <2>1, <2>3, CellsAdd
<1>3. ASSUME NEW S \in SUBSET U, NEW T \in SUBSET U, NEW m, NEW o, NEW n, CellsBy(m, h, X, V, S), CellsBy(o, h, X, V, T), S \cap T = {},
             Changed(n, m, DOMAIN o), \A k \in DOMAIN o : n[k] = mergeCell(ValueAt(m, k, NoCell), o[k])
      PROVE  CellsBy(n, h, X, V, S \cup T)
  <2>1. \A x \in S \cup T : V.targetTime[x] \in Int /\ V.latency[x] \in Int
    BY DEF Valued
  <2> QED  BY Zenon, <1>0, <1>3, <2>1, CellsMerge
<1> QED  BY <1>1, <1>2, <1>3

\* A function is all it has to say.
Fn(m) == m = [k \in DOMAIN m |-> m[k]]

\* So is the empty one.
LEMMA FnEmpty == Fn(<<>>)
BY DEF Fn

\* Nothing has nothing in common with anything.
LEMMA NoneOf == \A P : {} \cap P = {}
OBVIOUS

\* Every request to a load balancer adds whole numbers to the sums.
LEMMA ElbSumsAre ==
  ASSUME NEW U, \A e \in U : e.received \in Int /\ e.sent \in Int
  PROVE  Table([e \in U |-> elbSums(e)], elbTotals, U)
<1>1. ASSUME NEW e \in U PROVE DOMAIN elbSums(e) = elbTotals /\ \A n \in elbTotals : elbSums(e)[n] \in Int
  <2>1. PICK a, b, c : a = One(Digit(e.status) = 4) /\ b = One(Digit(e.status) = 5) /\ c = One(TargetConnError(e))
    OBVIOUS
  <2>2. a \in Int /\ b \in Int /\ c \in Int
    BY Zenon, <2>1, Ones
  <2>3. elbSums(e) = [Total |-> 1, ReceivedBytes |-> e.received, SentBytes |-> e.sent, Errors4xx |-> a, Errors5xx |-> b, TargetConnErrors |-> c]
    BY <2>1, Zenon DEF elbSums
  <2> QED  BY <2>2, <2>3 DEF elbTotals
<1>2. PICK K : K = [e \in U |-> elbSums(e)]
  OBVIOUS
<1>3. DOMAIN K = U /\ \A e \in U : K[e] = elbSums(e)
  BY <1>2
<1>4. Table(K, elbTotals, U)
  BY <1>1, <1>3 DEF Table
<1> QED  BY <1>2, <1>4

\* What the buckets and the groups count of the requests U.
elbBuckets(U) ==
  [failing |-> {e \in U : TargetConnError(e)}, counted |-> U, named |-> {}, elb |-> [e \in U |-> Digit(e.status)],
   tgt |-> [e \in U |-> Digit(e.targetStatus)], target |-> [e \in U |-> e.target],
   targetTime |-> [e \in U |-> e.targetTime], latency |-> [e \in U |-> e.latency]]
elbGroups(U) ==
  [failing |-> {e \in U : TargetConnError(e)}, counted |-> {e \in U : Digit(e.status) = 5}, named |-> {e \in U : e.target # ""},
   elb |-> [e \in U |-> Digit(e.status)],
   tgt |-> [e \in U |-> Digit(e.targetStatus)], target |-> [e \in U |-> e.target],
   targetTime |-> [e \in U |-> e.targetTime], latency |-> [e \in U |-> -1]]

\* The cell of one request.
LEMMA LatOne ==
  ASSUME NEW v, NEW e, v[e] \in Int
  PROVE  LatIs(addLat(NoLat, v[e]), v, {e})
<1>1. {} \cup {e} = {e} /\ e \notin {} /\ IsFiniteSet({}) /\ \A x \in {} \cup {e} : v[x] \in Int
  BY FS_EmptySet
<1>2. LatIs(NoLat, v, {})
  BY LatStart
<1>3. LatIs(addLat(NoLat, v[e]), v, {} \cup {e})
  BY Zenon, <1>1, <1>2, LatAdd
<1> QED  BY <1>1, <1>3

\* One entry, counted where it belongs.
LEMMA OneOf ==
  ASSUME NEW e, NEW P
  PROVE  Cardinality({e}) = 1 /\ Cardinality({e} \cap P) = One(e \in P)
<1>1. Cardinality({e}) = 1 /\ Cardinality({}) = 0
  BY FS_Singleton, FS_EmptySet
<1>2. {e} \cap P = IF e \in P THEN {e} ELSE {}
  OBVIOUS
<1> QED  BY <1>1, <1>2 DEF One

\* The counter of one entry, where it belongs.
LEMMA CounterOne ==
  ASSUME NEW e, NEW P, NEW f
  PROVE  Counter(f, {e} \cap P) = IF e \in P THEN SetToBag({f[e]}) ELSE EmptyBag
<1>1. {e} \cap P = IF e \in P THEN {e} ELSE {}
  OBVIOUS
<1>2. Counter(f, {e}) = SetToBag({f[e]}) /\ Counter(f, {}) = EmptyBag
  BY CounterSingle, CounterEmpty
<1> QED  BY <1>1, <1>2

\* The bucket of one request.
LEMMA BucketIs ==
  ASSUME NEW U, NEW e \in U, e.targetTime \in Int, e.latency \in Int
  PROVE  CellIs(BucketOf(e), elbBuckets(U), {e})
<1>1. PICK V : V = elbBuckets(U)
  OBVIOUS
<1>2. PICK c : c = BucketOf(e)
  OBVIOUS
<1>3. /\ V.failing = {x \in U : TargetConnError(x)} /\ V.counted = U /\ V.named = {}
      /\ V.elb[e] = Digit(e.status) /\ V.tgt[e] = Digit(e.targetStatus)
      /\ V.targetTime[e] = e.targetTime /\ V.latency[e] = e.latency
  BY <1>1 DEF elbBuckets
<1>4. /\ c.requests = 1 /\ c.connErrors = One(TargetConnError(e)) /\ c.elb = SetToBag({Digit(e.status)})
      /\ c.tgt = SetToBag({Digit(e.targetStatus)}) /\ c.targets = EmptyBag
      /\ c.TargetTime = addLat(NoLat, e.targetTime) /\ c.Latency = addLat(NoLat, e.latency)
  BY <1>2, Zenon DEF BucketOf
<1>5. LatIs(c.TargetTime, V.targetTime, {e}) /\ LatIs(c.Latency, V.latency, {e})
  BY <1>3, <1>4, LatOne
<1>6. c.requests = Cardinality({e}) /\ c.connErrors = Cardinality({e} \cap V.failing)
  <2>1. Cardinality({e} \cap V.failing) = One(e \in V.failing) /\ Cardinality({e}) = 1
    BY OneOf
  <2>2. One(e \in V.failing) = One(TargetConnError(e))
    BY <1>3 DEF One
  <2> QED  BY <1>4, <2>1, <2>2
<1>7. c.elb = Counter(V.elb, {e} \cap V.counted) /\ c.tgt = Counter(V.tgt, {e}) /\ c.targets = Counter(V.target, {e} \cap V.named)
  <2>1. e \in V.counted /\ e \notin V.named
    BY <1>3
  <2>2. Counter(V.elb, {e} \cap V.counted) = SetToBag({V.elb[e]})
    BY <2>1, CounterOne
  <2>3. Counter(V.target, {e} \cap V.named) = EmptyBag
    BY <2>1, CounterOne
  <2>4. Counter(V.tgt, {e}) = SetToBag({V.tgt[e]})
    BY CounterSingle
  <2> QED  BY <1>3, <1>4, <2>2, <2>3, <2>4
<1> QED  BY <1>1, <1>2, <1>5, <1>6, <1>7 DEF CellIs

\* The row of one request in the tables by target group and by host.
LEMMA GroupIs ==
  ASSUME NEW U, NEW e \in U, e.targetTime \in Int
  PROVE  CellIs(GroupOf(e), elbGroups(U), {e})
<1>1. PICK V : V = elbGroups(U)
  OBVIOUS
<1>2. PICK c : c = GroupOf(e)
  OBVIOUS
<1>3. /\ V.failing = {x \in U : TargetConnError(x)} /\ V.counted = {x \in U : Digit(x.status) = 5} /\ V.named = {x \in U : x.target # ""}
      /\ V.elb[e] = Digit(e.status) /\ V.tgt[e] = Digit(e.targetStatus) /\ V.target[e] = e.target
      /\ V.targetTime[e] = e.targetTime /\ V.latency[e] = -1
  BY <1>1 DEF elbGroups
<1>4. /\ c.requests = 1 /\ c.connErrors = One(TargetConnError(e)) /\ c.elb = IF Digit(e.status) = 5 THEN SetToBag({Digit(e.status)}) ELSE EmptyBag
      /\ c.tgt = SetToBag({Digit(e.targetStatus)}) /\ c.targets = add(EmptyBag, e.target)
      /\ c.TargetTime = addLat(NoLat, e.targetTime) /\ c.Latency = NoLat
  BY <1>2 DEF GroupOf, BucketOf
<1>0. V.targetTime[e] \in Int /\ c.TargetTime = addLat(NoLat, V.targetTime[e]) /\ ~(V.latency[e] >= 0)
  <2>1. V.targetTime[e] = e.targetTime /\ V.latency[e] = -1
    BY <1>3
  <2> QED  BY <1>4, <2>1
<1>5. LatIs(c.TargetTime, V.targetTime, {e})
  BY <1>0, LatOne
<1>6. LatIs(c.Latency, V.latency, {e})
  <2>1. Measured(V.latency, {e}) = {}
    BY <1>0 DEF Measured
  <2>2. NoLat = [count |-> NoLat.count, sum |-> NoLat.sum, min |-> NoLat.min, max |-> NoLat.max] /\ NoLat.count = 0 /\ NoLat.sum = 0
    BY DEF NoLat
  <2>3. Cardinality({}) = 0 /\ Sum(V.latency, {}) = 0
    BY FS_EmptySet, SumEmpty
  <2> QED  BY <1>4, <2>1, <2>2, <2>3 DEF LatIs
<1>7. c.requests = Cardinality({e}) /\ c.connErrors = Cardinality({e} \cap V.failing)
  <2>1. Cardinality({e} \cap V.failing) = One(e \in V.failing) /\ Cardinality({e}) = 1
    BY OneOf
  <2>2. One(e \in V.failing) = One(TargetConnError(e))
    BY <1>3 DEF One
  <2> QED  BY <1>4, <2>1, <2>2
<1>8. c.elb = Counter(V.elb, {e} \cap V.counted) /\ c.tgt = Counter(V.tgt, {e})
  <2>1. Counter(V.elb, {e} \cap V.counted) = IF e \in V.counted THEN SetToBag({V.elb[e]}) ELSE EmptyBag
    BY CounterOne
  <2>2. Counter(V.tgt, {e}) = SetToBag({V.tgt[e]})
    BY CounterSingle
  <2> QED  BY <1>3, <1>4, <2>1, <2>2
<1>9. c.targets = Counter(V.target, {e} \cap V.named)
  <2>1. CASE e.target = ""
    <3>0. e \notin V.named
      BY <1>3, <2>1
    <3>1. Counter(V.target, {e} \cap V.named) = EmptyBag
      BY <3>0, CounterOne
    <3> QED  BY <1>4, <2>1, <3>1 DEF add
  <2>2. CASE e.target # ""
    <3>1. PICK f : f = V.target
      OBVIOUS
    <3>2. Counter(f, {}) = EmptyBag /\ Counter(f, {e}) = SetToBag({f[e]})
      BY CounterSingle, CounterEmpty
    <3>3. IsFiniteSet({}) /\ e \notin {} /\ {} \cup {e} = {e}
      BY FS_EmptySet
    <3>4. Counter(f, {}) (+) SetToBag({f[e]}) = Counter(f, {} \cup {e})
      BY Zenon, <3>3, CounterMore
    <3>5. {e} \cap V.named = {e}
      BY <1>3, <2>2
    <3> QED  BY <1>3, <1>4, <2>2, <3>1, <3>2, <3>3, <3>4, <3>5 DEF add
  <2> QED  BY <2>1, <2>2
<1> QED  BY <1>1, <1>2, <1>5, <1>6, <1>7, <1>8, <1>9 DEF CellIs

\* Buckets and rows of single requests are cells over the same columns.
LEMMA CellsAre ==
  ASSUME NEW U, \A e \in U : e.targetTime \in Int /\ e.latency \in Int
  PROVE  /\ \A B : B = elbBuckets(U) => Valued(B.targetTime, U) /\ Valued(B.latency, U) /\ \A e \in U : CellIs(BucketOf(e), B, {e})
         /\ \A B : B = elbGroups(U) => Valued(B.targetTime, U) /\ Valued(B.latency, U) /\ \A e \in U : CellIs(GroupOf(e), B, {e})
<1>1. /\ elbBuckets(U).targetTime = [e \in U |-> e.targetTime] /\ elbBuckets(U).latency = [e \in U |-> e.latency]
      /\ elbGroups(U).targetTime = [e \in U |-> e.targetTime] /\ elbGroups(U).latency = [e \in U |-> -1]
  BY DEF elbBuckets, elbGroups
<1>2. \A e \in U : CellIs(BucketOf(e), elbBuckets(U), {e}) /\ CellIs(GroupOf(e), elbGroups(U), {e})
  BY BucketIs, GroupIs
<1>3. PICK x, y : x = [e \in U |-> e.targetTime] /\ y = [e \in U |-> e.latency]
  OBVIOUS
<1>4. PICK z : z = [e \in U |-> -1]
  OBVIOUS
<1>5. Valued(x, U) /\ Valued(y, U) /\ Valued(z, U)
  BY <1>3, <1>4 DEF Valued
<1> QED  BY <1>1, <1>2, <1>3, <1>4, <1>5

ElbRep(s, S, U) ==
  /\ SumsAre(s.sums, [e \in U |-> elbSums(e)], elbTotals, S)
  /\ KeysAre(s.by, [e \in U |-> elbKeys(e)], elbCounters, S)
  /\ SpanIs(s.span, S)
  /\ LatIs(s.Latency, [e \in U |-> e.latency], S)
  /\ LatIs(s.TargetTime, [e \in U |-> e.targetTime], S)
  /\ CellsBy(s.Timeline, [e \in U |-> Minute[e.time]], {}, elbBuckets(U), S) /\ Fn(s.Timeline)
  /\ CellsBy(s.ByTargetGroup, [e \in U |-> e.group], {""}, elbGroups(U), S) /\ Fn(s.ByTargetGroup)
  /\ LatsBy(s.PathTiming, [e \in U |-> NormalizePath(e.path)], {""}, [e \in U |-> e.latency], S \cap {e \in U : e.latency >= 0}) /\ Fn(s.PathTiming)

\* NewELBSummary, Add and Merge keep a summary of requests to load balancers that of its entries.
LEMMA ElbRules ==
  ASSUME NEW U, IsFiniteSet(U), \A e \in U : e.time \in Nat /\ e.time > 0 /\ e.targetTime \in Int /\ e.latency \in Int /\ e.received \in Int /\ e.sent \in Int
  PROVE  /\ ElbRep(NewELBSummary, {}, U)
         /\ \A S \in SUBSET U, e \in U : \A s : ElbRep(s, S, U) /\ e \notin S => ElbRep(elbAdd(s, e), S \cup {e}, U)
         /\ \A S, T \in SUBSET U : \A s, t : ElbRep(s, S, U) /\ ElbRep(t, T, U) /\ S \cap T = {}
              => ElbRep(elbMerge(s, t), S \cup T, U)
<1>pK. PICK K : K = [e \in U |-> elbSums(e)]
  OBVIOUS
<1>pL. PICK L : L = [e \in U |-> elbKeys(e)]
  OBVIOUS
<1>pv. PICK v : v = [e \in U |-> e.latency]
  OBVIOUS
<1>pu. PICK u : u = [e \in U |-> e.targetTime]
  OBVIOUS
<1>ph. PICK h : h = [e \in U |-> Minute[e.time]]
  OBVIOUS
<1>pB. PICK B : B = elbBuckets(U)
  OBVIOUS
<1>pb. PICK b : b = [e \in U |-> BucketOf(e)]
  OBVIOUS
<1>pg. PICK g : g = [e \in U |-> e.group]
  OBVIOUS
<1>pG. PICK G : G = elbGroups(U)
  OBVIOUS
<1>pc. PICK c : c = [e \in U |-> GroupOf(e)]
  OBVIOUS
<1>pp. PICK p : p = [e \in U |-> NormalizePath(e.path)]
  OBVIOUS
<1>pP. PICK P : P = {e \in U : e.latency >= 0}
  OBVIOUS
<1>a. /\ \A e \in U : K[e] = elbSums(e)
      /\ \A e \in U : L[e] = elbKeys(e)
      /\ \A e \in U : v[e] = e.latency
      /\ \A e \in U : u[e] = e.targetTime
      /\ \A e \in U : h[e] = Minute[e.time]
      /\ B = elbBuckets(U)
      /\ \A e \in U : b[e] = BucketOf(e)
      /\ \A e \in U : g[e] = e.group
      /\ G = elbGroups(U)
      /\ \A e \in U : c[e] = GroupOf(e)
      /\ \A e \in U : p[e] = NormalizePath(e.path)
      /\ \A e \in U : e \in P <=> e.latency >= 0
  BY <1>pK, <1>pL, <1>pv, <1>pu, <1>ph, <1>pB, <1>pb, <1>pg, <1>pG, <1>pc, <1>pp, <1>pP
<1>d0. Table(K, elbTotals, U)
  BY <1>pK, <1>pL, <1>pv, <1>pu, <1>ph, <1>pB, <1>pb, <1>pg, <1>pG, <1>pc, <1>pp, <1>pP, ElbSumsAre
<1>d1. DOMAIN L = U
  BY <1>pK, <1>pL, <1>pv, <1>pu, <1>ph, <1>pB, <1>pb, <1>pg, <1>pG, <1>pc, <1>pp, <1>pP DEF Valued
<1>d2. \A e \in U : e.time \in Nat
  BY <1>pK, <1>pL, <1>pv, <1>pu, <1>ph, <1>pB, <1>pb, <1>pg, <1>pG, <1>pc, <1>pp, <1>pP DEF Valued
<1>d3. Valued(v, U)
  BY <1>pK, <1>pL, <1>pv, <1>pu, <1>ph, <1>pB, <1>pb, <1>pg, <1>pG, <1>pc, <1>pp, <1>pP DEF Valued
<1>d4. Valued(u, U)
  BY <1>pK, <1>pL, <1>pv, <1>pu, <1>ph, <1>pB, <1>pb, <1>pg, <1>pG, <1>pc, <1>pp, <1>pP DEF Valued
<1>d5. Valued(B.targetTime, U) /\ Valued(B.latency, U) /\ \A e \in U : CellIs(b[e], B, {e})
  BY <1>pK, <1>pL, <1>pv, <1>pu, <1>ph, <1>pB, <1>pb, <1>pg, <1>pG, <1>pc, <1>pp, <1>pP, CellsAre
<1>d6. Valued(G.targetTime, U) /\ Valued(G.latency, U) /\ \A e \in U : CellIs(c[e], G, {e})
  BY <1>pK, <1>pL, <1>pv, <1>pu, <1>ph, <1>pB, <1>pb, <1>pg, <1>pG, <1>pc, <1>pp, <1>pP, CellsAre
<1>d7. P \in SUBSET U /\ Valued(v, U)
  BY <1>pK, <1>pL, <1>pv, <1>pu, <1>ph, <1>pB, <1>pb, <1>pg, <1>pG, <1>pc, <1>pp, <1>pP DEF Valued
<1>1. /\ \A e \in U : K[e] = elbSums(e)
      /\ \A e \in U : L[e] = elbKeys(e)
      /\ \A e \in U : v[e] = e.latency
      /\ \A e \in U : u[e] = e.targetTime
      /\ \A e \in U : h[e] = Minute[e.time]
      /\ B = elbBuckets(U)
      /\ \A e \in U : b[e] = BucketOf(e)
      /\ \A e \in U : g[e] = e.group
      /\ G = elbGroups(U)
      /\ \A e \in U : c[e] = GroupOf(e)
      /\ \A e \in U : p[e] = NormalizePath(e.path)
      /\ \A e \in U : e \in P <=> e.latency >= 0
      /\ Table(K, elbTotals, U)
      /\ DOMAIN L = U
      /\ \A e \in U : e.time \in Nat
      /\ Valued(v, U)
      /\ Valued(u, U)
      /\ Valued(B.targetTime, U) /\ Valued(B.latency, U) /\ \A e \in U : CellIs(b[e], B, {e})
      /\ Valued(G.targetTime, U) /\ Valued(G.latency, U) /\ \A e \in U : CellIs(c[e], G, {e})
      /\ P \in SUBSET U /\ Valued(v, U)
  BY <1>a, <1>d0, <1>d1, <1>d2, <1>d3, <1>d4, <1>d5, <1>d6, <1>d7
<1>2. \A s, S : ElbRep(s, S, U) <=> /\ SumsAre(s.sums, K, elbTotals, S)
                                   /\ KeysAre(s.by, L, elbCounters, S)
                                   /\ SpanIs(s.span, S)
                                   /\ LatIs(s.Latency, v, S)
                                   /\ LatIs(s.TargetTime, u, S)
                                   /\ CellsBy(s.Timeline, h, {}, B, S) /\ Fn(s.Timeline)
                                   /\ CellsBy(s.ByTargetGroup, g, {""}, G, S) /\ Fn(s.ByTargetGroup)
                                   /\ LatsBy(s.PathTiming, p, {""}, v, S \cap P) /\ Fn(s.PathTiming)
  BY <1>pK, <1>pL, <1>pv, <1>pu, <1>ph, <1>pB, <1>pb, <1>pg, <1>pG, <1>pc, <1>pp, <1>pP, Zenon DEF ElbRep
<1>3. ElbRep(NewELBSummary, {}, U)
  <2>1. SumsAre(NoSums(elbTotals), K, elbTotals, {})
    BY Zenon, SumsStart
  <2>2. KeysAre(NoKeys(elbCounters), L, elbCounters, {})
    BY Zenon, KeysStart
  <2>3. SpanIs(NoSpan, {})
    BY Zenon, SpanStart
  <2>4. LatIs(NoLat, v, {})
    BY Zenon, LatStart
  <2>5. LatIs(NoLat, u, {})
    BY Zenon, LatStart
  <2>6. CellsBy(<<>>, h, {}, B, {}) /\ Fn(<<>>)
    <3>1. CellsBy(<<>>, h, {}, B, {})
      BY CellsRules, <1>1
    <3> QED  BY <3>1, FnEmpty
  <2>7. CellsBy(<<>>, g, {""}, G, {}) /\ Fn(<<>>)
    <3>1. CellsBy(<<>>, g, {""}, G, {})
      BY CellsRules, <1>1
    <3> QED  BY <3>1, FnEmpty
  <2>8. LatsBy(<<>>, p, {""}, v, {} \cap P) /\ Fn(<<>>)
    <3>1. LatsBy(<<>>, p, {""}, v, {})
      BY LatMapsRules, <1>1
    <3> QED  BY <3>1, FnEmpty, NoneOf
  <2>r. PICK n : n = NewELBSummary
    OBVIOUS
  <2>r1. n.sums = NoSums(elbTotals)
    BY <2>r DEF NewELBSummary
  <2>r2. n.by = NoKeys(elbCounters)
    BY <2>r DEF NewELBSummary
  <2>r3. n.span = NoSpan
    BY <2>r DEF NewELBSummary
  <2>r4. n.Latency = NoLat
    BY <2>r DEF NewELBSummary
  <2>r5. n.TargetTime = NoLat
    BY <2>r DEF NewELBSummary
  <2>r6. n.Timeline = <<>>
    BY <2>r DEF NewELBSummary
  <2>r7. n.ByTargetGroup = <<>>
    BY <2>r DEF NewELBSummary
  <2>r8. n.PathTiming = <<>>
    BY <2>r DEF NewELBSummary
  <2> QED  BY <1>2, <2>r, <2>1, <2>r1, <2>2, <2>r2, <2>3, <2>r3, <2>4, <2>r4, <2>5, <2>r5, <2>6, <2>r6, <2>7, <2>r7, <2>8, <2>r8
<1>4. ASSUME NEW S \in SUBSET U, NEW e \in U, NEW s, ElbRep(s, S, U), e \notin S
      PROVE  ElbRep(elbAdd(s, e), S \cup {e}, U)
  <2>0. /\ SumsAre(s.sums, K, elbTotals, S)
        /\ KeysAre(s.by, L, elbCounters, S)
        /\ SpanIs(s.span, S)
        /\ LatIs(s.Latency, v, S)
        /\ LatIs(s.TargetTime, u, S)
        /\ CellsBy(s.Timeline, h, {}, B, S) /\ Fn(s.Timeline)
        /\ CellsBy(s.ByTargetGroup, g, {""}, G, S) /\ Fn(s.ByTargetGroup)
        /\ LatsBy(s.PathTiming, p, {""}, v, S \cap P) /\ Fn(s.PathTiming)
    BY <1>2, <1>4
  <2>r. PICK n : n = elbAdd(s, e)
    OBVIOUS
  <2>r1. n.sums = plus(s.sums, K[e])
    BY <1>1, <2>r DEF elbAdd, addHealth
  <2>1. SumsAre(plus(s.sums, K[e]), K, elbTotals, S \cup {e})
    BY <1>1, <1>4, <2>0, SumsRules
  <2>r2. n.by = addKeys(s.by, L[e])
    BY <1>1, <2>r DEF elbAdd, addHealth
  <2>2. KeysAre(addKeys(s.by, L[e]), L, elbCounters, S \cup {e})
    BY <1>1, <1>4, <2>0, KeysRules
  <2>r3. n.span = widen(s.span, At(e.time))
    BY <1>1, <2>r DEF elbAdd, addHealth
  <2>3. SpanIs(widen(s.span, At(e.time)), S \cup {e})
    BY <1>1, <1>4, <2>0, SpanRules
  <2>r4. n.Latency = addLat(s.Latency, v[e])
    BY <1>1, <2>r DEF elbAdd, addHealth
  <2>4. LatIs(addLat(s.Latency, v[e]), v, S \cup {e})
    BY <1>1, <1>4, <2>0, LatRules
  <2>r5. n.TargetTime = addLat(s.TargetTime, u[e])
    BY <1>1, <2>r DEF elbAdd, addHealth
  <2>5. LatIs(addLat(s.TargetTime, u[e]), u, S \cup {e})
    BY <1>1, <1>4, <2>0, LatRules
  <2>r6. PICK N : N = {h[e]} \ {}
    OBVIOUS
  <2>s6. Changed(n.Timeline, s.Timeline, N) /\ Fn(n.Timeline) /\ \A k \in N : n.Timeline[k] = mergeCell(ValueAt(s.Timeline, k, NoCell), b[e])
    <3>0. N = {Minute[e.time]} /\ b[e] = BucketOf(e)
      BY <1>1, <2>r6
    <3>1. n.Timeline = [k \in DOMAIN s.Timeline \cup ({Minute[e.time]}) |-> IF k \in {Minute[e.time]} THEN mergeCell(ValueAt(s.Timeline, k, NoCell), BucketOf(e)) ELSE s.Timeline[k]]
      BY <2>r DEF elbAdd, addHealth, into
    <3>2. n.Timeline = [k \in DOMAIN s.Timeline \cup N |-> IF k \in N THEN mergeCell(ValueAt(s.Timeline, k, NoCell), b[e]) ELSE s.Timeline[k]]
      BY <3>0, <3>1
    <3> QED  BY <3>2 DEF Changed, Fn
  <2>6. CellsBy(n.Timeline, h, {}, B, S \cup {e}) /\ Fn(n.Timeline)
    <3>0. CellsBy(s.Timeline, h, {}, B, S) /\ Fn(s.Timeline) /\ Valued(B.targetTime, U) /\ Valued(B.latency, U) /\ \A x \in U : CellIs(b[x], B, {x})
      BY <1>1, <2>0
    <3>1. Changed(n.Timeline, s.Timeline, {h[e]} \ {}) /\ \A k \in {h[e]} \ {} : n.Timeline[k] = mergeCell(ValueAt(s.Timeline, k, NoCell), b[e])
      BY <2>r6, <2>s6
    <3> QED  BY <1>4, <2>s6, <3>0, <3>1, CellsRules
  <2>r7. PICK N2 : N2 = {g[e]} \ {""}
    OBVIOUS
  <2>s7. Changed(n.ByTargetGroup, s.ByTargetGroup, N2) /\ Fn(n.ByTargetGroup) /\ \A k \in N2 : n.ByTargetGroup[k] = mergeCell(ValueAt(s.ByTargetGroup, k, NoCell), c[e])
    <3>0. N2 = {e.group} \ {""} /\ c[e] = GroupOf(e)
      BY <1>1, <2>r7
    <3>1. n.ByTargetGroup = [k \in DOMAIN s.ByTargetGroup \cup ({e.group} \ {""}) |-> IF k \in {e.group} \ {""} THEN mergeCell(ValueAt(s.ByTargetGroup, k, NoCell), GroupOf(e)) ELSE s.ByTargetGroup[k]]
      BY <2>r DEF elbAdd, addHealth, into
    <3>2. n.ByTargetGroup = [k \in DOMAIN s.ByTargetGroup \cup N2 |-> IF k \in N2 THEN mergeCell(ValueAt(s.ByTargetGroup, k, NoCell), c[e]) ELSE s.ByTargetGroup[k]]
      BY <3>0, <3>1
    <3> QED  BY <3>2 DEF Changed, Fn
  <2>7. CellsBy(n.ByTargetGroup, g, {""}, G, S \cup {e}) /\ Fn(n.ByTargetGroup)
    <3>0. CellsBy(s.ByTargetGroup, g, {""}, G, S) /\ Fn(s.ByTargetGroup) /\ Valued(G.targetTime, U) /\ Valued(G.latency, U) /\ \A x \in U : CellIs(c[x], G, {x})
      BY <1>1, <2>0
    <3>1. Changed(n.ByTargetGroup, s.ByTargetGroup, {g[e]} \ {""}) /\ \A k \in {g[e]} \ {""} : n.ByTargetGroup[k] = mergeCell(ValueAt(s.ByTargetGroup, k, NoCell), c[e])
      BY <2>r7, <2>s7
    <3> QED  BY <1>4, <2>s7, <3>0, <3>1, CellsRules
  <2>r8. PICK N3 : N3 = IF e \in P THEN {p[e]} \ {""} ELSE {}
    OBVIOUS
  <2>s8. Changed(n.PathTiming, s.PathTiming, N3) /\ Fn(n.PathTiming) /\ \A k \in N3 : n.PathTiming[k] = addLat(ValueAt(s.PathTiming, k, NoLat), v[e])
    <3>0. N3 = (IF e.latency >= 0 THEN {NormalizePath(e.path)} \ {""} ELSE {}) /\ v[e] = e.latency
      BY <1>1, <2>r8
    <3>1. n.PathTiming = [k \in DOMAIN s.PathTiming \cup ((IF e.latency >= 0 THEN {NormalizePath(e.path)} \ {""} ELSE {})) |-> IF k \in (IF e.latency >= 0 THEN {NormalizePath(e.path)} \ {""} ELSE {}) THEN addLat(ValueAt(s.PathTiming, k, NoLat), e.latency) ELSE s.PathTiming[k]]
      BY <2>r DEF elbAdd, addHealth, into
    <3>2. n.PathTiming = [k \in DOMAIN s.PathTiming \cup N3 |-> IF k \in N3 THEN addLat(ValueAt(s.PathTiming, k, NoLat), v[e]) ELSE s.PathTiming[k]]
      BY <3>0, <3>1
    <3> QED  BY <3>2 DEF Changed, Fn
  <2>8. LatsBy(n.PathTiming, p, {""}, v, (S \cup {e}) \cap P) /\ Fn(n.PathTiming)
    <3>1. CASE e \in P
      <4>1. (S \cup {e}) \cap P = (S \cap P) \cup {e} /\ e \notin S \cap P /\ S \cap P \in SUBSET U
        BY <1>4, <3>1
      <4>2. PICK A : A = S \cap P
        OBVIOUS
      <4>0. LatsBy(s.PathTiming, p, {""}, v, A) /\ P \in SUBSET U /\ Valued(v, U)
        BY <1>1, <2>0, <4>2
      <4>5. Changed(n.PathTiming, s.PathTiming, {p[e]} \ {""}) /\ \A k \in {p[e]} \ {""} : n.PathTiming[k] = addLat(ValueAt(s.PathTiming, k, NoLat), v[e])
        BY <2>r8, <2>s8, <3>1
      <4>6. A \in SUBSET U /\ e \notin A
        BY <4>1, <4>2
      <4>3. LatsBy(n.PathTiming, p, {""}, v, A \cup {e})
        BY <4>0, <4>5, <4>6, LatMapsRules
      <4> QED  BY <2>s8, <4>1, <4>2, <4>3
    <3>2. CASE e \notin P
      <4>1. (S \cup {e}) \cap P = S \cap P
        BY <3>2
      <4>2. N3 = {}
        BY <2>r8, <3>2
      <4> QED  BY <2>0, <2>s8, <4>1, <4>2 DEF LatsBy, KeyedBy, Changed
    <3> QED  BY <3>1, <3>2
  <2> QED  BY <1>2, <2>r, <2>1, <2>r1, <2>2, <2>r2, <2>3, <2>r3, <2>4, <2>r4, <2>5, <2>r5, <2>6, <2>r6, <2>7, <2>r7, <2>8, <2>r8
<1>5. ASSUME NEW S \in SUBSET U, NEW T \in SUBSET U, NEW s, NEW t, ElbRep(s, S, U), ElbRep(t, T, U), S \cap T = {}
      PROVE  ElbRep(elbMerge(s, t), S \cup T, U)
  <2>0. /\ SumsAre(s.sums, K, elbTotals, S) /\ SumsAre(t.sums, K, elbTotals, T)
        /\ KeysAre(s.by, L, elbCounters, S) /\ KeysAre(t.by, L, elbCounters, T)
        /\ SpanIs(s.span, S) /\ SpanIs(t.span, T)
        /\ LatIs(s.Latency, v, S) /\ LatIs(t.Latency, v, T)
        /\ LatIs(s.TargetTime, u, S) /\ LatIs(t.TargetTime, u, T)
        /\ CellsBy(s.Timeline, h, {}, B, S) /\ Fn(s.Timeline) /\ CellsBy(t.Timeline, h, {}, B, T) /\ Fn(t.Timeline)
        /\ CellsBy(s.ByTargetGroup, g, {""}, G, S) /\ Fn(s.ByTargetGroup) /\ CellsBy(t.ByTargetGroup, g, {""}, G, T) /\ Fn(t.ByTargetGroup)
        /\ LatsBy(s.PathTiming, p, {""}, v, S \cap P) /\ Fn(s.PathTiming) /\ LatsBy(t.PathTiming, p, {""}, v, T \cap P) /\ Fn(t.PathTiming)
    BY <1>2, <1>5
  <2>r. PICK n : n = elbMerge(s, t)
    OBVIOUS
  <2>r1. n.sums = plus(s.sums, t.sums)
    BY <1>1, <2>r DEF elbMerge, mergeHealth
  <2>1. SumsAre(plus(s.sums, t.sums), K, elbTotals, S \cup T)
    BY <1>1, <1>5, <2>0, SumsRules
  <2>r2. n.by = merge(s.by, t.by)
    BY <1>1, <2>r DEF elbMerge, mergeHealth
  <2>2. KeysAre(merge(s.by, t.by), L, elbCounters, S \cup T)
    BY <1>1, <1>5, <2>0, KeysRules
  <2>r3. n.span = widen(s.span, t.span)
    BY <1>1, <2>r DEF elbMerge, mergeHealth
  <2>3. SpanIs(widen(s.span, t.span), S \cup T)
    BY <1>1, <1>5, <2>0, SpanRules
  <2>r4. n.Latency = mergeLat(s.Latency, t.Latency)
    BY <1>1, <2>r DEF elbMerge, mergeHealth
  <2>4. LatIs(mergeLat(s.Latency, t.Latency), v, S \cup T)
    BY <1>1, <1>5, <2>0, LatRules
  <2>r5. n.TargetTime = mergeLat(s.TargetTime, t.TargetTime)
    BY <1>1, <2>r DEF elbMerge, mergeHealth
  <2>5. LatIs(mergeLat(s.TargetTime, t.TargetTime), u, S \cup T)
    BY <1>1, <1>5, <2>0, LatRules
  <2>r6. Changed(n.Timeline, s.Timeline, DOMAIN t.Timeline) /\ Fn(n.Timeline) /\ \A k \in DOMAIN t.Timeline : n.Timeline[k] = mergeCell(ValueAt(s.Timeline, k, NoCell), t.Timeline[k])
    <3>1. n.Timeline = into(s.Timeline, DOMAIN t.Timeline, LAMBDA x, y : mergeCell(x, t.Timeline[y]), NoCell)
      BY <2>r DEF elbMerge, mergeHealth, mergeMaps
    <3> QED  BY <3>1 DEF into, Changed, Fn
  <2>6. CellsBy(n.Timeline, h, {}, B, S \cup T) /\ Fn(n.Timeline)
    <3>0. CellsBy(s.Timeline, h, {}, B, S) /\ Fn(s.Timeline) /\ CellsBy(t.Timeline, h, {}, B, T) /\ Fn(t.Timeline) /\ Valued(B.targetTime, U) /\ Valued(B.latency, U) /\ \A x \in U : CellIs(b[x], B, {x})
      BY <1>1, <2>0
    <3> QED  BY <1>5, <2>r6, <3>0, CellsRules
  <2>r7. Changed(n.ByTargetGroup, s.ByTargetGroup, DOMAIN t.ByTargetGroup) /\ Fn(n.ByTargetGroup) /\ \A k \in DOMAIN t.ByTargetGroup : n.ByTargetGroup[k] = mergeCell(ValueAt(s.ByTargetGroup, k, NoCell), t.ByTargetGroup[k])
    <3>1. n.ByTargetGroup = into(s.ByTargetGroup, DOMAIN t.ByTargetGroup, LAMBDA x, y : mergeCell(x, t.ByTargetGroup[y]), NoCell)
      BY <2>r DEF elbMerge, mergeHealth, mergeMaps
    <3> QED  BY <3>1 DEF into, Changed, Fn
  <2>7. CellsBy(n.ByTargetGroup, g, {""}, G, S \cup T) /\ Fn(n.ByTargetGroup)
    <3>0. CellsBy(s.ByTargetGroup, g, {""}, G, S) /\ Fn(s.ByTargetGroup) /\ CellsBy(t.ByTargetGroup, g, {""}, G, T) /\ Fn(t.ByTargetGroup) /\ Valued(G.targetTime, U) /\ Valued(G.latency, U) /\ \A x \in U : CellIs(c[x], G, {x})
      BY <1>1, <2>0
    <3> QED  BY <1>5, <2>r7, <3>0, CellsRules
  <2>r8. Changed(n.PathTiming, s.PathTiming, DOMAIN t.PathTiming) /\ Fn(n.PathTiming) /\ \A k \in DOMAIN t.PathTiming : n.PathTiming[k] = mergeLat(ValueAt(s.PathTiming, k, NoLat), t.PathTiming[k])
    <3>1. n.PathTiming = into(s.PathTiming, DOMAIN t.PathTiming, LAMBDA x, y : mergeLat(x, t.PathTiming[y]), NoLat)
      BY <2>r DEF elbMerge, mergeHealth, mergeMaps
    <3> QED  BY <3>1 DEF into, Changed, Fn
  <2>8. LatsBy(n.PathTiming, p, {""}, v, (S \cup T) \cap P) /\ Fn(n.PathTiming)
    <3>1. PICK A, C : A = S \cap P /\ C = T \cap P
      OBVIOUS
    <3>2. A \in SUBSET U /\ C \in SUBSET U /\ A \cap C = {} /\ (S \cup T) \cap P = A \cup C
      BY <1>5, <3>1
    <3>0. LatsBy(s.PathTiming, p, {""}, v, A) /\ LatsBy(t.PathTiming, p, {""}, v, C) /\ P \in SUBSET U /\ Valued(v, U)
      BY <1>1, <2>0, <3>1
    <3>3. LatsBy(n.PathTiming, p, {""}, v, A \cup C)
      BY <2>r8, <3>0, <3>2, LatMapsRules
    <3> QED  BY <2>r8, <3>2, <3>3
  <2> QED  BY <1>2, <2>r, <2>1, <2>r1, <2>2, <2>r2, <2>3, <2>r3, <2>4, <2>r4, <2>5, <2>r5, <2>6, <2>r6, <2>7, <2>r7, <2>8, <2>r8
<1> QED  BY <1>3, <1>4, <1>5

\* A counter, and a latency, are what the definitions say.
LEMMA CounterCounts ==
  ASSUME NEW f, NEW S, NEW g, \A e \in S : f[e] = g[e]
  PROVE  Counter(f, S) = [k \in {g[e] : e \in S} |-> Cardinality({e \in S : g[e] = k})]
<1>1. {f[e] : e \in S} = {g[e] : e \in S} /\ \A k : {e \in S : f[e] = k} = {e \in S : g[e] = k}
  OBVIOUS
<1> QED  BY <1>1 DEF Counter

\* What a cell of the entries T shows is what the definition counts among them.
LEMMA CellShows ==
  ASSUME NEW T, IsFiniteSet(T), NEW V, NEW c, CellIs(c, V, T), \A e \in T : e.targetTime \in Int,
         \A e \in T : /\ e \in V.failing <=> TargetConnError(e)
                      /\ V.tgt[e] = Digit(e.targetStatus) /\ V.targetTime[e] = e.targetTime
  PROVE  \A n \in DOMAIN CellOf(T) : c[n] = CellOf(T)[n]
<1>1. c.requests = Cardinality(T) /\ c.connErrors = Cardinality({e \in T : TargetConnError(e)})
  <2>1. T \cap V.failing = {e \in T : TargetConnError(e)}
    OBVIOUS
  <2> QED  BY <2>1 DEF CellIs
<1>2. c.tgt = CountAll(T, LAMBDA e : Digit(e.targetStatus))
  <2>1. PICK f : f = V.tgt
    OBVIOUS
  <2>2. {f[e] : e \in T} = {Digit(e.targetStatus) : e \in T} /\ \A k : {e \in T : f[e] = k} = {e \in T : Digit(e.targetStatus) = k}
    BY <2>1
  <2>3. c.tgt = Counter(f, T)
    BY <2>1 DEF CellIs
  <2> QED  BY ZenonT(60), <2>2, <2>3 DEF Counter, CountAll
<1>3. c.TargetTime = LatOf(T, LAMBDA e : e.targetTime)
  <2>1. PICK v : v = V.targetTime
    OBVIOUS
  <2>2. \A e \in T : v[e] = e.targetTime /\ v[e] \in Int
    BY <2>1
  <2>3. LatIs(c.TargetTime, v, T)
    BY <2>1 DEF CellIs
  <2>4. c.TargetTime = Lats(v, T)
    BY <2>2, <2>3, LatEnd
  <2>5. PICK M : M = {e \in T : v[e] >= 0}
    OBVIOUS
  <2>6. M = {e \in T : e.targetTime >= 0} /\ {v[e] : e \in M} = {e.targetTime : e \in M} /\ [e \in M |-> v[e]] = [e \in M |-> e.targetTime]
    BY <2>2, <2>5
  <2> QED  BY <2>4, <2>5, <2>6 DEF Lats, LatOf, SumOf
<1> QED  BY <1>1, <1>2, <1>3 DEF CellOf

\* Such a summary of requests is the one the result is to hold.
LEMMA ElbEnd ==
  ASSUME NEW U, IsFiniteSet(U), \A e \in U : e.time \in Nat /\ e.time > 0 /\ e.targetTime \in Int /\ e.latency \in Int /\ e.received \in Int /\ e.sent \in Int,
         NEW S \in SUBSET U, NEW s, ElbRep(s, S, U)
  PROVE  ElbIsOf(s, S)
<1>pK. PICK K : K = [e \in U |-> elbSums(e)]
  OBVIOUS
<1>pL. PICK L : L = [e \in U |-> elbKeys(e)]
  OBVIOUS
<1>pv. PICK v : v = [e \in U |-> e.latency]
  OBVIOUS
<1>pu. PICK u : u = [e \in U |-> e.targetTime]
  OBVIOUS
<1>ph. PICK h : h = [e \in U |-> Minute[e.time]]
  OBVIOUS
<1>pB. PICK B : B = elbBuckets(U)
  OBVIOUS
<1>pb. PICK b : b = [e \in U |-> BucketOf(e)]
  OBVIOUS
<1>pg. PICK g : g = [e \in U |-> e.group]
  OBVIOUS
<1>pG. PICK G : G = elbGroups(U)
  OBVIOUS
<1>pc. PICK c : c = [e \in U |-> GroupOf(e)]
  OBVIOUS
<1>pp. PICK p : p = [e \in U |-> NormalizePath(e.path)]
  OBVIOUS
<1>pP. PICK P : P = {e \in U : e.latency >= 0}
  OBVIOUS
<1>a. /\ \A e \in U : K[e] = elbSums(e)
      /\ \A e \in U : L[e] = elbKeys(e)
      /\ \A e \in U : v[e] = e.latency
      /\ \A e \in U : u[e] = e.targetTime
      /\ \A e \in U : h[e] = Minute[e.time]
      /\ B = elbBuckets(U)
      /\ \A e \in U : b[e] = BucketOf(e)
      /\ \A e \in U : g[e] = e.group
      /\ G = elbGroups(U)
      /\ \A e \in U : c[e] = GroupOf(e)
      /\ \A e \in U : p[e] = NormalizePath(e.path)
      /\ \A e \in U : e \in P <=> e.latency >= 0
  BY <1>pK, <1>pL, <1>pv, <1>pu, <1>ph, <1>pB, <1>pb, <1>pg, <1>pG, <1>pc, <1>pp, <1>pP
<1>d0. Table(K, elbTotals, U)
  BY <1>pK, <1>pL, <1>pv, <1>pu, <1>ph, <1>pB, <1>pb, <1>pg, <1>pG, <1>pc, <1>pp, <1>pP, ElbSumsAre
<1>d1. DOMAIN L = U
  BY <1>pK, <1>pL, <1>pv, <1>pu, <1>ph, <1>pB, <1>pb, <1>pg, <1>pG, <1>pc, <1>pp, <1>pP DEF Valued
<1>d2. \A e \in U : e.time \in Nat
  BY <1>pK, <1>pL, <1>pv, <1>pu, <1>ph, <1>pB, <1>pb, <1>pg, <1>pG, <1>pc, <1>pp, <1>pP DEF Valued
<1>d3. Valued(v, U)
  BY <1>pK, <1>pL, <1>pv, <1>pu, <1>ph, <1>pB, <1>pb, <1>pg, <1>pG, <1>pc, <1>pp, <1>pP DEF Valued
<1>d4. Valued(u, U)
  BY <1>pK, <1>pL, <1>pv, <1>pu, <1>ph, <1>pB, <1>pb, <1>pg, <1>pG, <1>pc, <1>pp, <1>pP DEF Valued
<1>d5. Valued(B.targetTime, U) /\ Valued(B.latency, U) /\ \A e \in U : CellIs(b[e], B, {e})
  BY <1>pK, <1>pL, <1>pv, <1>pu, <1>ph, <1>pB, <1>pb, <1>pg, <1>pG, <1>pc, <1>pp, <1>pP, CellsAre
<1>d6. Valued(G.targetTime, U) /\ Valued(G.latency, U) /\ \A e \in U : CellIs(c[e], G, {e})
  BY <1>pK, <1>pL, <1>pv, <1>pu, <1>ph, <1>pB, <1>pb, <1>pg, <1>pG, <1>pc, <1>pp, <1>pP, CellsAre
<1>d7. P \in SUBSET U /\ Valued(v, U)
  BY <1>pK, <1>pL, <1>pv, <1>pu, <1>ph, <1>pB, <1>pb, <1>pg, <1>pG, <1>pc, <1>pp, <1>pP DEF Valued
<1>1. /\ \A e \in U : K[e] = elbSums(e)
      /\ \A e \in U : L[e] = elbKeys(e)
      /\ \A e \in U : v[e] = e.latency
      /\ \A e \in U : u[e] = e.targetTime
      /\ \A e \in U : h[e] = Minute[e.time]
      /\ B = elbBuckets(U)
      /\ \A e \in U : b[e] = BucketOf(e)
      /\ \A e \in U : g[e] = e.group
      /\ G = elbGroups(U)
      /\ \A e \in U : c[e] = GroupOf(e)
      /\ \A e \in U : p[e] = NormalizePath(e.path)
      /\ \A e \in U : e \in P <=> e.latency >= 0
      /\ Table(K, elbTotals, U)
      /\ DOMAIN L = U
      /\ \A e \in U : e.time \in Nat
      /\ Valued(v, U)
      /\ Valued(u, U)
      /\ Valued(B.targetTime, U) /\ Valued(B.latency, U) /\ \A e \in U : CellIs(b[e], B, {e})
      /\ Valued(G.targetTime, U) /\ Valued(G.latency, U) /\ \A e \in U : CellIs(c[e], G, {e})
      /\ P \in SUBSET U /\ Valued(v, U)
  BY <1>a, <1>d0, <1>d1, <1>d2, <1>d3, <1>d4, <1>d5, <1>d6, <1>d7
<1>2. ElbRep(s, S, U) <=> /\ SumsAre(s.sums, K, elbTotals, S)
                         /\ KeysAre(s.by, L, elbCounters, S)
                         /\ SpanIs(s.span, S)
                         /\ LatIs(s.Latency, v, S)
                         /\ LatIs(s.TargetTime, u, S)
                         /\ CellsBy(s.Timeline, h, {}, B, S) /\ Fn(s.Timeline)
                         /\ CellsBy(s.ByTargetGroup, g, {""}, G, S) /\ Fn(s.ByTargetGroup)
                         /\ LatsBy(s.PathTiming, p, {""}, v, S \cap P) /\ Fn(s.PathTiming)
  BY <1>pK, <1>pL, <1>pv, <1>pu, <1>ph, <1>pB, <1>pb, <1>pg, <1>pG, <1>pc, <1>pp, <1>pP, Zenon DEF ElbRep
<1>3. IsFiniteSet(S) /\ \A e \in S : e \in U
  BY FS_Subset
<1>4. /\ SumsAre(s.sums, K, elbTotals, S)
      /\ KeysAre(s.by, L, elbCounters, S)
      /\ SpanIs(s.span, S)
      /\ LatIs(s.Latency, v, S)
      /\ LatIs(s.TargetTime, u, S)
      /\ CellsBy(s.Timeline, h, {}, B, S) /\ Fn(s.Timeline)
      /\ CellsBy(s.ByTargetGroup, g, {""}, G, S) /\ Fn(s.ByTargetGroup)
      /\ LatsBy(s.PathTiming, p, {""}, v, S \cap P) /\ Fn(s.PathTiming)
  BY <1>2
<1>5. \A n \in elbTotals : s.sums[n] = SumOf(S, LAMBDA e : elbSums(e)[n])
  <2>0. Table(K, elbTotals, U) /\ SumsAre(s.sums, K, elbTotals, S) /\ \A e \in S : K[e] = elbSums(e)
    BY <1>1, <1>3, <1>4
  <2>1. TotalsAre(s.sums, K, elbTotals, S)
    BY <2>0, SumsEnd
  <2>2. \A n : [e \in S |-> K[e][n]] = [e \in S |-> elbSums(e)[n]]
    BY <2>0
  <2> QED  BY <2>1, <2>2 DEF SumOf, Total, TotalsAre
<1>6. ASSUME NEW n \in elbCounters PROVE s.by[n] = CountKeys(S, LAMBDA e : elbKeys(e)[n])
  <2>0. DOMAIN L = U /\ KeysAre(s.by, L, elbCounters, S) /\ \A e \in S : L[e] = elbKeys(e)
    BY <1>1, <1>3, <1>4
  <2>1. s.by[n] = Keys(L, n, S)
    BY <2>0, KeysEnd
  <2>2. PICK T : T = {x \in S : L[x][n] # ""}
    OBVIOUS
  <2>3. T = {x \in S : elbKeys(x)[n] # ""} /\ {L[e][n] : e \in T} = {elbKeys(e)[n] : e \in T}
    BY <2>0, <2>2
  <2>4. \A k : {e \in T : L[e][n] = k} = {e \in T : elbKeys(e)[n] = k}
    BY <2>0, <2>2
  <2>5. Keys(L, n, S) = [k \in {elbKeys(e)[n] : e \in T} |-> Cardinality({e \in T : elbKeys(e)[n] = k})]
    BY <2>2, <2>3, <2>4 DEF Keys
  <2> QED  BY <2>1, <2>3, <2>5 DEF CountKeys, CountAll
<1>7. s.span = SpanOf(S)
  <2>1. s.span = SpanOf(Timed(S))
    BY <1>1, <1>3, <1>4, SpanEnd
  <2>2. Timed(S) = S
    BY DEF Timed
  <2> QED  BY <2>1, <2>2
<1>8. s.Latency = LatOf(S, LAMBDA e : e.latency)
  <2>1. s.Latency = Lats(v, S)
    <3>1. LatIs(s.Latency, v, S) /\ IsFiniteSet(S) /\ Valued(v, U)
      BY <1>1, <1>3, <1>4
    <3>2. \A e \in S : v[e] \in Int
      BY <3>1 DEF Valued
    <3> QED  BY <3>1, <3>2, LatEnd
  <2>2. PICK M : M = {e \in S : v[e] >= 0}
    OBVIOUS
  <2>4. \A e \in S : v[e] = e.latency
    BY <1>1, <1>3, <1>4
  <2>3. M = {e \in S : e.latency >= 0} /\ {v[e] : e \in M} = {e.latency : e \in M} /\ [e \in M |-> v[e]] = [e \in M |-> e.latency]
    BY <2>2, <2>4
  <2> QED  BY <2>1, <2>2, <2>3 DEF Lats, LatOf, SumOf
<1>9. s.TargetTime = LatOf(S, LAMBDA e : e.targetTime)
  <2>1. s.TargetTime = Lats(u, S)
    <3>1. LatIs(s.TargetTime, u, S) /\ IsFiniteSet(S) /\ Valued(u, U)
      BY <1>1, <1>3, <1>4
    <3>2. \A e \in S : u[e] \in Int
      BY <3>1 DEF Valued
    <3> QED  BY <3>1, <3>2, LatEnd
  <2>2. PICK M : M = {e \in S : u[e] >= 0}
    OBVIOUS
  <2>4. \A e \in S : u[e] = e.targetTime
    BY <1>1, <1>3, <1>4
  <2>3. M = {e \in S : e.targetTime >= 0} /\ {u[e] : e \in M} = {e.targetTime : e \in M} /\ [e \in M |-> u[e]] = [e \in M |-> e.targetTime]
    BY <2>2, <2>4
  <2> QED  BY <2>1, <2>2, <2>3 DEF Lats, LatOf, SumOf
<1>20. s.PathTiming = [q \in {NormalizePath(e.path) : e \in {x \in S : x.latency >= 0}} \ {""} |->
                       LatOf({e \in S : NormalizePath(e.path) = q}, LAMBDA e : e.latency)]
  <2>1. PICK A, m : A = S \cap P /\ m = s.PathTiming
    OBVIOUS
  <2>2. A = {x \in S : x.latency >= 0} /\ A \in SUBSET U
    BY <1>1, <2>1
  <2>3. LatsBy(m, p, {""}, v, A) /\ Fn(m)
    BY <1>4, <2>1
  <2>4. {p[e] : e \in A} = {NormalizePath(e.path) : e \in A}
    BY <1>1, <2>2
  <2>5. DOMAIN m = {NormalizePath(e.path) : e \in A} \ {""}
    BY <2>3, <2>4 DEF LatsBy, KeyedBy, KeySet
  <2>6. ASSUME NEW q \in DOMAIN m PROVE m[q] = LatOf({e \in S : NormalizePath(e.path) = q}, LAMBDA e : e.latency)
    <3>1. PICK T, Q : T = Having(p, q, A) /\ Q = {e \in S : NormalizePath(e.path) = q}
      OBVIOUS
    <3>2. LatIs(m[q], v, T)
      BY <2>3, <3>1 DEF LatsBy
    <3>3. IsFiniteSet(T) /\ \A e \in T : v[e] \in Int /\ e \in U
      <4>1. T \in SUBSET A
        BY <3>1 DEF Having
      <4>2. Valued(v, U)
        BY <1>1
      <4> QED  BY <2>2, <4>1, <4>2, FS_Subset DEF Valued
    <3>4. m[q] = Lats(v, T)
      BY <3>2, <3>3, LatEnd
    <3>5. PICK M : M = {e \in T : v[e] >= 0}
      OBVIOUS
    <3>0. \A e \in S : v[e] = e.latency /\ p[e] = NormalizePath(e.path) /\ (e \in A <=> e.latency >= 0)
      BY <1>1, <1>3, <2>2
    <3>6. M = {e \in Q : e.latency >= 0}
      BY <2>2, <3>0, <3>1, <3>5 DEF Having
    <3>7. M \subseteq S
      BY <3>1, <3>6
    <3>8. {v[e] : e \in M} = {e.latency : e \in M} /\ [e \in M |-> v[e]] = [e \in M |-> e.latency]
      BY <3>0, <3>7
    <3> QED  BY <3>1, <3>4, <3>5, <3>6, <3>8 DEF Lats, LatOf, SumOf
  <2>7. m = [q \in DOMAIN m |-> m[q]]
    BY <2>3 DEF Fn
  <2> QED  BY <2>1, <2>2, <2>5, <2>6, <2>7
<1>21. /\ DOMAIN s.Timeline = {Minute[e.time] : e \in S}
       /\ DOMAIN s.ByTargetGroup = {e.group : e \in S} \ {""}
  <2>1. KeyedBy(s.Timeline, h, {}, S) /\ KeyedBy(s.ByTargetGroup, g, {""}, S)
    BY <1>4 DEF CellsBy
  <2>2. {h[e] : e \in S} = {Minute[e.time] : e \in S} /\ {g[e] : e \in S} = {e.group : e \in S}
    BY <1>1
  <2> QED  BY <2>1, <2>2 DEF KeyedBy, KeySet
<1>22. ASSUME NEW m \in DOMAIN s.Timeline, NEW T, T = {e \in S : Minute[e.time] = m}
       PROVE  /\ \A n \in DOMAIN CellOf(T) : s.Timeline[m][n] = CellOf(T)[n]
              /\ s.Timeline[m].elb = CountAll(T, LAMBDA e : Digit(e.status))
              /\ s.Timeline[m].Latency = LatOf(T, LAMBDA e : e.latency)
  <2>1. PICK d : d = s.Timeline[m]
    OBVIOUS
  <2>2. Having(h, m, S) = T
    BY <1>1, <1>3, <1>22 DEF Having
  <2>3. CellIs(d, B, T)
    BY <1>4, <2>1, <2>2 DEF CellsBy
  <2>4. IsFiniteSet(T) /\ \A e \in T : e \in U
    BY <1>3, <1>22, FS_Subset
  <2>5. \A e \in U : /\ e \in B.failing <=> TargetConnError(e)
                     /\ B.tgt[e] = Digit(e.targetStatus) /\ B.targetTime[e] = e.targetTime
                     /\ B.elb[e] = Digit(e.status) /\ B.latency[e] = e.latency /\ e \in B.counted
    BY <1>1 DEF elbBuckets
  <2>9. \A e \in T : e.targetTime \in Int /\ (e \in B.failing <=> TargetConnError(e)) /\ B.tgt[e] = Digit(e.targetStatus) /\ B.targetTime[e] = e.targetTime
    BY <2>4, <2>5
  <2>6. \A n \in DOMAIN CellOf(T) : d[n] = CellOf(T)[n]
    BY <2>3, <2>4, <2>9, CellShows
  <2>7. d.elb = CountAll(T, LAMBDA e : Digit(e.status))
    <3>1. PICK f : f = B.elb
      OBVIOUS
    <3>2. {f[e] : e \in T} = {Digit(e.status) : e \in T} /\ \A k : {e \in T : f[e] = k} = {e \in T : Digit(e.status) = k}
      BY <2>4, <2>5, <3>1
    <3>3. T \cap B.counted = T
      BY <2>4, <2>5
    <3>4. d.elb = Counter(f, T)
      BY <2>3, <3>1, <3>3 DEF CellIs
    <3> QED  BY <3>2, <3>4 DEF Counter, CountAll
  <2>8. d.Latency = LatOf(T, LAMBDA e : e.latency)
    <3>1. PICK w : w = B.latency
      OBVIOUS
    <3>2. \A e \in T : w[e] = e.latency /\ w[e] \in Int
      BY <2>4, <2>5, <3>1
    <3>3. LatIs(d.Latency, w, T)
      BY <2>3, <3>1 DEF CellIs
    <3>4. d.Latency = Lats(w, T)
      BY <2>4, <3>2, <3>3, LatEnd
    <3>5. PICK M : M = {e \in T : w[e] >= 0}
      OBVIOUS
    <3>6. M = {e \in T : e.latency >= 0} /\ {w[e] : e \in M} = {e.latency : e \in M} /\ [e \in M |-> w[e]] = [e \in M |-> e.latency]
      BY <3>2, <3>5
    <3> QED  BY <3>4, <3>5, <3>6 DEF Lats, LatOf, SumOf
  <2> QED  BY <2>1, <2>6, <2>7, <2>8
<1>23. ASSUME NEW k \in DOMAIN s.ByTargetGroup, NEW T, T = {e \in S : e.group = k}
       PROVE  /\ \A n \in DOMAIN CellOf(T) : s.ByTargetGroup[k][n] = CellOf(T)[n]
              /\ CountOf(s.ByTargetGroup[k].elb, 5) = Cardinality({e \in T : Digit(e.status) = 5})
              /\ s.ByTargetGroup[k].targets = CountKeys(T, LAMBDA e : e.target)
  <2>1. PICK d : d = s.ByTargetGroup[k]
    OBVIOUS
  <2>2. Having(g, k, S) = T
    BY <1>1, <1>3, <1>23 DEF Having
  <2>3. CellIs(d, G, T)
    BY <1>4, <2>1, <2>2 DEF CellsBy
  <2>4. IsFiniteSet(T) /\ \A e \in T : e \in U
    BY <1>3, <1>23, FS_Subset
  <2>5. \A e \in U : /\ e \in G.failing <=> TargetConnError(e)
                     /\ G.tgt[e] = Digit(e.targetStatus) /\ G.targetTime[e] = e.targetTime
                     /\ G.elb[e] = Digit(e.status) /\ (e \in G.counted <=> Digit(e.status) = 5)
                     /\ G.target[e] = e.target /\ (e \in G.named <=> e.target # "")
    BY <1>1 DEF elbGroups
  <2>9. \A e \in T : e.targetTime \in Int /\ (e \in G.failing <=> TargetConnError(e)) /\ G.tgt[e] = Digit(e.targetStatus) /\ G.targetTime[e] = e.targetTime
    BY <2>4, <2>5
  <2>6. \A n \in DOMAIN CellOf(T) : d[n] = CellOf(T)[n]
    BY <2>3, <2>4, <2>9, CellShows
  <2>7. CountOf(d.elb, 5) = Cardinality({e \in T : Digit(e.status) = 5})
    <3>1. PICK f, Q : f = G.elb /\ Q = T \cap G.counted
      OBVIOUS
    <3>2. Q = {e \in T : Digit(e.status) = 5} /\ \A e \in Q : f[e] = 5
      BY <2>4, <2>5, <3>1
    <3>3. d.elb = Counter(f, Q)
      BY <2>3, <3>1 DEF CellIs
    <3>4. CASE Q = {}
      BY <3>2, <3>3, <3>4, FS_EmptySet DEF Counter, CountOf
    <3>5. CASE Q # {}
      <4>1. 5 \in {f[e] : e \in Q} /\ {e \in Q : f[e] = 5} = Q
        BY <3>2, <3>5
      <4> QED  BY <3>2, <3>3, <4>1 DEF Counter, CountOf
    <3> QED  BY <3>4, <3>5
  <2>8. d.targets = CountKeys(T, LAMBDA e : e.target)
    <3>1. PICK f, Q : f = G.target /\ Q = T \cap G.named
      OBVIOUS
    <3>2. Q = {e \in T : e.target # ""} /\ \A e \in Q : f[e] = e.target
      BY <2>4, <2>5, <3>1
    <3>3. d.targets = Counter(f, Q)
      BY <2>3, <3>1 DEF CellIs
    <3>4. {f[e] : e \in Q} = {e.target : e \in Q} /\ \A x : {e \in Q : f[e] = x} = {e \in Q : e.target = x}
      BY <3>2
    <3>5. Counter(f, Q) = [x \in {e.target : e \in Q} |-> Cardinality({e \in Q : e.target = x})]
      BY <3>4 DEF Counter
    <3> QED  BY <3>2, <3>3, <3>5 DEF CountKeys, CountAll
  <2> QED  BY <2>1, <2>6, <2>7, <2>8
<1>24. /\ \A m \in DOMAIN s.Timeline :
            LET T == {e \in S : Minute[e.time] = m} IN
              /\ \A n \in DOMAIN CellOf(T) : s.Timeline[m][n] = CellOf(T)[n]
              /\ s.Timeline[m].elb = CountAll(T, LAMBDA e : Digit(e.status))
              /\ s.Timeline[m].Latency = LatOf(T, LAMBDA e : e.latency)
       /\ \A k \in DOMAIN s.ByTargetGroup :
            LET T == {e \in S : e.group = k} IN
              /\ \A n \in DOMAIN CellOf(T) : s.ByTargetGroup[k][n] = CellOf(T)[n]
              /\ CountOf(s.ByTargetGroup[k].elb, 5) = Cardinality({e \in T : Digit(e.status) = 5})
              /\ s.ByTargetGroup[k].targets = CountKeys(T, LAMBDA e : e.target)
  BY <1>22, <1>23
<1> QED  BY <1>5, <1>6, <1>7, <1>8, <1>9, <1>20, <1>21, <1>24 DEF ElbIsOf

-----------------------------------------------------------------------------
(*****************************************************************************)
(* The summary of web ACL requests: lists and their counters, exploits,      *)
(* then the whole.                                                           *)
(*****************************************************************************)

\* A list has its length, and no more places.
IsList(s) == s \in Seq({s[i] : i \in DOMAIN s})

\* Its places are the numbers up to its length.
LEMMA ListFacts ==
  ASSUME NEW s, IsList(s)
  PROVE  Len(s) \in Nat /\ DOMAIN s = 1..Len(s) /\ IsFiniteSet(DOMAIN s) /\ Cardinality(DOMAIN s) = Len(s)
<1>1. Len(s) \in Nat /\ DOMAIN s = 1..Len(s)
  BY DEF IsList
<1>2. \A n \in Nat : IsFiniteSet(1..n) /\ Cardinality(1..n) = n
  BY FS_Interval
<1> QED  BY <1>1, <1>2

\* A sequence over any set is a list.
LEMMA ListIs ==
  ASSUME NEW s, NEW A, s \in Seq(A)
  PROVE  IsList(s)
<1>1. DOMAIN s = 1..Len(s) /\ Len(s) \in Nat /\ s = [i \in 1..Len(s) |-> s[i]]
  OBVIOUS
<1>2. \A i \in 1..Len(s) : s[i] \in {s[j] : j \in DOMAIN s}
  BY <1>1
<1> QED  BY <1>1, <1>2 DEF IsList

\* A function on the numbers up to n is a list.
LEMMA ListOf ==
  ASSUME NEW n \in Nat, NEW s, s = [i \in 1..n |-> s[i]]
  PROVE  IsList(s)
<1>1. DOMAIN s = 1..n
  OBVIOUS
<1>2. \A i \in 1..n : s[i] \in {s[j] : j \in DOMAIN s}
  BY <1>1
<1> QED  BY <1>1, <1>2 DEF IsList

\* Two lists, one after the other, are a list.
LEMMA ListJoin ==
  ASSUME NEW s, IsList(s), NEW t, IsList(t)
  PROVE  IsList(s \o t)
<1>1. PICK A, B : A = {s[i] : i \in DOMAIN s} /\ B = {t[i] : i \in DOMAIN t}
  OBVIOUS
<1>2. s \in Seq(A) /\ t \in Seq(B)
  BY <1>1 DEF IsList
<1>3. PICK C : C = A \cup B
  OBVIOUS
<1>4. s \in Seq(C) /\ t \in Seq(C)
  BY <1>2, <1>3
<1>5. s \o t \in Seq(C)
  BY <1>4
<1> QED  BY <1>5, ListIs

\* A finite set numbered from 1 without a number twice has every number.
LEMMA OneToOneIsOnto ==
  ASSUME NEW K, IsFiniteSet(K), NEW f \in [K -> 1..Cardinality(K)], \A i, k \in K : f[i] = f[k] => i = k
  PROVE  \A p \in 1..Cardinality(K) : \E i \in K : f[i] = p
<1>1. Cardinality(K) \in Nat
  BY FS_CardinalityType
<1>2. IsFiniteSet(1..Cardinality(K)) /\ Cardinality(1..Cardinality(K)) = Cardinality(K)
  BY <1>1, FS_Interval
<1>3. f \in Injection(K, 1..Cardinality(K))
  BY DEF Injection, IsInjective
<1>4. f \in Surjection(K, 1..Cardinality(K))
  BY <1>2, <1>3, FS_Injection
<1> QED  BY <1>4 DEF Surjection

\* Each position of a set of positions has its place in the order.
LEMMA PlacesOf ==
  ASSUME NEW K, K \subseteq Nat, IsFiniteSet(K)
  PROVE  /\ Cardinality(K) \in Nat
         /\ \A i \in K : Cardinality({j \in K : j <= i}) \in 1..Cardinality(K)
         /\ \A p \in 1..Cardinality(K) : \E i \in K : Cardinality({j \in K : j <= i}) = p
         /\ \A i, k \in K : Cardinality({j \in K : j <= i}) = Cardinality({j \in K : j <= k}) => i = k
<1> DEFINE Upto(i) == {j \in K : j <= i}
           rank(i) == Cardinality(Upto(i))
<1>1. /\ Cardinality(K) \in Nat
      /\ \A i : Upto(i) \in SUBSET K
  BY FS_CardinalityType
<1>2. \A i : IsFiniteSet(Upto(i)) /\ rank(i) \in Nat /\ rank(i) <= Cardinality(K)
  <2> SUFFICES ASSUME NEW i PROVE IsFiniteSet(Upto(i)) /\ rank(i) \in Nat /\ rank(i) <= Cardinality(K)
    OBVIOUS
  <2>1. PICK T : T = Upto(i)
    OBVIOUS
  <2>2. T \in SUBSET K
    BY <2>1
  <2>3. IsFiniteSet(T) /\ Cardinality(T) \in Nat /\ Cardinality(T) <= Cardinality(K)
    BY <2>2, Sizes
  <2> QED  BY <2>1, <2>3
<1>3. \A i \in K : rank(i) >= 1
  <2> SUFFICES ASSUME NEW i \in K PROVE rank(i) >= 1
    OBVIOUS
  <2>1. i \in Upto(i)
    OBVIOUS
  <2>2. PICK T : T = Upto(i)
    OBVIOUS
  <2>3. Cardinality(T) # 0
    BY <1>2, <2>1, <2>2, FS_EmptySet
  <2>4. Cardinality(T) \in Nat
    BY <1>2, <2>2
  <2> QED  BY <2>2, <2>3, <2>4
<1>4. ASSUME NEW i \in K, NEW k \in K, i < k PROVE rank(i) < rank(k)
  <2>1. PICK T, W : T = Upto(i) /\ W = Upto(k)
    OBVIOUS
  <2>0. i \in Nat /\ k \in Nat /\ \A j \in K : j \in Nat
    OBVIOUS
  <2>6. \A j \in T : j \in K /\ j <= i
    BY <2>1
  <2>7. \A j \in K : j <= k => j \in W
    BY <2>1
  <2>8. \A j \in K : j <= i => j <= k
    BY <1>4, <2>0
  <2>9. k \in W /\ k \notin T
    BY <1>4, <2>0, <2>6, <2>7
  <2>10. \A j \in T : j \in W
    BY <2>6, <2>7, <2>8
  <2>2. T \cup {k} \in SUBSET W /\ k \notin T
    BY <2>9, <2>10
  <2>3. IsFiniteSet(T) /\ IsFiniteSet(W)
    BY <1>2, <2>1
  <2>4. Cardinality(T \cup {k}) = Cardinality(T) + 1 /\ Cardinality(T) \in Nat
    BY <2>2, <2>3, OneMore
  <2>5. Cardinality(T \cup {k}) <= Cardinality(W) /\ Cardinality(W) \in Nat
    BY <2>2, <2>3, Sizes
  <2> QED  BY <2>1, <2>4, <2>5
<1>5. \A i, k \in K : rank(i) = rank(k) => i = k
  <2> SUFFICES ASSUME NEW i \in K, NEW k \in K, rank(i) = rank(k), i # k PROVE FALSE
    OBVIOUS
  <2>1. i < k \/ k < i
    OBVIOUS
  <2>2. rank(i) \in Nat /\ rank(k) \in Nat
    BY <1>2
  <2>3. i < k => rank(i) < rank(k)
    BY <1>4
  <2>4. k < i => rank(k) < rank(i)
    BY <1>4
  <2> HIDE DEF rank
  <2> QED  BY <2>1, <2>2, <2>3, <2>4
<1>6. \A i \in K : rank(i) \in 1..Cardinality(K)
  <2> SUFFICES ASSUME NEW i \in K PROVE rank(i) \in 1..Cardinality(K)
    OBVIOUS
  <2>1. rank(i) \in Nat /\ rank(i) <= Cardinality(K) /\ rank(i) >= 1
    BY <1>2, <1>3
  <2> HIDE DEF rank
  <2> QED  BY <1>1, <2>1
<1>7. \A p \in 1..Cardinality(K) : \E i \in K : rank(i) = p
  <2>1. PICK f : f = [i \in K |-> rank(i)]
    OBVIOUS
  <2> HIDE DEF rank
  <2>2. f \in [K -> 1..Cardinality(K)] /\ \A i, k \in K : f[i] = f[k] => i = k
    BY <1>5, <1>6, <2>1
  <2>3. \A p \in 1..Cardinality(K) : \E i \in K : f[i] = p
    BY <2>2, OneToOneIsOnto
  <2> QED  BY <2>1, <2>3
<1> QED  BY <1>1, <1>5, <1>6, <1>7

\* What a list has at some positions is a list, of other values if they are.
LEMMA ThoseAre ==
  ASSUME NEW s, IsList(s), NEW K, K \subseteq DOMAIN s
  PROVE  /\ IsList(those(s, K))
         /\ \A i \in DOMAIN those(s, K) : \E k \in K : those(s, K)[i] = s[k]
         /\ \A k \in K : \E i \in DOMAIN those(s, K) : those(s, K)[i] = s[k]
         /\ (\A i, k \in K : s[i] = s[k] => i = k)
              => \A i, k \in DOMAIN those(s, K) : those(s, K)[i] = those(s, K)[k] => i = k
<1> DEFINE rank(i) == Cardinality({j \in K : j <= i})
           at0(p) == CHOOSE i \in K : rank(i) = p
<1>1. Len(s) \in Nat /\ DOMAIN s = 1..Len(s) /\ IsFiniteSet(DOMAIN s)
  BY ListFacts
<1>2. K \subseteq Nat /\ IsFiniteSet(K)
  BY <1>1, FS_Subset
<1>3. /\ Cardinality(K) \in Nat
      /\ \A i \in K : rank(i) \in 1..Cardinality(K)
      /\ \A p \in 1..Cardinality(K) : \E i \in K : rank(i) = p
      /\ \A i, k \in K : rank(i) = rank(k) => i = k
  BY <1>2, PlacesOf
<1>4. PICK t : t = those(s, K)
  OBVIOUS
<1>5. t = [p \in 1..Cardinality(K) |-> s[at0(p)]]
  BY <1>4 DEF those
<1> HIDE DEF rank
<1>6. \A p \in 1..Cardinality(K) : at0(p) \in K /\ rank(at0(p)) = p
  BY <1>3
<1> HIDE DEF at0
<1>7. DOMAIN t = 1..Cardinality(K) /\ \A p \in 1..Cardinality(K) : t[p] = s[at0(p)]
  BY <1>5
<1>8. IsList(t)
  <2>1. PICK n \in Nat : n = Cardinality(K)
    BY <1>3
  <2>2. t = [i \in 1..n |-> t[i]]
    BY <1>5, <2>1
  <2> QED  BY <2>2, ListOf
<1>9. \A i \in DOMAIN t : \E k \in K : t[i] = s[k]
  BY <1>6, <1>7
<1>10. \A k \in K : \E i \in DOMAIN t : t[i] = s[k]
  <2> SUFFICES ASSUME NEW k \in K PROVE \E i \in DOMAIN t : t[i] = s[k]
    OBVIOUS
  <2>1. rank(k) \in DOMAIN t /\ at0(rank(k)) = k
    BY <1>3, <1>6, <1>7
  <2> QED  BY <1>7, <2>1
<1>11. (\A i, k \in K : s[i] = s[k] => i = k) => \A i, k \in DOMAIN t : t[i] = t[k] => i = k
  <2> SUFFICES ASSUME \A i, k \in K : s[i] = s[k] => i = k, NEW i \in DOMAIN t, NEW k \in DOMAIN t, t[i] = t[k] PROVE i = k
    OBVIOUS
  <2>1. at0(i) \in K /\ at0(k) \in K /\ rank(at0(i)) = i /\ rank(at0(k)) = k /\ s[at0(i)] = s[at0(k)]
    BY <1>6, <1>7
  <2> QED  BY <2>1
<1> QED  BY <1>4, <1>8, <1>9, <1>10, <1>11

\* The bags b[e] of the entries e of S, added up.
Share(b, r) == [e \in DOMAIN b |-> CountOf(b[e], r)]
BagSum(b, S) == [r \in UNION {DOMAIN b[e] : e \in S} |-> Sum(Share(b, r), S)]
IsBag(x) == x = [r \in DOMAIN x |-> x[r]] /\ \A r \in DOMAIN x : x[r] \in Int
\* Bags by name, as what Counter.merge has added up.
ListsAre(f, B, names, S) == DOMAIN f = names /\ \A n \in names : f[n] = BagSum(Column(B, n), S)

\* What an entry adds to a key is a number.
LEMMA ShareIs ==
  ASSUME NEW b, NEW S, S \subseteq DOMAIN b, \A e \in S : IsBag(b[e])
  PROVE  \A r, e : e \in S => Share(b, r)[e] \in Int /\ Share(b, r)[e] = CountOf(b[e], r)
<1> SUFFICES ASSUME NEW r, NEW e \in S PROVE Share(b, r)[e] \in Int /\ Share(b, r)[e] = CountOf(b[e], r)
  OBVIOUS
<1>1. Share(b, r)[e] = CountOf(b[e], r)
  BY DEF Share
<1>2. IsBag(b[e])
  OBVIOUS
<1>3. CountOf(b[e], r) \in Int
  BY <1>2 DEF CountOf, IsBag
<1> QED  BY <1>1, <1>3

\* Nobody's bags are no bag.
LEMMA BagSumEmpty ==
  ASSUME NEW b
  PROVE  BagSum(b, {}) = EmptyBag
<1>1. UNION {DOMAIN b[e] : e \in {}} = {}
  OBVIOUS
<1> QED  BY <1>1 DEF BagSum, EmptyBag, SetToBag

\* The bag of one entry.
LEMMA BagSumSingle ==
  ASSUME NEW b, NEW e \in DOMAIN b, IsBag(b[e])
  PROVE  BagSum(b, {e}) = b[e]
<1>1. UNION {DOMAIN b[x] : x \in {e}} = DOMAIN b[e]
  OBVIOUS
<1>2. ASSUME NEW r \in DOMAIN b[e] PROVE Sum(Share(b, r), {e}) = b[e][r]
  <2>1. Share(b, r)[e] = b[e][r] /\ b[e][r] \in Int
    BY <1>2 DEF Share, CountOf, IsBag
  <2> QED  BY <2>1, SumSingle
<1>3. BagSum(b, {e}) = [r \in DOMAIN b[e] |-> b[e][r]]
  BY <1>1, <1>2 DEF BagSum
<1> QED  BY <1>3 DEF IsBag

\* Two sets of entries apart.
LEMMA BagSumUnion ==
  ASSUME NEW b, NEW S, NEW T, IsFiniteSet(S), IsFiniteSet(T), S \cap T = {},
         S \cup T \subseteq DOMAIN b, \A e \in S \cup T : IsBag(b[e])
  PROVE  BagSum(b, S) (+) BagSum(b, T) = BagSum(b, S \cup T)
<1>1. PICK C, D : C = UNION {DOMAIN b[e] : e \in S} /\ D = UNION {DOMAIN b[e] : e \in T}
  OBVIOUS
<1>2. UNION {DOMAIN b[e] : e \in S \cup T} = C \cup D
  BY <1>1
<1>3. \A r, e : e \in S \cup T => Share(b, r)[e] \in Int /\ Share(b, r)[e] = CountOf(b[e], r)
  BY ShareIs
<1>4. ASSUME NEW r PROVE /\ Sum(Share(b, r), S \cup T) = Sum(Share(b, r), S) + Sum(Share(b, r), T)
                         /\ Sum(Share(b, r), S) \in Int /\ Sum(Share(b, r), T) \in Int
  <2>1. PICK f : f = Share(b, r)
    OBVIOUS
  <2>2. IsFiniteSet(S \cup T) /\ \A x \in S \cup T : f[x] \in Int
    BY <1>3, <2>1, FS_Union
  <2>3. PICK W : W = S \cup T
    OBVIOUS
  <2>4. IsFiniteSet(W) /\ (\A x \in W : f[x] \in Int) /\ S \in SUBSET W /\ T \in SUBSET W
    BY <2>2, <2>3
  <2>5. Sum(f, S \cup T) = Sum(f, S) + Sum(f, T)
    BY <2>4, SumUnion
  <2>6. Sum(f, S) \in Int /\ Sum(f, T) \in Int
    BY <2>4, SumRec
  <2> QED  BY <2>1, <2>5, <2>6
<1>5. ASSUME NEW r, r \notin C PROVE Sum(Share(b, r), S) = 0
  <2>1. \A e \in S : r \notin DOMAIN b[e]
    BY <1>1, <1>5
  <2>2. \A e \in S : Share(b, r)[e] = 0
    BY <1>3, <2>1 DEF CountOf
  <2> QED  BY <2>2, SumZero
<1>6. ASSUME NEW r, r \notin D PROVE Sum(Share(b, r), T) = 0
  <2>1. \A e \in T : r \notin DOMAIN b[e]
    BY <1>1, <1>6
  <2>2. \A e \in T : Share(b, r)[e] = 0
    BY <1>3, <2>1 DEF CountOf
  <2> QED  BY <2>2, SumZero
<1>7. BagSum(b, S) = [r \in C |-> Sum(Share(b, r), S)] /\ BagSum(b, T) = [r \in D |-> Sum(Share(b, r), T)]
  BY <1>1 DEF BagSum
<1>8. BagSum(b, S \cup T) = [r \in C \cup D |-> Sum(Share(b, r), S \cup T)]
  BY <1>2 DEF BagSum
<1>9. PICK x, y : x = BagSum(b, S) /\ y = BagSum(b, T)
  OBVIOUS
<1>10. DOMAIN x = C /\ DOMAIN y = D
  BY <1>7, <1>9
<1>11. x (+) y = [r \in C \cup D |-> (IF r \in C THEN x[r] ELSE 0) + (IF r \in D THEN y[r] ELSE 0)]
  BY <1>10 DEF (+)
<1>12. \A r \in C \cup D : (IF r \in C THEN x[r] ELSE 0) + (IF r \in D THEN y[r] ELSE 0) = Sum(Share(b, r), S \cup T)
  <2> SUFFICES ASSUME NEW r \in C \cup D PROVE (IF r \in C THEN x[r] ELSE 0) + (IF r \in D THEN y[r] ELSE 0) = Sum(Share(b, r), S \cup T)
    OBVIOUS
  <2>1. (IF r \in C THEN x[r] ELSE 0) = Sum(Share(b, r), S)
    BY <1>5, <1>7, <1>9
  <2>2. (IF r \in D THEN y[r] ELSE 0) = Sum(Share(b, r), T)
    BY <1>6, <1>7, <1>9
  <2> QED  BY <1>4, <2>1, <2>2
<1> QED  BY <1>8, <1>9, <1>11, <1>12

Bagged(B, names, U) ==
  DOMAIN B = U /\ \A e \in U : DOMAIN B[e] = names /\ \A n \in names : IsBag(B[e][n])

\* All there is to say of lists.
LEMMA ListsRules ==
  ASSUME NEW U, IsFiniteSet(U), NEW B, NEW names, Bagged(B, names, U)
  PROVE  /\ ListsAre(NoKeys(names), B, names, {})
         /\ \A S \in SUBSET U, e \in U : \A s : ListsAre(s, B, names, S) /\ e \notin S => ListsAre(merge(s, B[e]), B, names, S \cup {e})
         /\ \A S, T \in SUBSET U : \A s, t : ListsAre(s, B, names, S) /\ ListsAre(t, B, names, T) /\ S \cap T = {}
              => ListsAre(merge(s, t), B, names, S \cup T)
<1>1. ListsAre(NoKeys(names), B, names, {})
  <2>1. DOMAIN NoKeys(names) = names /\ \A n \in names : NoKeys(names)[n] = EmptyBag
    BY DEF NoKeys
  <2>2. \A n \in names : BagSum(Column(B, n), {}) = EmptyBag
    BY Zenon, BagSumEmpty
  <2> QED  BY <2>1, <2>2 DEF ListsAre
<1>2. \A n \in names : DOMAIN Column(B, n) = U /\ \A e \in U : IsBag(Column(B, n)[e]) /\ Column(B, n)[e] = B[e][n]
  BY DEF Column, Bagged
<1>3. ASSUME NEW S \in SUBSET U, NEW T \in SUBSET U, NEW s, NEW t, ListsAre(s, B, names, S), ListsAre(t, B, names, T), S \cap T = {}
      PROVE  ListsAre(merge(s, t), B, names, S \cup T)
  <2>1. IsFiniteSet(S) /\ IsFiniteSet(T)
    BY FS_Subset
  <2>2. ASSUME NEW n \in names PROVE s[n] (+) t[n] = BagSum(Column(B, n), S \cup T)
    <3>1. PICK b : b = Column(B, n)
      OBVIOUS
    <3>2. S \cup T \subseteq DOMAIN b /\ \A e \in S \cup T : IsBag(b[e])
      BY <1>2, <3>1
    <3>3. BagSum(b, S) (+) BagSum(b, T) = BagSum(b, S \cup T)
      BY <1>3, <2>1, <3>2, BagSumUnion
    <3>4. s[n] = BagSum(b, S) /\ t[n] = BagSum(b, T)
      BY <1>3, <3>1 DEF ListsAre
    <3> QED  BY <3>1, <3>3, <3>4
  <2>3. DOMAIN s = names
    BY <1>3 DEF ListsAre
  <2>4. merge(s, t) = [n \in names |-> s[n] (+) t[n]]
    BY <2>3, Zenon DEF merge
  <2> QED  BY <2>2, <2>4 DEF ListsAre
<1>4. ASSUME NEW e \in U PROVE ListsAre(B[e], B, names, {e})
  <2>1. DOMAIN B[e] = names
    BY DEF Bagged
  <2>2. ASSUME NEW n \in names PROVE B[e][n] = BagSum(Column(B, n), {e})
    <3>1. PICK b : b = Column(B, n)
      OBVIOUS
    <3>2. e \in DOMAIN b /\ IsBag(b[e]) /\ b[e] = B[e][n]
      BY <1>2, <3>1
    <3> QED  BY <3>1, <3>2, BagSumSingle
  <2> QED  BY <2>1, <2>2 DEF ListsAre
<1>5. ASSUME NEW S \in SUBSET U, NEW e \in U, NEW s, ListsAre(s, B, names, S), e \notin S
      PROVE  ListsAre(merge(s, B[e]), B, names, S \cup {e})
  <2>1. {e} \in SUBSET U /\ S \cap {e} = {}
    BY <1>5
  <2> QED  BY <1>3, <1>4, <1>5, <2>1
<1> QED  BY <1>1, <1>3, <1>5

BagTotal(B, n, S) == [r \in UNION {DOMAIN B[e][n] : e \in S} |-> Sum([e \in S |-> CountOf(B[e][n], r)], S)]

\* A list at the end.
LEMMA ListsEnd ==
  ASSUME NEW U, IsFiniteSet(U), NEW B, NEW names, Bagged(B, names, U), NEW S \in SUBSET U, NEW s, ListsAre(s, B, names, S)
  PROVE  DOMAIN s = names /\ \A n \in names : s[n] = BagTotal(B, n, S)
<1>1. ASSUME NEW n \in names PROVE s[n] = BagTotal(B, n, S)
  <2>1. PICK b : b = Column(B, n)
    OBVIOUS
  <2>2. DOMAIN b = U /\ \A e \in U : IsBag(b[e]) /\ b[e] = B[e][n]
    BY <2>1 DEF Column, Bagged
  <2>3. UNION {DOMAIN b[e] : e \in S} = UNION {DOMAIN B[e][n] : e \in S}
    BY <2>2
  <2>4. ASSUME NEW r PROVE Sum(Share(b, r), S) = Sum([e \in S |-> CountOf(B[e][n], r)], S)
    <3>1. PICK f, g : f = Share(b, r) /\ g = [e \in S |-> CountOf(B[e][n], r)]
      OBVIOUS
    <3>2. \A e \in S : f[e] \in Int /\ f[e] = CountOf(b[e], r)
      <4>1. S \subseteq DOMAIN b /\ \A e \in S : IsBag(b[e])
        BY <2>2
      <4> QED  BY <3>1, <4>1, ShareIs
    <3>3. \A e \in S : g[e] = f[e]
      BY <2>2, <3>1, <3>2
    <3>4. IsFiniteSet(S)
      BY FS_Subset
    <3> QED  BY <3>1, <3>2, <3>3, <3>4, SumSame
  <2>5. s[n] = BagSum(b, S)
    BY <2>1 DEF ListsAre
  <2> QED  BY <2>3, <2>4, <2>5 DEF BagSum, BagTotal
<1> QED  BY <1>1 DEF ListsAre

\* The lists of a request joined: a list again.
LEMMA FlatIs ==
  ASSUME NEW s, IsList(s), \A i \in DOMAIN s : IsList(s[i])
  PROVE  IsList(FlattenSeq(s))
<1>0. Len(s) \in Nat /\ DOMAIN s = 1..Len(s)
  BY ListFacts
<1>1. CASE Len(s) = 0
  BY <1>1 DEF FlattenSeq
<1>2. CASE Len(s) # 0
  <2> DEFINE Unrolls(g, n) == g = [i \in 1..n |-> IF i = 1 THEN s[i] ELSE g[i-1] \o s[i]]
             P == {n \in Nat : \E g : Unrolls(g, n)}
  <2>1. 0 \in P
    <3>1. Unrolls([i \in {} |-> 0], 0)
      OBVIOUS
    <3> QED  BY <3>1
  <2>2. ASSUME NEW n \in Nat, n \in P PROVE n + 1 \in P
    <3>1. PICK g : Unrolls(g, n)
      BY <2>2
    <3>2. PICK f : f = [i \in 1..n + 1 |-> IF i = n + 1 THEN IF i = 1 THEN s[i] ELSE g[n] \o s[i] ELSE g[i]]
      OBVIOUS
    <3>7. \A i \in 1..n : i \in 1..n + 1 /\ i # n + 1
      OBVIOUS
    <3>3. DOMAIN f = 1..n + 1 /\ \A i \in 1..n : f[i] = g[i]
      BY <3>2, <3>7
    <3>4. ASSUME NEW i \in 1..n + 1 PROVE f[i] = IF i = 1 THEN s[i] ELSE f[i-1] \o s[i]
      <4>1. CASE i = n + 1
        <5>1. f[i] = IF i = 1 THEN s[i] ELSE g[n] \o s[i]
          BY <3>2, <4>1
        <5>2. i # 1 => i - 1 = n /\ n \in 1..n
          BY <4>1
        <5> QED  BY <3>3, <5>1, <5>2
      <4>2. CASE i # n + 1
        <5>1. i \in 1..n /\ (i # 1 => i - 1 \in 1..n)
          BY <4>2
        <5>2. g[i] = IF i = 1 THEN s[i] ELSE g[i-1] \o s[i]
          BY <3>1, <5>1
        <5> QED  BY <3>3, <5>1, <5>2
      <4> QED  BY <4>1, <4>2
    <3>5. f = [i \in 1..n + 1 |-> f[i]]
      BY <3>2
    <3>6. Unrolls(f, n + 1)
      BY <3>4, <3>5
    <3> HIDE DEF Unrolls
    <3>8. n + 1 \in Nat /\ \E h : Unrolls(h, n + 1)
      BY <3>6
    <3> QED  BY <3>8
  <2>3. Len(s) \in P
    <3> HIDE DEF P
    <3> QED  BY <1>0, <2>1, <2>2, EveryNumber
  <2>4. PICK g : g = CHOOSE h : Unrolls(h, Len(s))
    OBVIOUS
  <2>5. Unrolls(g, Len(s))
    BY <2>3, <2>4
  <2>6. FlattenSeq(s) = g[Len(s)]
    BY <1>2, <2>4 DEF FlattenSeq
  <2>7. \A i \in 1..Len(s) : g[i] = IF i = 1 THEN s[i] ELSE g[i-1] \o s[i]
    BY <2>5
  <2> DEFINE Q == {n \in Nat : n \in 1..Len(s) => IsList(g[n])}
  <2>8. 0 \in Q
    OBVIOUS
  <2>9. ASSUME NEW n \in Nat, n \in Q PROVE n + 1 \in Q
    <3> SUFFICES ASSUME n + 1 \in 1..Len(s) PROVE IsList(g[n + 1])
      OBVIOUS
    <3>1. IsList(s[n + 1]) /\ g[n + 1] = IF n + 1 = 1 THEN s[n + 1] ELSE g[n] \o s[n + 1]
      <4>1. (n + 1) - 1 = n
        OBVIOUS
      <4> QED  BY <1>0, <2>7, <4>1
    <3>2. n + 1 # 1 => IsList(g[n])
      BY <1>0, <2>9
    <3>3. n + 1 # 1 => IsList(g[n] \o s[n + 1])
      BY <3>1, <3>2, ListJoin
    <3> QED  BY <3>1, <3>3
  <2>10. Len(s) \in Q
    <3> HIDE DEF Q
    <3> QED  BY <1>0, <2>8, <2>9, EveryNumber
  <2>11. Len(s) \in 1..Len(s)
    BY <1>0, <1>2
  <2> QED  BY <2>6, <2>10, <2>11
<1> QED  BY <1>1, <1>2

\* A list of texts has its names in order, and its COUNT rules.
LEMMA NamedIs ==
  ASSUME NEW s, IsList(s)
  PROVE  IsList(Named(s)) /\ IsList(Counted(s))
<1>1. IsList(Named(s))
  <2>1. PICK K : K = {i \in DOMAIN s : s[i] # ""}
    OBVIOUS
  <2>2. IsList(those(s, K))
    BY <2>1, ThoseAre
  <2> QED  BY <2>1, <2>2 DEF Named
<1>2. IsList(Counted(s))
  <2>1. PICK K : K = {i \in DOMAIN s : s[i].action = "COUNT"}
    OBVIOUS
  <2>2. PICK C : C = those(s, K)
    OBVIOUS
  <2>3. IsList(C)
    BY <2>1, <2>2, ThoseAre
  <2>4. PICK D : D = [i \in DOMAIN C |-> C[i].rule]
    OBVIOUS
  <2>5. Len(C) \in Nat /\ DOMAIN C = 1..Len(C)
    BY <2>3, ListFacts
  <2>6. D = [i \in 1..Len(C) |-> D[i]]
    BY <2>4, <2>5
  <2>7. IsList(D)
    BY <2>5, <2>6, ListOf
  <2>8. Counted(s) = D
    BY <2>1, <2>2, <2>4 DEF Counted
  <2> QED  BY <2>7, <2>8
<1> QED  BY <1>1, <1>2

\* The lists of a WAF line.
WafLine(l) == /\ IsList(l.labels) /\ IsList(l.matched) /\ IsList(l.groups)
              /\ \A i \in DOMAIN l.groups : IsList(l.groups[i].matched) /\ IsList(l.groups[i].excluded)
OneEach(s) == \A i, k \in DOMAIN s : s[i] = s[k] => i = k

\* countRules: a list with each rule once.
LEMMA CountRulesAre ==
  ASSUME NEW l, WafLine(l)
  PROVE  IsList(countRules(l)) /\ OneEach(countRules(l))
<1> DEFINE texts(i) == (IF i = selected(l) THEN <<>> ELSE Named(<<l.groups[i].rule>>))
                         \o Counted(l.groups[i].matched) \o Named(l.groups[i].excluded)
           ofGroup(i) == [j \in DOMAIN texts(i) |-> GroupRule(l.groups[i], texts(i)[j])]
           groups == [i \in DOMAIN l.groups |-> ofGroup(i)]
           all == FlattenSeq(groups) \o Counted(l.matched)
<1>1. \A x : IsList(<<x>>)
  <2> SUFFICES ASSUME NEW x PROVE IsList(<<x>>)
    OBVIOUS
  <2>1. <<x>> \in Seq({x})
    OBVIOUS
  <2> QED  BY <2>1, ListIs
<1>2. IsList(<<>>)
  <2>1. <<>> \in Seq({})
    OBVIOUS
  <2> QED  BY <2>1, ListIs
<1>3. ASSUME NEW i \in DOMAIN l.groups PROVE IsList(texts(i))
  <2>1. PICK a, b, c : /\ a = (IF i = selected(l) THEN <<>> ELSE Named(<<l.groups[i].rule>>))
                       /\ b = Counted(l.groups[i].matched) /\ c = Named(l.groups[i].excluded)
    OBVIOUS
  <2>2. IsList(Named(<<l.groups[i].rule>>))
    BY <1>1, NamedIs
  <2>3. IsList(a)
    BY <1>2, <2>1, <2>2
  <2>4. IsList(b) /\ IsList(c)
    BY <2>1, NamedIs DEF WafLine
  <2>5. IsList((a \o b) \o c)
    BY SMTT(40), <2>3, <2>4, ListJoin
  <2> QED  BY <2>1, <2>5
<1>4. ASSUME NEW i \in DOMAIN l.groups PROVE IsList(ofGroup(i))
  <2>1. PICK t : t = texts(i)
    OBVIOUS
  <2>2. IsList(t)
    BY <1>3, <2>1
  <2>3. Len(t) \in Nat /\ DOMAIN t = 1..Len(t)
    BY <2>2, ListFacts
  <2>4. PICK D : D = [j \in DOMAIN t |-> GroupRule(l.groups[i], t[j])]
    OBVIOUS
  <2>5. D = [j \in 1..Len(t) |-> D[j]]
    BY <2>3, <2>4
  <2>6. IsList(D)
    BY <2>3, <2>5, ListOf
  <2> QED  BY <2>1, <2>4, <2>6
<1>5. IsList(groups) /\ \A i \in DOMAIN groups : IsList(groups[i])
  <2> HIDE DEF ofGroup
  <2>1. Len(l.groups) \in Nat /\ DOMAIN l.groups = 1..Len(l.groups)
    BY ListFacts DEF WafLine
  <2>2. PICK D : D = groups
    OBVIOUS
  <2>3. D = [i \in 1..Len(l.groups) |-> D[i]] /\ \A i \in DOMAIN D : i \in DOMAIN l.groups /\ D[i] = ofGroup(i)
    BY <2>1, <2>2
  <2>4. IsList(D)
    BY <2>1, <2>3, ListOf
  <2> QED  BY <1>4, <2>2, <2>3, <2>4
<1>6. IsList(all)
  <2> HIDE DEF groups
  <2>1. IsList(FlattenSeq(groups))
    BY <1>5, FlatIs
  <2>2. IsList(Counted(l.matched))
    BY SMTT(40), NamedIs DEF WafLine
  <2> QED  BY <2>1, <2>2, ListJoin
<1>7. PICK A, K : A = all /\ K = {i \in DOMAIN A : \A j \in 1..i - 1 : A[j] # A[i]}
  OBVIOUS
<1>8. countRules(l) = those(A, K)
  BY ZenonT(60), <1>7 DEF countRules
<1>9. IsList(A)
  BY <1>6, <1>7
<1>10. Len(A) \in Nat /\ DOMAIN A = 1..Len(A)
  BY <1>9, ListFacts
<1>11. ASSUME NEW i \in K, NEW k \in K, A[i] = A[k] PROVE i = k
  <2>1. i \in 1..Len(A) /\ k \in 1..Len(A)
    BY ZenonT(60), <1>7, <1>10
  <2>2. CASE i < k
    <3>1. i \in 1..k - 1
      BY SMTT(40), <1>10, <2>1, <2>2
    <3> QED  BY <1>7, <1>11, <3>1
  <2>3. CASE k < i
    <3>1. k \in 1..i - 1
      BY SMTT(40), <1>10, <2>1, <2>3
    <3> QED  BY <1>7, <1>11, <3>1
  <2> QED  BY SMTT(40), <1>10, <2>1, <2>2, <2>3
<1>12. K \subseteq DOMAIN A
  BY <1>7
<1>13. IsList(those(A, K)) /\ \A i, k \in DOMAIN those(A, K) : those(A, K)[i] = those(A, K)[k] => i = k
  BY <1>9, <1>11, <1>12, ThoseAre
<1> QED  BY <1>8, <1>13 DEF OneEach

\* The texts of a list are a bag, of one each if none comes twice.
LEMMA OccurrencesAre ==
  ASSUME NEW s, IsList(s)
  PROVE  /\ IsBag(Occurrences(s)) /\ DOMAIN Occurrences(s) = {s[i] : i \in DOMAIN s} \ {""}
         /\ OneEach(s) => \A r \in DOMAIN Occurrences(s) : Occurrences(s)[r] = 1
<1>1. PICK o : o = Occurrences(s)
  OBVIOUS
<1>2. DOMAIN o = {s[i] : i \in DOMAIN s} \ {""} /\ o = [r \in DOMAIN o |-> o[r]]
      /\ \A r \in DOMAIN o : o[r] = Cardinality({i \in DOMAIN s : s[i] = r})
  BY <1>1 DEF Occurrences, Range
<1>3. ASSUME NEW r \in DOMAIN o
      PROVE  /\ o[r] \in Int
             /\ OneEach(s) => o[r] = 1
  <2>1. PICK I : I = {i \in DOMAIN s : s[i] = r}
    OBVIOUS
  <2>2. I \in SUBSET DOMAIN s /\ IsFiniteSet(DOMAIN s)
    BY <2>1, ListFacts
  <2>3. Cardinality(I) \in Nat
    BY <2>2, Sizes
  <2>4. PICK i \in DOMAIN s : s[i] = r
    BY <1>2
  <2>5. OneEach(s) => I = {i}
    BY <2>1, <2>4 DEF OneEach
  <2>6. Cardinality({i}) = 1
    BY FS_Singleton
  <2>7. o[r] = Cardinality(I)
    BY <1>2, <2>1
  <2> QED  BY <2>3, <2>5, <2>6, <2>7
<1> QED  BY <1>1, <1>2, <1>3 DEF IsBag

\* The exploits of one client: how many, which, and the first of them.
ExploitIs(h, x, S) ==
  /\ h.count = Cardinality(S) /\ h.matches = Counter(x, S)
  /\ S = {} => h.first = 0
  /\ S # {} => (\E e \in S : h.first = e.time /\ h.uri = e.uri) /\ \A e \in S : h.first <= e.time
ExploitsBy(m, h, X, x, S) == KeyedBy(m, h, X, S) /\ \A k \in DOMAIN m : ExploitIs(m[k], x, Having(h, k, S))

\* A client without an exploit.
LEMMA ExploitStart == \A x : ExploitIs(NoExploit, x, {})
<1> SUFFICES ASSUME NEW x PROVE ExploitIs(NoExploit, x, {})
  OBVIOUS
<1>1. NoExploit.count = 0 /\ NoExploit.first = 0 /\ NoExploit.matches = EmptyBag
  BY DEF NoExploit
<1>2. Counter(x, {}) = EmptyBag /\ Cardinality({}) = 0
  BY CounterEmpty, FS_EmptySet
<1> QED  BY <1>1, <1>2 DEF ExploitIs

\* mergeExploit: the exploits of one client in two summaries.
LEMMA ExploitMerge ==
  ASSUME NEW x, NEW S, NEW T, IsFiniteSet(S), IsFiniteSet(T), S \cap T = {},
         \A e \in S \cup T : e.time \in Nat /\ e.time > 0,
         NEW c, ExploitIs(c, x, S), NEW d, ExploitIs(d, x, T)
  PROVE  ExploitIs(mergeExploit(c, d), x, S \cup T)
<1>1. PICK m : m = mergeExploit(c, d)
  OBVIOUS
<1>2. /\ m.count = c.count + d.count /\ m.matches = c.matches (+) d.matches
      /\ m.first = IF c.first = 0 \/ (d.first # 0 /\ d.first < c.first) THEN d.first ELSE c.first
      /\ m.uri = IF c.first = 0 \/ (d.first # 0 /\ d.first < c.first) THEN d.uri ELSE c.uri
  BY <1>1 DEF mergeExploit
<1>3. m.count = Cardinality(S \cup T)
  <2>1. Cardinality(S \cup T) = Cardinality(S) + Cardinality(T)
    BY ApartAddUp
  <2> QED  BY <1>2, <2>1 DEF ExploitIs
<1>4. m.matches = Counter(x, S \cup T)
  <2>1. c.matches = Counter(x, S) /\ d.matches = Counter(x, T)
    BY DEF ExploitIs
  <2>2. Counter(x, S) (+) Counter(x, T) = Counter(x, S \cup T)
    BY CounterUnion
  <2> QED  BY <1>2, <2>1, <2>2
<1>5. /\ S = {} => c.first = 0
      /\ S # {} => c.first \in Nat /\ c.first > 0 /\ (\E e \in S : c.first = e.time /\ c.uri = e.uri) /\ \A e \in S : c.first <= e.time
      /\ T = {} => d.first = 0
      /\ T # {} => d.first \in Nat /\ d.first > 0 /\ (\E e \in T : d.first = e.time /\ d.uri = e.uri) /\ \A e \in T : d.first <= e.time
  BY DEF ExploitIs
<1>6. S \cup T = {} => m.first = 0
  BY <1>2, <1>5
<1>7. S \cup T # {} => (\E e \in S \cup T : m.first = e.time /\ m.uri = e.uri) /\ \A e \in S \cup T : m.first <= e.time
  <2>1. CASE S = {}
    BY <1>2, <1>5, <2>1
  <2>2. CASE S # {} /\ T = {}
    BY <1>2, <1>5, <2>2
  <2>3. CASE S # {} /\ T # {}
    <3>1. CASE d.first < c.first
      BY <1>2, <1>5, <2>3, <3>1
    <3>2. CASE ~(d.first < c.first)
      BY <1>2, <1>5, <2>3, <3>2
    <3> QED  BY <3>1, <3>2
  <2> QED  BY <2>1, <2>2, <2>3
<1> QED  BY <1>1, <1>3, <1>4, <1>6, <1>7 DEF ExploitIs

\* One exploit more.
LEMMA ExploitMore ==
  ASSUME NEW x, NEW S, IsFiniteSet(S), NEW e, e \notin S, \A y \in S \cup {e} : y.time \in Nat /\ y.time > 0,
         NEW c, ExploitIs(c, x, S), NEW d, ExploitIs(d, x, {e})
  PROVE  ExploitIs(mergeExploit(c, d), x, S \cup {e})
<1>1. IsFiniteSet({e}) /\ S \cap {e} = {}
  BY FS_Singleton
<1> QED  BY <1>1, ExploitMerge

\* Maps of exploits are merged client by client.
LEMMA ExploitsMerge ==
  ASSUME NEW h, NEW X, NEW x, NEW S, NEW T, IsFiniteSet(S), IsFiniteSet(T), S \cap T = {},
         \A y \in S \cup T : y.time \in Nat /\ y.time > 0,
         NEW m, ExploitsBy(m, h, X, x, S), NEW o, ExploitsBy(o, h, X, x, T),
         NEW n, Changed(n, m, DOMAIN o), \A k \in DOMAIN o : n[k] = mergeExploit(ValueAt(m, k, NoExploit), o[k])
  PROVE  ExploitsBy(n, h, X, x, S \cup T)
<1>1. KeyedBy(m, h, X, S) /\ KeyedBy(o, h, X, T)
  BY DEF ExploitsBy
<1>2. /\ KeyedBy(n, h, X, S \cup T)
      /\ \A k \in DOMAIN n :
           /\ Having(h, k, S \cup T) = Having(h, k, S) \cup Having(h, k, T)
           /\ Having(h, k, S) \cap Having(h, k, T) = {}
           /\ k \notin DOMAIN m => Having(h, k, S) = {}
           /\ k \notin DOMAIN o => Having(h, k, T) = {} /\ k \in DOMAIN m /\ n[k] = m[k]
  BY <1>1, HavingFacts
<1>4. \A k : /\ IsFiniteSet(Having(h, k, S)) /\ Having(h, k, S) \subseteq S
            /\ IsFiniteSet(Having(h, k, T)) /\ Having(h, k, T) \subseteq T
  BY HavingFinite
<1>3. ASSUME NEW k \in DOMAIN n PROVE ExploitIs(n[k], x, Having(h, k, S \cup T))
  <2>1. PICK A, B : A = Having(h, k, S) /\ B = Having(h, k, T)
    OBVIOUS
  <2>2. CASE k \in DOMAIN o
    <3>1. ExploitIs(o[k], x, B)
      BY <2>1, <2>2 DEF ExploitsBy
    <3>2. ExploitIs(ValueAt(m, k, NoExploit), x, A)
      <4>1. CASE k \in DOMAIN m
        BY <2>1, <4>1 DEF ExploitsBy, ValueAt
      <4>2. CASE k \notin DOMAIN m
        <5>1. A = {} /\ ValueAt(m, k, NoExploit) = NoExploit
          BY <1>2, <2>1, <4>2 DEF ValueAt
        <5> QED  BY <5>1, ExploitStart
      <4> QED  BY <4>1, <4>2
    <3>3. A \cup B = Having(h, k, S \cup T) /\ A \cap B = {} /\ IsFiniteSet(A) /\ IsFiniteSet(B)
          /\ A \subseteq S /\ B \subseteq T
      BY <1>2, <1>4, <2>1
    <3>4. ExploitIs(mergeExploit(ValueAt(m, k, NoExploit), o[k]), x, A \cup B)
      BY <3>1, <3>2, <3>3, ExploitMerge
    <3> QED  BY <2>2, <3>3, <3>4
  <2>3. CASE k \notin DOMAIN o
    <3>1. k \in DOMAIN m /\ n[k] = m[k] /\ Having(h, k, S \cup T) = Having(h, k, S)
      BY <1>2, <2>3
    <3> QED  BY <3>1 DEF ExploitsBy
  <2> QED  BY <2>2, <2>3
<1> QED  BY <1>2, <1>3 DEF ExploitsBy

\* An exploit more counts for its client.
LEMMA ExploitsAdd ==
  ASSUME NEW h, NEW X, NEW x, NEW S, IsFiniteSet(S), NEW e, e \notin S,
         \A y \in S \cup {e} : y.time \in Nat /\ y.time > 0,
         NEW d, ExploitIs(d, x, {e}),
         NEW m, ExploitsBy(m, h, X, x, S), NEW n, Changed(n, m, {h[e]} \ X),
         \A k \in {h[e]} \ X : n[k] = mergeExploit(ValueAt(m, k, NoExploit), d)
  PROVE  ExploitsBy(n, h, X, x, S \cup {e})
<1>1. KeyedBy(m, h, X, S)
  BY DEF ExploitsBy
<1>2. /\ KeyedBy(n, h, X, S \cup {e})
      /\ \A k \in DOMAIN n :
           /\ k \notin DOMAIN m => Having(h, k, S) = {}
           /\ k = h[e] => Having(h, k, S \cup {e}) = Having(h, k, S) \cup {e} /\ k \in {h[e]} \ X
           /\ k # h[e] => Having(h, k, S \cup {e}) = Having(h, k, S) /\ k \in DOMAIN m /\ n[k] = m[k]
           /\ e \notin Having(h, k, S)
  BY <1>1, HavingMore
<1>3. ASSUME NEW k \in DOMAIN n PROVE ExploitIs(n[k], x, Having(h, k, S \cup {e}))
  <2>1. PICK A : A = Having(h, k, S)
    OBVIOUS
  <2>2. CASE k = h[e]
    <3>1. ExploitIs(ValueAt(m, k, NoExploit), x, A)
      <4>1. CASE k \in DOMAIN m
        BY <2>1, <4>1 DEF ExploitsBy, ValueAt
      <4>2. CASE k \notin DOMAIN m
        <5>1. A = {} /\ ValueAt(m, k, NoExploit) = NoExploit
          BY <1>2, <2>1, <4>2 DEF ValueAt
        <5> QED  BY <5>1, ExploitStart
      <4> QED  BY <4>1, <4>2
    <3>2. Having(h, k, S \cup {e}) = A \cup {e} /\ e \notin A /\ k \in {h[e]} \ X
      BY <1>2, <2>1, <2>2
    <3>3. IsFiniteSet(A) /\ A \subseteq S
      BY <2>1, HavingFinite
    <3>4. ExploitIs(mergeExploit(ValueAt(m, k, NoExploit), d), x, A \cup {e})
      BY <3>1, <3>2, <3>3, ExploitMore
    <3> QED  BY <3>2, <3>4
  <2>3. CASE k # h[e]
    <3>1. k \in DOMAIN m /\ n[k] = m[k] /\ Having(h, k, S \cup {e}) = Having(h, k, S)
      BY <1>2, <2>3
    <3> QED  BY <3>1 DEF ExploitsBy
  <2> QED  BY <2>2, <2>3
<1> QED  BY <1>2, <1>3 DEF ExploitsBy

\* All there is to say of maps of exploits.
LEMMA ExploitsRules ==
  ASSUME NEW U, IsFiniteSet(U), NEW h, NEW X, \A y \in U : y.time \in Nat /\ y.time > 0,
         NEW x, NEW one, \A e \in U : ExploitIs(one[e], x, {e})
  PROVE  /\ ExploitsBy(<<>>, h, X, x, {})
         /\ \A S \in SUBSET U, e \in U : \A m, n :
              ExploitsBy(m, h, X, x, S) /\ e \notin S /\ Changed(n, m, {h[e]} \ X)
              /\ (\A k \in {h[e]} \ X : n[k] = mergeExploit(ValueAt(m, k, NoExploit), one[e]))
                => ExploitsBy(n, h, X, x, S \cup {e})
         /\ \A S, T \in SUBSET U : \A m, o, n :
              ExploitsBy(m, h, X, x, S) /\ ExploitsBy(o, h, X, x, T) /\ S \cap T = {} /\ Changed(n, m, DOMAIN o)
              /\ (\A k \in DOMAIN o : n[k] = mergeExploit(ValueAt(m, k, NoExploit), o[k]))
                => ExploitsBy(n, h, X, x, S \cup T)
<1>0. \A S \in SUBSET U : IsFiniteSet(S)
  BY FS_Subset
<1>1. ExploitsBy(<<>>, h, X, x, {})
  BY DEF ExploitsBy, KeyedBy, KeySet
<1>2. ASSUME NEW S \in SUBSET U, NEW e \in U, NEW m, NEW n, ExploitsBy(m, h, X, x, S), e \notin S, Changed(n, m, {h[e]} \ X),
             \A k \in {h[e]} \ X : n[k] = mergeExploit(ValueAt(m, k, NoExploit), one[e])
      PROVE  ExploitsBy(n, h, X, x, S \cup {e})
  <2>1. \A y \in S \cup {e} : y.time \in Nat /\ y.time > 0
    OBVIOUS
  <2>2. PICK d : d = one[e]
    OBVIOUS
  <2>3. ExploitIs(d, x, {e}) /\ (\A k \in {h[e]} \ X : n[k] = mergeExploit(ValueAt(m, k, NoExploit), d)) /\ IsFiniteSet(S)
    BY <1>0, <1>2, <2>2
  <2> QED  BY Zenon, <1>2, <2>1, <2>3, ExploitsAdd
<1>3. ASSUME NEW S \in SUBSET U, NEW T \in SUBSET U, NEW m, NEW o, NEW n, ExploitsBy(m, h, X, x, S), ExploitsBy(o, h, X, x, T), S \cap T = {},
             Changed(n, m, DOMAIN o), \A k \in DOMAIN o : n[k] = mergeExploit(ValueAt(m, k, NoExploit), o[k])
      PROVE  ExploitsBy(n, h, X, x, S \cup T)
  <2>1. \A y \in S \cup T : y.time \in Nat /\ y.time > 0
    OBVIOUS
  <2> QED  BY Zenon, <1>0, <1>3, <2>1, ExploitsMerge
<1> QED  BY <1>1, <1>2, <1>3

\* The exploit of one request.
LEMMA ExploitOne ==
  ASSUME NEW x, NEW e, x[e] = ExploitMatch(e), e.time \in Nat
  PROVE  ExploitIs(ExploitOf(e), x, {e})
<1>1. PICK h : h = ExploitOf(e)
  OBVIOUS
<1>2. h.count = 1 /\ h.first = e.time /\ h.uri = e.uri /\ h.matches = SetToBag({x[e]})
  BY <1>1 DEF ExploitOf
<1>3. Counter(x, {e}) = SetToBag({x[e]}) /\ Cardinality({e}) = 1
  BY CounterSingle, FS_Singleton
<1> QED  BY <1>1, <1>2, <1>3 DEF ExploitIs

ipNames == {"Blocks", "Allows", "RateLimited", "ChallengeFails"}
wafListed == {"ByLabel", "ByCountRule"}
wafBags(e) == [n \in wafListed |-> Occurrences(wafLists(e)[n])]

\* The numbers of WAF requests.
LEMMA WafSumsAre ==
  ASSUME NEW U
  PROVE  Table([e \in U |-> wafSums(e)], wafTotals, U)
<1>1. ASSUME NEW e \in U PROVE DOMAIN wafSums(e) = wafTotals /\ \A n \in wafTotals : wafSums(e)[n] \in Int
  <2>1. PICK a, b : a = One(e.countRules # <<>>) /\ b = One(e.oversize)
    OBVIOUS
  <2>2. a \in Int /\ b \in Int
    BY Zenon, <2>1, Ones
  <2>3. wafSums(e) = [Total |-> 1, Counted |-> a, Oversize |-> b]
    BY <2>1, Zenon DEF wafSums
  <2> QED  BY <2>2, <2>3 DEF wafTotals
<1>2. PICK K : K = [e \in U |-> wafSums(e)]
  OBVIOUS
<1>3. DOMAIN K = U /\ \A e \in U : K[e] = wafSums(e)
  BY <1>2
<1>4. Table(K, wafTotals, U)
  BY <1>1, <1>3 DEF Table
<1> QED  BY <1>2, <1>4

\* The numbers of one client.
LEMMA IpSumsAre ==
  ASSUME NEW U
  PROVE  Table([e \in U |-> ipSums(e)], ipNames, U)
<1>1. ASSUME NEW e \in U PROVE DOMAIN ipSums(e) = ipNames /\ \A n \in ipNames : ipSums(e)[n] \in Int
  <2>1. PICK a, b, c, d : a = One(e.action = "BLOCK") /\ b = One(e.action = "ALLOW") /\ c = One(e.rateRule # "") /\ d = One(e.challengeFailed)
    OBVIOUS
  <2>2. a \in Int /\ b \in Int /\ c \in Int /\ d \in Int
    BY Zenon, <2>1, Ones
  <2>3. ipSums(e) = [Blocks |-> a, Allows |-> b, RateLimited |-> c, ChallengeFails |-> d]
    BY <2>1, Zenon DEF ipSums
  <2> QED  BY <2>2, <2>3 DEF ipNames
<1>2. PICK K : K = [e \in U |-> ipSums(e)]
  OBVIOUS
<1>3. DOMAIN K = U /\ \A e \in U : K[e] = ipSums(e)
  BY <1>2
<1>4. Table(K, ipNames, U)
  BY <1>1, <1>3 DEF Table
<1> QED  BY <1>2, <1>4

\* The lists of WAF requests.
LEMMA WafBagsAre ==
  ASSUME NEW U, \A e \in U : IsList(e.labels) /\ IsList(e.countRules)
  PROVE  Bagged([e \in U |-> wafBags(e)], wafListed, U)
<1>1. ASSUME NEW e \in U, NEW n \in wafListed PROVE IsBag(wafBags(e)[n])
  <2>1. wafBags(e)[n] = Occurrences(wafLists(e)[n])
    BY DEF wafBags
  <2>2. IsList(wafLists(e)[n])
    BY DEF wafLists, wafListed
  <2> QED  BY <2>1, <2>2, OccurrencesAre
<1>2. PICK K : K = [e \in U |-> wafBags(e)]
  OBVIOUS
<1>3. DOMAIN K = U /\ \A e \in U : K[e] = wafBags(e) /\ DOMAIN K[e] = wafListed
  BY <1>2 DEF wafBags
<1>4. Bagged(K, wafListed, U)
  BY <1>1, <1>3 DEF Bagged
<1> QED  BY <1>2, <1>4

WafRep(s, S, U) ==
  /\ SumsAre(s.sums, [e \in U |-> wafSums(e)], wafTotals, S)
  /\ KeysAre(s.by, [e \in U |-> wafKeys(e)], wafCounters, S)
  /\ SpanIs(s.span, S)
  /\ ListsAre(s.lists, [e \in U |-> wafBags(e)], wafListed, S)
  /\ CountersBy(s.ByHour, [e \in U |-> Hour[e.time]], {}, [e \in U |-> e.action], S) /\ Fn(s.ByHour)
  /\ SumsBy(s.IPs, [e \in U |-> e.client], {""}, [e \in U |-> ipSums(e)], ipNames, S) /\ Fn(s.IPs)
  /\ CountersBy(s.RateByRule, [e \in U |-> e.rateRule], {""}, [e \in U |-> e.client], S) /\ Fn(s.RateByRule)
  /\ ExploitsBy(s.Exploits, [e \in U |-> e.client], {}, [e \in U |-> ExploitMatch(e)], S \cap {e \in U : ExploitMatch(e) # ""}) /\ Fn(s.Exploits)

\* NewWAFSummary, Add and Merge keep a summary of web ACL requests that of its entries.
LEMMA WafRules ==
  ASSUME NEW U, IsFiniteSet(U), \A e \in U : e.time \in Nat /\ e.time > 0 /\ IsList(e.labels) /\ IsList(e.countRules)
  PROVE  /\ WafRep(NewWAFSummary, {}, U)
         /\ \A S \in SUBSET U, e \in U : \A s : WafRep(s, S, U) /\ e \notin S => WafRep(wafAdd(s, e), S \cup {e}, U)
         /\ \A S, T \in SUBSET U : \A s, t : WafRep(s, S, U) /\ WafRep(t, T, U) /\ S \cap T = {}
              => WafRep(wafMerge(s, t), S \cup T, U)
<1>pK. PICK K : K = [e \in U |-> wafSums(e)]
  OBVIOUS
<1>pL. PICK L : L = [e \in U |-> wafKeys(e)]
  OBVIOUS
<1>pD. PICK D : D = [e \in U |-> wafBags(e)]
  OBVIOUS
<1>ph. PICK h : h = [e \in U |-> Hour[e.time]]
  OBVIOUS
<1>pa. PICK a : a = [e \in U |-> e.action]
  OBVIOUS
<1>pc. PICK c : c = [e \in U |-> e.client]
  OBVIOUS
<1>pJ. PICK J : J = [e \in U |-> ipSums(e)]
  OBVIOUS
<1>pr. PICK r : r = [e \in U |-> e.rateRule]
  OBVIOUS
<1>pM. PICK M : M = [e \in U |-> ExploitMatch(e)]
  OBVIOUS
<1>pP. PICK P : P = {e \in U : ExploitMatch(e) # ""}
  OBVIOUS
<1>pz. PICK z : z = [e \in U |-> ExploitOf(e)]
  OBVIOUS
<1>a. /\ \A e \in U : K[e] = wafSums(e)
      /\ \A e \in U : L[e] = wafKeys(e)
      /\ \A e \in U : D[e] = wafBags(e)
      /\ \A e \in U : h[e] = Hour[e.time]
      /\ \A e \in U : a[e] = e.action
      /\ \A e \in U : c[e] = e.client
      /\ \A e \in U : J[e] = ipSums(e)
      /\ \A e \in U : r[e] = e.rateRule
      /\ \A e \in U : M[e] = ExploitMatch(e)
      /\ \A e \in U : e \in P <=> ExploitMatch(e) # ""
      /\ \A e \in U : z[e] = ExploitOf(e)
  BY <1>pK, <1>pL, <1>pD, <1>ph, <1>pa, <1>pc, <1>pJ, <1>pr, <1>pM, <1>pP, <1>pz
<1>d0. Table(K, wafTotals, U)
  BY <1>pK, <1>pL, <1>pD, <1>ph, <1>pa, <1>pc, <1>pJ, <1>pr, <1>pM, <1>pP, <1>pz, WafSumsAre
<1>d1. DOMAIN L = U
  BY <1>pK, <1>pL, <1>pD, <1>ph, <1>pa, <1>pc, <1>pJ, <1>pr, <1>pM, <1>pP, <1>pz DEF Valued
<1>d2. \A e \in U : e.time \in Nat
  BY <1>pK, <1>pL, <1>pD, <1>ph, <1>pa, <1>pc, <1>pJ, <1>pr, <1>pM, <1>pP, <1>pz DEF Valued
<1>d3. Bagged(D, wafListed, U)
  BY <1>pK, <1>pL, <1>pD, <1>ph, <1>pa, <1>pc, <1>pJ, <1>pr, <1>pM, <1>pP, <1>pz, WafBagsAre
<1>d4. DOMAIN a = U
  BY <1>pK, <1>pL, <1>pD, <1>ph, <1>pa, <1>pc, <1>pJ, <1>pr, <1>pM, <1>pP, <1>pz
<1>d5. Table(J, ipNames, U)
  BY <1>pK, <1>pL, <1>pD, <1>ph, <1>pa, <1>pc, <1>pJ, <1>pr, <1>pM, <1>pP, <1>pz, IpSumsAre
<1>d6. DOMAIN c = U
  BY <1>pK, <1>pL, <1>pD, <1>ph, <1>pa, <1>pc, <1>pJ, <1>pr, <1>pM, <1>pP, <1>pz
<1>d7. P \in SUBSET U /\ (\A x \in U : ExploitIs(z[x], M, {x})) /\ \A y \in U : y.time \in Nat /\ y.time > 0
  BY <1>pK, <1>pL, <1>pD, <1>ph, <1>pa, <1>pc, <1>pJ, <1>pr, <1>pM, <1>pP, <1>pz, ExploitOne
<1>1. /\ \A e \in U : K[e] = wafSums(e)
      /\ \A e \in U : L[e] = wafKeys(e)
      /\ \A e \in U : D[e] = wafBags(e)
      /\ \A e \in U : h[e] = Hour[e.time]
      /\ \A e \in U : a[e] = e.action
      /\ \A e \in U : c[e] = e.client
      /\ \A e \in U : J[e] = ipSums(e)
      /\ \A e \in U : r[e] = e.rateRule
      /\ \A e \in U : M[e] = ExploitMatch(e)
      /\ \A e \in U : e \in P <=> ExploitMatch(e) # ""
      /\ \A e \in U : z[e] = ExploitOf(e)
      /\ Table(K, wafTotals, U)
      /\ DOMAIN L = U
      /\ \A e \in U : e.time \in Nat
      /\ Bagged(D, wafListed, U)
      /\ DOMAIN a = U
      /\ Table(J, ipNames, U)
      /\ DOMAIN c = U
      /\ P \in SUBSET U /\ (\A x \in U : ExploitIs(z[x], M, {x})) /\ \A y \in U : y.time \in Nat /\ y.time > 0
  BY <1>a, <1>d0, <1>d1, <1>d2, <1>d3, <1>d4, <1>d5, <1>d6, <1>d7
<1>2. \A s, S : WafRep(s, S, U) <=> /\ SumsAre(s.sums, K, wafTotals, S)
                                   /\ KeysAre(s.by, L, wafCounters, S)
                                   /\ SpanIs(s.span, S)
                                   /\ ListsAre(s.lists, D, wafListed, S)
                                   /\ CountersBy(s.ByHour, h, {}, a, S) /\ Fn(s.ByHour)
                                   /\ SumsBy(s.IPs, c, {""}, J, ipNames, S) /\ Fn(s.IPs)
                                   /\ CountersBy(s.RateByRule, r, {""}, c, S) /\ Fn(s.RateByRule)
                                   /\ ExploitsBy(s.Exploits, c, {}, M, S \cap P) /\ Fn(s.Exploits)
  BY <1>pK, <1>pL, <1>pD, <1>ph, <1>pa, <1>pc, <1>pJ, <1>pr, <1>pM, <1>pP, <1>pz, Zenon DEF WafRep
<1>3. WafRep(NewWAFSummary, {}, U)
  <2>1. SumsAre(NoSums(wafTotals), K, wafTotals, {})
    BY Zenon, SumsStart
  <2>2. KeysAre(NoKeys(wafCounters), L, wafCounters, {})
    BY Zenon, KeysStart
  <2>3. SpanIs(NoSpan, {})
    BY Zenon, SpanStart
  <2>4. ListsAre(NoKeys(wafListed), D, wafListed, {})
    BY <1>1, ListsRules
  <2>5. CountersBy(<<>>, h, {}, a, {}) /\ Fn(<<>>)
    <3>1. CountersBy(<<>>, h, {}, a, {})
      BY CountersRules, <1>1
    <3> QED  BY <3>1, FnEmpty
  <2>6. SumsBy(<<>>, c, {""}, J, ipNames, {}) /\ Fn(<<>>)
    <3>1. SumsBy(<<>>, c, {""}, J, ipNames, {})
      BY SumMapsRules, <1>1
    <3> QED  BY <3>1, FnEmpty
  <2>7. CountersBy(<<>>, r, {""}, c, {}) /\ Fn(<<>>)
    <3>1. CountersBy(<<>>, r, {""}, c, {})
      BY CountersRules, <1>1
    <3> QED  BY <3>1, FnEmpty
  <2>8. ExploitsBy(<<>>, c, {}, M, {} \cap P) /\ Fn(<<>>)
    <3>1. ExploitsBy(<<>>, c, {}, M, {})
      BY ExploitsRules, <1>1
    <3> QED  BY <3>1, FnEmpty, NoneOf
  <2>r. PICK n : n = NewWAFSummary
    OBVIOUS
  <2>r1. n.sums = NoSums(wafTotals)
    BY <2>r DEF NewWAFSummary, wafListed
  <2>r2. n.by = NoKeys(wafCounters)
    BY <2>r DEF NewWAFSummary, wafListed
  <2>r3. n.span = NoSpan
    BY <2>r DEF NewWAFSummary, wafListed
  <2>r4. n.lists = NoKeys(wafListed)
    BY <2>r DEF NewWAFSummary, wafListed
  <2>r5. n.ByHour = <<>>
    BY <2>r DEF NewWAFSummary, wafListed
  <2>r6. n.IPs = <<>>
    BY <2>r DEF NewWAFSummary, wafListed
  <2>r7. n.RateByRule = <<>>
    BY <2>r DEF NewWAFSummary, wafListed
  <2>r8. n.Exploits = <<>>
    BY <2>r DEF NewWAFSummary, wafListed
  <2> QED  BY <1>2, <2>r, <2>1, <2>r1, <2>2, <2>r2, <2>3, <2>r3, <2>4, <2>r4, <2>5, <2>r5, <2>6, <2>r6, <2>7, <2>r7, <2>8, <2>r8
<1>4. ASSUME NEW S \in SUBSET U, NEW e \in U, NEW s, WafRep(s, S, U), e \notin S
      PROVE  WafRep(wafAdd(s, e), S \cup {e}, U)
  <2>0. /\ SumsAre(s.sums, K, wafTotals, S)
        /\ KeysAre(s.by, L, wafCounters, S)
        /\ SpanIs(s.span, S)
        /\ ListsAre(s.lists, D, wafListed, S)
        /\ CountersBy(s.ByHour, h, {}, a, S) /\ Fn(s.ByHour)
        /\ SumsBy(s.IPs, c, {""}, J, ipNames, S) /\ Fn(s.IPs)
        /\ CountersBy(s.RateByRule, r, {""}, c, S) /\ Fn(s.RateByRule)
        /\ ExploitsBy(s.Exploits, c, {}, M, S \cap P) /\ Fn(s.Exploits)
    BY <1>2, <1>4
  <2>r. PICK n : n = wafAdd(s, e)
    OBVIOUS
  <2>r1. n.sums = plus(s.sums, K[e])
    BY <1>1, <2>r DEF wafAdd, NoIP, ipNames
  <2>1. SumsAre(plus(s.sums, K[e]), K, wafTotals, S \cup {e})
    BY <1>1, <1>4, <2>0, SumsRules
  <2>r2. n.by = addKeys(s.by, L[e])
    BY <1>1, <2>r DEF wafAdd, NoIP, ipNames
  <2>2. KeysAre(addKeys(s.by, L[e]), L, wafCounters, S \cup {e})
    BY <1>1, <1>4, <2>0, KeysRules
  <2>r3. n.span = widen(s.span, At(e.time))
    BY <1>1, <2>r DEF wafAdd, NoIP, ipNames
  <2>3. SpanIs(widen(s.span, At(e.time)), S \cup {e})
    BY <1>1, <1>4, <2>0, SpanRules
  <2>r4. n.lists = merge(s.lists, D[e])
    <3>1. n.lists = [i \in DOMAIN s.lists |-> s.lists[i] (+) Occurrences(wafLists(e)[i])]
      BY <2>r DEF wafAdd
    <3>2. DOMAIN s.lists = wafListed
      BY <2>0 DEF ListsAre
    <3>3. \A i \in wafListed : D[e][i] = Occurrences(wafLists(e)[i])
      <4>1. D[e] = wafBags(e)
        BY <1>1
      <4>2. wafBags(e) = [i \in wafListed |-> Occurrences(wafLists(e)[i])]
        BY DEF wafBags
      <4> QED  BY <4>1, <4>2
    <3>4. [i \in DOMAIN s.lists |-> s.lists[i] (+) Occurrences(wafLists(e)[i])] = [i \in DOMAIN s.lists |-> s.lists[i] (+) D[e][i]]
      BY <3>2, <3>3
    <3> QED  BY <3>1, <3>4 DEF merge
  <2>4. ListsAre(merge(s.lists, D[e]), D, wafListed, S \cup {e})
    BY <1>1, <1>4, <2>0, ListsRules
  <2>r5. PICK N : N = {h[e]} \ {}
    OBVIOUS
  <2>s5. Changed(n.ByHour, s.ByHour, N) /\ Fn(n.ByHour) /\ \A k \in N : n.ByHour[k] = add(ValueAt(s.ByHour, k, EmptyBag), a[e])
    <3>0. N = {Hour[e.time]} /\ a[e] = e.action
      BY <1>1, <2>r5
    <3>1. n.ByHour = [k \in DOMAIN s.ByHour \cup ({Hour[e.time]}) |-> IF k \in {Hour[e.time]} THEN add(ValueAt(s.ByHour, k, EmptyBag), e.action) ELSE s.ByHour[k]]
      BY <2>r DEF wafAdd, NoIP, ipNames, into
    <3>2. n.ByHour = [k \in DOMAIN s.ByHour \cup N |-> IF k \in N THEN add(ValueAt(s.ByHour, k, EmptyBag), a[e]) ELSE s.ByHour[k]]
      BY <3>0, <3>1
    <3> QED  BY <3>2 DEF Changed, Fn
  <2>5. CountersBy(n.ByHour, h, {}, a, S \cup {e}) /\ Fn(n.ByHour)
    <3>0. CountersBy(s.ByHour, h, {}, a, S) /\ Fn(s.ByHour) /\ DOMAIN a = U
      BY <1>1, <2>0
    <3>1. Changed(n.ByHour, s.ByHour, {h[e]} \ {}) /\ \A k \in {h[e]} \ {} : n.ByHour[k] = add(ValueAt(s.ByHour, k, EmptyBag), a[e])
      BY <2>r5, <2>s5
    <3> QED  BY <1>4, <2>s5, <3>0, <3>1, CountersRules
  <2>r6. PICK N2 : N2 = {c[e]} \ {""}
    OBVIOUS
  <2>s6. Changed(n.IPs, s.IPs, N2) /\ Fn(n.IPs) /\ \A k \in N2 : n.IPs[k] = plus(ValueAt(s.IPs, k, NoSums(ipNames)), J[e])
    <3>0. N2 = {e.client} \ {""} /\ J[e] = ipSums(e)
      BY <1>1, <2>r6
    <3>1. n.IPs = [k \in DOMAIN s.IPs \cup ({e.client} \ {""}) |-> IF k \in {e.client} \ {""} THEN plus(ValueAt(s.IPs, k, NoSums(ipNames)), ipSums(e)) ELSE s.IPs[k]]
      BY <2>r DEF wafAdd, NoIP, ipNames, into
    <3>2. n.IPs = [k \in DOMAIN s.IPs \cup N2 |-> IF k \in N2 THEN plus(ValueAt(s.IPs, k, NoSums(ipNames)), J[e]) ELSE s.IPs[k]]
      BY <3>0, <3>1
    <3> QED  BY <3>2 DEF Changed, Fn
  <2>6. SumsBy(n.IPs, c, {""}, J, ipNames, S \cup {e}) /\ Fn(n.IPs)
    <3>0. SumsBy(s.IPs, c, {""}, J, ipNames, S) /\ Fn(s.IPs) /\ Table(J, ipNames, U)
      BY <1>1, <2>0
    <3>1. Changed(n.IPs, s.IPs, {c[e]} \ {""}) /\ \A k \in {c[e]} \ {""} : n.IPs[k] = plus(ValueAt(s.IPs, k, NoSums(ipNames)), J[e])
      BY <2>r6, <2>s6
    <3> QED  BY <1>4, <2>s6, <3>0, <3>1, SumMapsRules
  <2>r7. PICK N3 : N3 = {r[e]} \ {""}
    OBVIOUS
  <2>s7. Changed(n.RateByRule, s.RateByRule, N3) /\ Fn(n.RateByRule) /\ \A k \in N3 : n.RateByRule[k] = add(ValueAt(s.RateByRule, k, EmptyBag), c[e])
    <3>0. N3 = {e.rateRule} \ {""} /\ c[e] = e.client
      BY <1>1, <2>r7
    <3>1. n.RateByRule = [k \in DOMAIN s.RateByRule \cup ({e.rateRule} \ {""}) |-> IF k \in {e.rateRule} \ {""} THEN add(ValueAt(s.RateByRule, k, EmptyBag), e.client) ELSE s.RateByRule[k]]
      BY <2>r DEF wafAdd, NoIP, ipNames, into
    <3>2. n.RateByRule = [k \in DOMAIN s.RateByRule \cup N3 |-> IF k \in N3 THEN add(ValueAt(s.RateByRule, k, EmptyBag), c[e]) ELSE s.RateByRule[k]]
      BY <3>0, <3>1
    <3> QED  BY <3>2 DEF Changed, Fn
  <2>7. CountersBy(n.RateByRule, r, {""}, c, S \cup {e}) /\ Fn(n.RateByRule)
    <3>0. CountersBy(s.RateByRule, r, {""}, c, S) /\ Fn(s.RateByRule) /\ DOMAIN c = U
      BY <1>1, <2>0
    <3>1. Changed(n.RateByRule, s.RateByRule, {r[e]} \ {""}) /\ \A k \in {r[e]} \ {""} : n.RateByRule[k] = add(ValueAt(s.RateByRule, k, EmptyBag), c[e])
      BY <2>r7, <2>s7
    <3> QED  BY <1>4, <2>s7, <3>0, <3>1, CountersRules
  <2>r8. PICK N4 : N4 = IF e \in P THEN {c[e]} \ {} ELSE {}
    OBVIOUS
  <2>s8. Changed(n.Exploits, s.Exploits, N4) /\ Fn(n.Exploits) /\ \A k \in N4 : n.Exploits[k] = mergeExploit(ValueAt(s.Exploits, k, NoExploit), z[e])
    <3>0. N4 = (IF ExploitMatch(e) # "" THEN {e.client} ELSE {}) /\ z[e] = ExploitOf(e)
      BY <1>1, <2>r8
    <3>1. n.Exploits = [k \in DOMAIN s.Exploits \cup ((IF ExploitMatch(e) # "" THEN {e.client} ELSE {})) |-> IF k \in (IF ExploitMatch(e) # "" THEN {e.client} ELSE {}) THEN mergeExploit(ValueAt(s.Exploits, k, NoExploit), ExploitOf(e)) ELSE s.Exploits[k]]
      BY <2>r DEF wafAdd, NoIP, ipNames, into
    <3>2. n.Exploits = [k \in DOMAIN s.Exploits \cup N4 |-> IF k \in N4 THEN mergeExploit(ValueAt(s.Exploits, k, NoExploit), z[e]) ELSE s.Exploits[k]]
      BY <3>0, <3>1
    <3> QED  BY <3>2 DEF Changed, Fn
  <2>8. ExploitsBy(n.Exploits, c, {}, M, (S \cup {e}) \cap P) /\ Fn(n.Exploits)
    <3>1. CASE e \in P
      <4>1. (S \cup {e}) \cap P = (S \cap P) \cup {e} /\ e \notin S \cap P /\ S \cap P \in SUBSET U
        BY <1>4, <3>1
      <4>2. PICK A : A = S \cap P
        OBVIOUS
      <4>0. ExploitsBy(s.Exploits, c, {}, M, A) /\ P \in SUBSET U /\ (\A x \in U : ExploitIs(z[x], M, {x})) /\ \A y \in U : y.time \in Nat /\ y.time > 0
        BY <1>1, <2>0, <4>2
      <4>5. Changed(n.Exploits, s.Exploits, {c[e]} \ {}) /\ \A k \in {c[e]} \ {} : n.Exploits[k] = mergeExploit(ValueAt(s.Exploits, k, NoExploit), z[e])
        BY <2>r8, <2>s8, <3>1
      <4>6. A \in SUBSET U /\ e \notin A
        BY <4>1, <4>2
      <4>3. ExploitsBy(n.Exploits, c, {}, M, A \cup {e})
        BY <4>0, <4>5, <4>6, ExploitsRules
      <4> QED  BY <2>s8, <4>1, <4>2, <4>3
    <3>2. CASE e \notin P
      <4>1. (S \cup {e}) \cap P = S \cap P
        BY <3>2
      <4>2. N4 = {}
        BY <2>r8, <3>2
      <4> QED  BY <2>0, <2>s8, <4>1, <4>2 DEF ExploitsBy, KeyedBy, Changed
    <3> QED  BY <3>1, <3>2
  <2> QED  BY <1>2, <2>r, <2>1, <2>r1, <2>2, <2>r2, <2>3, <2>r3, <2>4, <2>r4, <2>5, <2>r5, <2>6, <2>r6, <2>7, <2>r7, <2>8, <2>r8
<1>5. ASSUME NEW S \in SUBSET U, NEW T \in SUBSET U, NEW s, NEW t, WafRep(s, S, U), WafRep(t, T, U), S \cap T = {}
      PROVE  WafRep(wafMerge(s, t), S \cup T, U)
  <2>0. /\ SumsAre(s.sums, K, wafTotals, S) /\ SumsAre(t.sums, K, wafTotals, T)
        /\ KeysAre(s.by, L, wafCounters, S) /\ KeysAre(t.by, L, wafCounters, T)
        /\ SpanIs(s.span, S) /\ SpanIs(t.span, T)
        /\ ListsAre(s.lists, D, wafListed, S) /\ ListsAre(t.lists, D, wafListed, T)
        /\ CountersBy(s.ByHour, h, {}, a, S) /\ Fn(s.ByHour) /\ CountersBy(t.ByHour, h, {}, a, T) /\ Fn(t.ByHour)
        /\ SumsBy(s.IPs, c, {""}, J, ipNames, S) /\ Fn(s.IPs) /\ SumsBy(t.IPs, c, {""}, J, ipNames, T) /\ Fn(t.IPs)
        /\ CountersBy(s.RateByRule, r, {""}, c, S) /\ Fn(s.RateByRule) /\ CountersBy(t.RateByRule, r, {""}, c, T) /\ Fn(t.RateByRule)
        /\ ExploitsBy(s.Exploits, c, {}, M, S \cap P) /\ Fn(s.Exploits) /\ ExploitsBy(t.Exploits, c, {}, M, T \cap P) /\ Fn(t.Exploits)
    BY <1>2, <1>5
  <2>r. PICK n : n = wafMerge(s, t)
    OBVIOUS
  <2>r1. n.sums = plus(s.sums, t.sums)
    BY <1>1, <2>r DEF wafMerge, NoIP, ipNames
  <2>1. SumsAre(plus(s.sums, t.sums), K, wafTotals, S \cup T)
    BY <1>1, <1>5, <2>0, SumsRules
  <2>r2. n.by = merge(s.by, t.by)
    BY <1>1, <2>r DEF wafMerge, NoIP, ipNames
  <2>2. KeysAre(merge(s.by, t.by), L, wafCounters, S \cup T)
    BY <1>1, <1>5, <2>0, KeysRules
  <2>r3. n.span = widen(s.span, t.span)
    BY <1>1, <2>r DEF wafMerge, NoIP, ipNames
  <2>3. SpanIs(widen(s.span, t.span), S \cup T)
    BY <1>1, <1>5, <2>0, SpanRules
  <2>r4. n.lists = merge(s.lists, t.lists)
    BY <1>1, <2>r DEF wafMerge, NoIP, ipNames
  <2>4. ListsAre(merge(s.lists, t.lists), D, wafListed, S \cup T)
    BY <1>1, <1>5, <2>0, ListsRules
  <2>r5. Changed(n.ByHour, s.ByHour, DOMAIN t.ByHour) /\ Fn(n.ByHour) /\ \A k \in DOMAIN t.ByHour : n.ByHour[k] = ValueAt(s.ByHour, k, EmptyBag) (+) t.ByHour[k]
    <3>1. n.ByHour = into(s.ByHour, DOMAIN t.ByHour, LAMBDA x, y : x (+) t.ByHour[y], EmptyBag)
      BY <2>r DEF wafMerge, NoIP, ipNames, mergeMaps
    <3> QED  BY <3>1 DEF into, Changed, Fn
  <2>5. CountersBy(n.ByHour, h, {}, a, S \cup T) /\ Fn(n.ByHour)
    <3>0. CountersBy(s.ByHour, h, {}, a, S) /\ Fn(s.ByHour) /\ CountersBy(t.ByHour, h, {}, a, T) /\ Fn(t.ByHour) /\ DOMAIN a = U
      BY <1>1, <2>0
    <3> QED  BY <1>5, <2>r5, <3>0, CountersRules
  <2>r6. Changed(n.IPs, s.IPs, DOMAIN t.IPs) /\ Fn(n.IPs) /\ \A k \in DOMAIN t.IPs : n.IPs[k] = plus(ValueAt(s.IPs, k, NoSums(ipNames)), t.IPs[k])
    <3>1. n.IPs = into(s.IPs, DOMAIN t.IPs, LAMBDA x, y : plus(x, t.IPs[y]), NoSums(ipNames))
      BY <2>r DEF wafMerge, NoIP, ipNames, mergeMaps
    <3> QED  BY <3>1 DEF into, Changed, Fn
  <2>6. SumsBy(n.IPs, c, {""}, J, ipNames, S \cup T) /\ Fn(n.IPs)
    <3>0. SumsBy(s.IPs, c, {""}, J, ipNames, S) /\ Fn(s.IPs) /\ SumsBy(t.IPs, c, {""}, J, ipNames, T) /\ Fn(t.IPs) /\ Table(J, ipNames, U)
      BY <1>1, <2>0
    <3> QED  BY <1>5, <2>r6, <3>0, SumMapsRules
  <2>r7. Changed(n.RateByRule, s.RateByRule, DOMAIN t.RateByRule) /\ Fn(n.RateByRule) /\ \A k \in DOMAIN t.RateByRule : n.RateByRule[k] = ValueAt(s.RateByRule, k, EmptyBag) (+) t.RateByRule[k]
    <3>1. n.RateByRule = into(s.RateByRule, DOMAIN t.RateByRule, LAMBDA x, y : x (+) t.RateByRule[y], EmptyBag)
      BY <2>r DEF wafMerge, NoIP, ipNames, mergeMaps
    <3> QED  BY <3>1 DEF into, Changed, Fn
  <2>7. CountersBy(n.RateByRule, r, {""}, c, S \cup T) /\ Fn(n.RateByRule)
    <3>0. CountersBy(s.RateByRule, r, {""}, c, S) /\ Fn(s.RateByRule) /\ CountersBy(t.RateByRule, r, {""}, c, T) /\ Fn(t.RateByRule) /\ DOMAIN c = U
      BY <1>1, <2>0
    <3> QED  BY <1>5, <2>r7, <3>0, CountersRules
  <2>r8. Changed(n.Exploits, s.Exploits, DOMAIN t.Exploits) /\ Fn(n.Exploits) /\ \A k \in DOMAIN t.Exploits : n.Exploits[k] = mergeExploit(ValueAt(s.Exploits, k, NoExploit), t.Exploits[k])
    <3>1. n.Exploits = into(s.Exploits, DOMAIN t.Exploits, LAMBDA x, y : mergeExploit(x, t.Exploits[y]), NoExploit)
      BY <2>r DEF wafMerge, NoIP, ipNames, mergeMaps
    <3> QED  BY <3>1 DEF into, Changed, Fn
  <2>8. ExploitsBy(n.Exploits, c, {}, M, (S \cup T) \cap P) /\ Fn(n.Exploits)
    <3>1. PICK A, B : A = S \cap P /\ B = T \cap P
      OBVIOUS
    <3>2. A \in SUBSET U /\ B \in SUBSET U /\ A \cap B = {} /\ (S \cup T) \cap P = A \cup B
      BY <1>5, <3>1
    <3>0. ExploitsBy(s.Exploits, c, {}, M, A) /\ ExploitsBy(t.Exploits, c, {}, M, B) /\ P \in SUBSET U /\ (\A x \in U : ExploitIs(z[x], M, {x})) /\ \A y \in U : y.time \in Nat /\ y.time > 0
      BY <1>1, <2>0, <3>1
    <3>3. ExploitsBy(n.Exploits, c, {}, M, A \cup B)
      BY <2>r8, <3>0, <3>2, ExploitsRules
    <3> QED  BY <2>r8, <3>2, <3>3
  <2> QED  BY <1>2, <2>r, <2>1, <2>r1, <2>2, <2>r2, <2>3, <2>r3, <2>4, <2>r4, <2>5, <2>r5, <2>6, <2>r6, <2>7, <2>r7, <2>8, <2>r8
<1> QED  BY <1>3, <1>4, <1>5

\* Such a summary of web ACL requests is the one the result is to hold.
LEMMA WafEnd ==
  ASSUME NEW U, IsFiniteSet(U), \A e \in U : e.time \in Nat /\ e.time > 0 /\ IsList(e.labels) /\ IsList(e.countRules),
         NEW S \in SUBSET U, NEW s, WafRep(s, S, U)
  PROVE  WafIsOf(s, S)
<1>pK. PICK K : K = [e \in U |-> wafSums(e)]
  OBVIOUS
<1>pL. PICK L : L = [e \in U |-> wafKeys(e)]
  OBVIOUS
<1>pD. PICK D : D = [e \in U |-> wafBags(e)]
  OBVIOUS
<1>ph. PICK h : h = [e \in U |-> Hour[e.time]]
  OBVIOUS
<1>pa. PICK a : a = [e \in U |-> e.action]
  OBVIOUS
<1>pc. PICK c : c = [e \in U |-> e.client]
  OBVIOUS
<1>pJ. PICK J : J = [e \in U |-> ipSums(e)]
  OBVIOUS
<1>pr. PICK r : r = [e \in U |-> e.rateRule]
  OBVIOUS
<1>pM. PICK M : M = [e \in U |-> ExploitMatch(e)]
  OBVIOUS
<1>pP. PICK P : P = {e \in U : ExploitMatch(e) # ""}
  OBVIOUS
<1>pz. PICK z : z = [e \in U |-> ExploitOf(e)]
  OBVIOUS
<1>a. /\ \A e \in U : K[e] = wafSums(e)
      /\ \A e \in U : L[e] = wafKeys(e)
      /\ \A e \in U : D[e] = wafBags(e)
      /\ \A e \in U : h[e] = Hour[e.time]
      /\ \A e \in U : a[e] = e.action
      /\ \A e \in U : c[e] = e.client
      /\ \A e \in U : J[e] = ipSums(e)
      /\ \A e \in U : r[e] = e.rateRule
      /\ \A e \in U : M[e] = ExploitMatch(e)
      /\ \A e \in U : e \in P <=> ExploitMatch(e) # ""
      /\ \A e \in U : z[e] = ExploitOf(e)
  BY <1>pK, <1>pL, <1>pD, <1>ph, <1>pa, <1>pc, <1>pJ, <1>pr, <1>pM, <1>pP, <1>pz
<1>d0. Table(K, wafTotals, U)
  BY <1>pK, <1>pL, <1>pD, <1>ph, <1>pa, <1>pc, <1>pJ, <1>pr, <1>pM, <1>pP, <1>pz, WafSumsAre
<1>d1. DOMAIN L = U
  BY <1>pK, <1>pL, <1>pD, <1>ph, <1>pa, <1>pc, <1>pJ, <1>pr, <1>pM, <1>pP, <1>pz DEF Valued
<1>d2. \A e \in U : e.time \in Nat
  BY <1>pK, <1>pL, <1>pD, <1>ph, <1>pa, <1>pc, <1>pJ, <1>pr, <1>pM, <1>pP, <1>pz DEF Valued
<1>d3. Bagged(D, wafListed, U)
  BY <1>pK, <1>pL, <1>pD, <1>ph, <1>pa, <1>pc, <1>pJ, <1>pr, <1>pM, <1>pP, <1>pz, WafBagsAre
<1>d4. DOMAIN a = U
  BY <1>pK, <1>pL, <1>pD, <1>ph, <1>pa, <1>pc, <1>pJ, <1>pr, <1>pM, <1>pP, <1>pz
<1>d5. Table(J, ipNames, U)
  BY <1>pK, <1>pL, <1>pD, <1>ph, <1>pa, <1>pc, <1>pJ, <1>pr, <1>pM, <1>pP, <1>pz, IpSumsAre
<1>d6. DOMAIN c = U
  BY <1>pK, <1>pL, <1>pD, <1>ph, <1>pa, <1>pc, <1>pJ, <1>pr, <1>pM, <1>pP, <1>pz
<1>d7. P \in SUBSET U /\ (\A e \in U : ExploitIs(z[e], M, {e})) /\ \A y \in U : y.time \in Nat /\ y.time > 0
  BY <1>pK, <1>pL, <1>pD, <1>ph, <1>pa, <1>pc, <1>pJ, <1>pr, <1>pM, <1>pP, <1>pz, ExploitOne
<1>1. /\ \A e \in U : K[e] = wafSums(e)
      /\ \A e \in U : L[e] = wafKeys(e)
      /\ \A e \in U : D[e] = wafBags(e)
      /\ \A e \in U : h[e] = Hour[e.time]
      /\ \A e \in U : a[e] = e.action
      /\ \A e \in U : c[e] = e.client
      /\ \A e \in U : J[e] = ipSums(e)
      /\ \A e \in U : r[e] = e.rateRule
      /\ \A e \in U : M[e] = ExploitMatch(e)
      /\ \A e \in U : e \in P <=> ExploitMatch(e) # ""
      /\ \A e \in U : z[e] = ExploitOf(e)
      /\ Table(K, wafTotals, U)
      /\ DOMAIN L = U
      /\ \A e \in U : e.time \in Nat
      /\ Bagged(D, wafListed, U)
      /\ DOMAIN a = U
      /\ Table(J, ipNames, U)
      /\ DOMAIN c = U
      /\ P \in SUBSET U /\ (\A e \in U : ExploitIs(z[e], M, {e})) /\ \A y \in U : y.time \in Nat /\ y.time > 0
  BY <1>a, <1>d0, <1>d1, <1>d2, <1>d3, <1>d4, <1>d5, <1>d6, <1>d7
<1>2. WafRep(s, S, U) <=> /\ SumsAre(s.sums, K, wafTotals, S)
                         /\ KeysAre(s.by, L, wafCounters, S)
                         /\ SpanIs(s.span, S)
                         /\ ListsAre(s.lists, D, wafListed, S)
                         /\ CountersBy(s.ByHour, h, {}, a, S) /\ Fn(s.ByHour)
                         /\ SumsBy(s.IPs, c, {""}, J, ipNames, S) /\ Fn(s.IPs)
                         /\ CountersBy(s.RateByRule, r, {""}, c, S) /\ Fn(s.RateByRule)
                         /\ ExploitsBy(s.Exploits, c, {}, M, S \cap P) /\ Fn(s.Exploits)
  BY <1>pK, <1>pL, <1>pD, <1>ph, <1>pa, <1>pc, <1>pJ, <1>pr, <1>pM, <1>pP, <1>pz, Zenon DEF WafRep
<1>3. IsFiniteSet(S) /\ \A e \in S : e \in U
  BY FS_Subset
<1>4. /\ SumsAre(s.sums, K, wafTotals, S)
      /\ KeysAre(s.by, L, wafCounters, S)
      /\ SpanIs(s.span, S)
      /\ ListsAre(s.lists, D, wafListed, S)
      /\ CountersBy(s.ByHour, h, {}, a, S) /\ Fn(s.ByHour)
      /\ SumsBy(s.IPs, c, {""}, J, ipNames, S) /\ Fn(s.IPs)
      /\ CountersBy(s.RateByRule, r, {""}, c, S) /\ Fn(s.RateByRule)
      /\ ExploitsBy(s.Exploits, c, {}, M, S \cap P) /\ Fn(s.Exploits)
  BY <1>2
<1>5. \A n \in wafTotals : s.sums[n] = SumOf(S, LAMBDA e : wafSums(e)[n])
  <2>0. Table(K, wafTotals, U) /\ SumsAre(s.sums, K, wafTotals, S) /\ \A e \in S : K[e] = wafSums(e)
    BY <1>1, <1>3, <1>4
  <2>1. TotalsAre(s.sums, K, wafTotals, S)
    BY <2>0, SumsEnd
  <2>2. \A n : [e \in S |-> K[e][n]] = [e \in S |-> wafSums(e)[n]]
    BY <2>0
  <2> QED  BY <2>1, <2>2 DEF SumOf, Total, TotalsAre
<1>6. ASSUME NEW n \in wafCounters PROVE s.by[n] = CountKeys(S, LAMBDA e : wafKeys(e)[n])
  <2>0. DOMAIN L = U /\ KeysAre(s.by, L, wafCounters, S) /\ \A e \in S : L[e] = wafKeys(e)
    BY <1>1, <1>3, <1>4
  <2>1. s.by[n] = Keys(L, n, S)
    BY <2>0, KeysEnd
  <2>2. PICK T : T = {x \in S : L[x][n] # ""}
    OBVIOUS
  <2>3. T = {x \in S : wafKeys(x)[n] # ""} /\ {L[e][n] : e \in T} = {wafKeys(e)[n] : e \in T}
    BY <2>0, <2>2
  <2>4. \A k : {e \in T : L[e][n] = k} = {e \in T : wafKeys(e)[n] = k}
    BY <2>0, <2>2
  <2>5. Keys(L, n, S) = [k \in {wafKeys(e)[n] : e \in T} |-> Cardinality({e \in T : wafKeys(e)[n] = k})]
    BY <2>2, <2>3, <2>4 DEF Keys
  <2> QED  BY <2>1, <2>3, <2>5 DEF CountKeys, CountAll
<1>7. s.span = SpanOf(S)
  <2>1. s.span = SpanOf(Timed(S))
    BY <1>1, <1>3, <1>4, SpanEnd
  <2>2. Timed(S) = S
    BY DEF Timed
  <2> QED  BY <2>1, <2>2
<1>20. ASSUME NEW n \in DOMAIN s.lists
      PROVE  s.lists[n] = [q \in (UNION {Range(wafLists(e)[n]) : e \in S}) \ {""} |->
                             SumOf(S, LAMBDA e : CountOf(Occurrences(wafLists(e)[n]), q))]
  <2>1. Bagged(D, wafListed, U) /\ ListsAre(s.lists, D, wafListed, S) /\ \A e \in S : D[e] = wafBags(e)
    BY <1>1, <1>3, <1>4
  <2>2. n \in wafListed /\ s.lists[n] = BagTotal(D, n, S)
    <3>1. PICK f : f = s.lists
      OBVIOUS
    <3>2. Bagged(D, wafListed, U) /\ ListsAre(f, D, wafListed, S) /\ n \in DOMAIN f
      BY <2>1, <3>1
    <3>3. DOMAIN f = wafListed /\ \A i \in wafListed : f[i] = BagTotal(D, i, S)
      BY <3>2, ListsEnd
    <3> QED  BY <3>1, <3>2, <3>3
  <2>3. \A e \in S : D[e][n] = Occurrences(wafLists(e)[n])
    BY <2>1, <2>2 DEF wafBags
  <2>4. \A e \in S : DOMAIN D[e][n] = Range(wafLists(e)[n]) \ {""}
    BY <2>3 DEF Occurrences
  <2>5. UNION {DOMAIN D[e][n] : e \in S} = (UNION {Range(wafLists(e)[n]) : e \in S}) \ {""}
    <3>1. \A x : x \in UNION {DOMAIN D[e][n] : e \in S} <=> \E e \in S : x \in DOMAIN D[e][n]
      OBVIOUS
    <3>2. \A x : x \in UNION {Range(wafLists(e)[n]) : e \in S} <=> \E e \in S : x \in Range(wafLists(e)[n])
      OBVIOUS
    <3>3. ASSUME NEW x PROVE (\E e \in S : x \in DOMAIN D[e][n]) <=> (\E e \in S : x \in Range(wafLists(e)[n])) /\ x # ""
      BY <2>4
    <3>4. PICK V, W : V = UNION {DOMAIN D[e][n] : e \in S} /\ W = UNION {Range(wafLists(e)[n]) : e \in S}
      OBVIOUS
    <3>5. \A x : x \in V <=> x \in W /\ x # ""
      BY <3>1, <3>2, <3>3, <3>4
    <3>6. V = W \ {""}
      BY <3>5
    <3> QED  BY <3>4, <3>6
  <2>6. \A q : [e \in S |-> CountOf(D[e][n], q)] = [e \in S |-> CountOf(Occurrences(wafLists(e)[n]), q)]
    BY <2>3
  <2> QED  BY <2>2, <2>5, <2>6 DEF BagTotal, SumOf
<1>21. s.ByHour = [k \in {Hour[e.time] : e \in S} |-> CountKeys({e \in S : Hour[e.time] = k}, LAMBDA e : e.action)]
  <2>1. PICK m : m = s.ByHour
    OBVIOUS
  <2>2. CountersBy(m, h, {}, a, S) /\ Fn(m)
    BY <1>4, <2>1
  <2>3. \A e \in S : h[e] = Hour[e.time] /\ a[e] = e.action
    BY <1>1
  <2>4. DOMAIN m = {Hour[e.time] : e \in S}
    <3>1. {h[e] : e \in S} = {Hour[e.time] : e \in S}
      BY <2>3
    <3> QED  BY <2>2, <3>1 DEF CountersBy, KeyedBy, KeySet
  <2>5. ASSUME NEW k \in DOMAIN m PROVE m[k] = CountKeys({e \in S : Hour[e.time] = k}, LAMBDA e : e.action)
    <3>1. PICK T : T = {e \in {x \in S : Hour[x.time] = k} : e.action # ""}
      OBVIOUS
    <3>2. Keyed(a, Having(h, k, S)) = T
      BY <2>3, <3>1 DEF Keyed, Having
    <3>3. m[k] = Counter(a, T)
      BY <2>2, <3>2 DEF CountersBy
    <3>4. \A e \in T : e \in S /\ a[e] = e.action
      BY <2>3, <3>1
    <3>5. {a[e] : e \in T} = {e.action : e \in T} /\ \A q : {e \in T : a[e] = q} = {e \in T : e.action = q}
      BY <3>4
    <3>6. m[k] = [q \in {e.action : e \in T} |-> Cardinality({e \in T : e.action = q})]
      BY <3>3, <3>5 DEF Counter
    <3> QED  BY <3>1, <3>6 DEF CountKeys, CountAll
  <2>6. m = [k \in DOMAIN m |-> m[k]]
    BY <2>2 DEF Fn
  <2> QED  BY <2>1, <2>4, <2>5, <2>6
<1>22. /\ DOMAIN s.IPs = {e.client : e \in S} \ {""}
       /\ \A k \in DOMAIN s.IPs, n \in DOMAIN NoIP : s.IPs[k][n] = SumOf({e \in S : e.client = k}, LAMBDA e : ipSums(e)[n])
  <2>1. PICK m : m = s.IPs
    OBVIOUS
  <2>2. SumsBy(m, c, {""}, J, ipNames, S) /\ Table(J, ipNames, U)
    BY <1>1, <1>4, <2>1
  <2>3. \A e \in S : c[e] = e.client /\ J[e] = ipSums(e)
    BY <1>1
  <2>4. DOMAIN m = {e.client : e \in S} \ {""}
    <3>1. {c[e] : e \in S} = {e.client : e \in S}
      BY <2>3
    <3> QED  BY <2>2, <3>1 DEF SumsBy, KeyedBy, KeySet
  <2>5. DOMAIN NoIP = ipNames
    BY DEF NoIP, ipNames, NoSums
  <2>6. ASSUME NEW k \in DOMAIN m, NEW n \in ipNames PROVE m[k][n] = SumOf({e \in S : e.client = k}, LAMBDA e : ipSums(e)[n])
    <3>1. PICK T : T = {e \in S : e.client = k}
      OBVIOUS
    <3>2. Having(c, k, S) = T /\ T \in SUBSET U
      BY <2>3, <3>1 DEF Having
    <3>3. SumsAre(m[k], J, ipNames, T)
      BY <2>2, <3>2 DEF SumsBy
    <3>4. TotalsAre(m[k], J, ipNames, T)
      BY <2>2, <3>2, <3>3, SumsEnd
    <3>5. [e \in T |-> J[e][n]] = [e \in T |-> ipSums(e)[n]]
      BY <2>3, <3>1
    <3> QED  BY <3>1, <3>4, <3>5 DEF SumOf, Total, TotalsAre
  <2> QED  BY <2>1, <2>4, <2>5, <2>6
<1>23. s.RateByRule = [k \in {e.rateRule : e \in S} \ {""} |-> CountKeys({e \in S : e.rateRule = k}, LAMBDA e : e.client)]
  <2>1. PICK m : m = s.RateByRule
    OBVIOUS
  <2>2. CountersBy(m, r, {""}, c, S) /\ Fn(m)
    BY <1>4, <2>1
  <2>3. \A e \in S : r[e] = e.rateRule /\ c[e] = e.client
    BY <1>1
  <2>4. DOMAIN m = {e.rateRule : e \in S} \ {""}
    <3>1. {r[e] : e \in S} = {e.rateRule : e \in S}
      BY <2>3
    <3> QED  BY <2>2, <3>1 DEF CountersBy, KeyedBy, KeySet
  <2>5. ASSUME NEW k \in DOMAIN m PROVE m[k] = CountKeys({e \in S : e.rateRule = k}, LAMBDA e : e.client)
    <3>1. PICK T : T = {e \in {x \in S : x.rateRule = k} : e.client # ""}
      OBVIOUS
    <3>2. Keyed(c, Having(r, k, S)) = T
      BY <2>3, <3>1 DEF Keyed, Having
    <3>3. m[k] = Counter(c, T)
      BY <2>2, <3>2 DEF CountersBy
    <3>4. \A e \in T : e \in S /\ c[e] = e.client
      BY <2>3, <3>1
    <3>5. {c[e] : e \in T} = {e.client : e \in T} /\ \A q : {e \in T : c[e] = q} = {e \in T : e.client = q}
      BY <3>4
    <3>6. m[k] = [q \in {e.client : e \in T} |-> Cardinality({e \in T : e.client = q})]
      BY <3>3, <3>5 DEF Counter
    <3> QED  BY <3>1, <3>6 DEF CountKeys, CountAll
  <2>6. m = [k \in DOMAIN m |-> m[k]]
    BY <2>2 DEF Fn
  <2> QED  BY <2>1, <2>4, <2>5, <2>6
<1>24. DOMAIN s.Exploits = {e.client : e \in {x \in S : ExploitMatch(x) # ""}}
  <2>1. ExploitsBy(s.Exploits, c, {}, M, S \cap P)
    BY <1>4
  <2>2. S \cap P = {x \in S : ExploitMatch(x) # ""}
    BY <1>1
  <2>3. {c[e] : e \in S \cap P} = {e.client : e \in S \cap P}
    <3>1. \A e \in S \cap P : c[e] = e.client
      BY <1>1
    <3> QED  BY <3>1
  <2>4. DOMAIN s.Exploits = {e.client : e \in S \cap P}
    BY <2>1, <2>3 DEF ExploitsBy, KeyedBy, KeySet
  <2> QED  BY <2>2, <2>4
<1>25. ASSUME NEW ip \in DOMAIN s.Exploits, NEW Y, Y = {e \in S : ExploitMatch(e) # ""} \cap {e \in S : e.client = ip}
       PROVE  /\ s.Exploits[ip].count = Cardinality(Y) /\ s.Exploits[ip].matches = CountKeys(Y, ExploitMatch)
              /\ s.Exploits[ip].first = SpanOf(Y).first
              /\ \E e \in Y : e.time = s.Exploits[ip].first /\ e.uri = s.Exploits[ip].uri
  <2>1. PICK d : d = s.Exploits[ip]
    OBVIOUS
  <2>2. Having(c, ip, S \cap P) = Y
    BY <1>1, <1>25 DEF Having
  <2>3. ExploitIs(d, M, Y)
    BY <1>4, <2>1, <2>2 DEF ExploitsBy
  <2>4. Y # {}
    BY <1>24, <1>25
  <2>5. \A e \in Y : e \in S /\ e \in U /\ M[e] = ExploitMatch(e) /\ M[e] # "" /\ e.time \in Nat /\ e.time > 0
    BY <1>1, <1>25
  <2>6. d.matches = CountKeys(Y, ExploitMatch)
    <3>1. Y = {e \in Y : ExploitMatch(e) # ""}
      BY <2>5
    <3>2. {M[e] : e \in Y} = {ExploitMatch(e) : e \in Y} /\ \A q : {e \in Y : M[e] = q} = {e \in Y : ExploitMatch(e) = q}
      BY <2>5
    <3>3. d.matches = [q \in {ExploitMatch(e) : e \in Y} |-> Cardinality({e \in Y : ExploitMatch(e) = q})]
      BY ZenonT(60), <2>3, <3>2 DEF ExploitIs, Counter
    <3> QED  BY <3>1, <3>3 DEF CountKeys, CountAll
  <2>7. (\E e \in Y : d.first = e.time /\ d.uri = e.uri) /\ \A e \in Y : d.first <= e.time
    BY <2>3, <2>4 DEF ExploitIs
  <2>8. d.first = SpanOf(Y).first
    <3>1. PICK Q : Q = {e.time : e \in Y}
      OBVIOUS
    <3>4. d.first \in Q /\ \A y \in Q : d.first <= y
      BY <2>7, <3>1
    <3>2. Q \in SUBSET Int /\ d.first \in Q /\ \A y \in Q : d.first <= y
      <4>1. \A e \in Y : e.time \in Nat
        BY Zenon, <2>5
      <4>2. \A q \in Q : q \in Nat
        BY Zenon, <3>1, <4>1
      <4>3. Q \in SUBSET Int
        BY <4>2
      <4> QED  BY <3>4, <4>3
    <3>3. Min(Q) = d.first
      BY <3>2, MinMaxAre
    <3> QED  BY <2>4, <3>1, <3>3 DEF SpanOf
  <2> QED  BY <2>1, <2>3, <2>6, <2>7, <2>8 DEF ExploitIs
<1>26. \A ip \in DOMAIN s.Exploits :
           LET Y == {e \in S : ExploitMatch(e) # ""} \cap {e \in S : e.client = ip}  d == s.Exploits[ip] IN
             /\ d.count = Cardinality(Y) /\ d.matches = CountKeys(Y, ExploitMatch)
             /\ d.first = SpanOf(Y).first
             /\ \E e \in Y : e.time = d.first /\ e.uri = d.uri
  BY <1>25
<1> QED  BY <1>5, <1>6, <1>7, <1>20, <1>21, <1>22, <1>23, <1>24, <1>26 DEF WafIsOf

-----------------------------------------------------------------------------
(*****************************************************************************)
(* Capped counters. What a counter has no room for goes into one key for     *)
(* the others; which keys these are depends on the order of additions and    *)
(* merges.                                                                   *)
(*****************************************************************************)

\* A sum of what is not negative is not.
LEMMA SumNat ==
  ASSUME NEW D, IsFiniteSet(D), NEW f, \A x \in D : f[x] \in Nat
  PROVE  Sum(f, D) \in Nat
<1> DEFINE P == {S \in SUBSET D : Sum(f, S) \in Nat}
<1>1. {} \in P
  <2>1. Sum(f, {}) = 0
    BY SumEmpty
  <2> QED  BY <2>1
<1>2. ASSUME NEW S \in SUBSET D, NEW x \in D, S \in P, x \notin S PROVE S \cup {x} \in P
  <2>1. \A y \in D : f[y] \in Int
    OBVIOUS
  <2>2. Sum(f, S \cup {x}) = Sum(f, S) + f[x]
    BY <1>2, <2>1, SumAdd
  <2>3. Sum(f, S) \in Nat /\ f[x] \in Nat
    BY <1>2
  <2> QED  BY <2>2, <2>3
<1>3. D \in P
  <2> HIDE DEF P
  <2> QED  BY <1>1, <1>2, EverySet
<1> QED  BY <1>3

\* What is zero elsewhere adds nothing.
LEMMA SumWithin ==
  ASSUME NEW W, IsFiniteSet(W), NEW C \in SUBSET W, NEW f, NEW g,
         \A x \in C : f[x] \in Int /\ g[x] = f[x], \A x \in W \ C : g[x] = 0
  PROVE  Sum(g, W) = Sum(f, C) /\ Sum(f, C) \in Int
<1>1. PICK B : B = W \ C
  OBVIOUS
<1>2. B \in SUBSET W /\ C \cap B = {} /\ C \cup B = W /\ IsFiniteSet(B) /\ IsFiniteSet(C)
  BY <1>1, FS_Subset
<1>3. \A x \in W : g[x] \in Int
  OBVIOUS
<1>4. Sum(g, C \cup B) = Sum(g, C) + Sum(g, B)
  BY <1>2, <1>3, SumUnion
<1>5. Sum(g, B) = 0
  BY <1>1, <1>2, SumZero
<1>6. Sum(g, C) = Sum(f, C)
  BY <1>2, SumSame
<1>7. Sum(f, C) \in Int
  BY <1>2, SumRec
<1>8. Sum(g, W) = Sum(g, C) + Sum(g, B)
  BY <1>2, <1>4
<1> QED  BY <1>5, <1>6, <1>7, <1>8

\* Two maps of numbers added at the keys N of the second.
Joined(r, c, N, d) ==
  DOMAIN r = DOMAIN c \cup N /\ \A k \in DOMAIN r : r[k] = ValueAt(c, k, 0) + (IF k \in N THEN d[k] ELSE 0)

\* Their sums add up.
LEMMA SumJoined ==
  ASSUME NEW c, IsFiniteSet(DOMAIN c), \A k \in DOMAIN c : c[k] \in Int,
         NEW N, IsFiniteSet(N), NEW d, \A k \in N : d[k] \in Int, NEW r, Joined(r, c, N, d)
  PROVE  /\ IsFiniteSet(DOMAIN r) /\ \A k \in DOMAIN r : r[k] \in Int
         /\ Sum(r, DOMAIN r) = Sum(c, DOMAIN c) + Sum(d, N)
<1>1. PICK W, C : W = DOMAIN r /\ C = DOMAIN c
  OBVIOUS
<1>2. W = C \cup N /\ IsFiniteSet(W) /\ C \in SUBSET W /\ N \in SUBSET W
  BY <1>1, FS_Union DEF Joined
<1>3. PICK f, g : f = [k \in W |-> ValueAt(c, k, 0)] /\ g = [k \in W |-> IF k \in N THEN d[k] ELSE 0]
  OBVIOUS
<1>4. \A k \in W : f[k] = (IF k \in C THEN c[k] ELSE 0) /\ g[k] = (IF k \in N THEN d[k] ELSE 0) /\ r[k] = f[k] + g[k]
  BY <1>1, <1>3 DEF Joined, ValueAt
<1>5. \A k \in W : f[k] \in Int /\ g[k] \in Int
  BY <1>1, <1>4
<1>6. Sum(r, W) = Sum(f, W) + Sum(g, W)
  BY <1>2, <1>4, <1>5, SumPlus
<1>7. Sum(f, W) = Sum(c, C)
  <2>1. (\A x \in C : c[x] \in Int /\ f[x] = c[x]) /\ \A x \in W \ C : f[x] = 0
    BY <1>1, <1>2, <1>4
  <2> QED  BY <1>2, <2>1, SumWithin
<1>8. Sum(g, W) = Sum(d, N)
  <2>1. (\A x \in N : d[x] \in Int /\ g[x] = d[x]) /\ \A x \in W \ N : g[x] = 0
    BY <1>2, <1>4
  <2> QED  BY <1>2, <2>1, SumWithin
<1>9. \A k \in W : r[k] \in Int
  BY <1>4, <1>5
<1> QED  BY <1>1, <1>2, <1>6, <1>7, <1>8, <1>9

\* The entries a capped counter counts, and what it should have under a key.
Positive(w, S) == {e \in S : w[e] > 0}
Weighty(f, w, S) == Keyed(f, S) \cap Positive(w, S)
Truth(f, w, S, k) == Sum(w, {e \in Weighty(f, w, S) : f[e] = k})
CapIs(c, f, w, S) ==
  /\ c = [k \in DOMAIN c |-> c[k]] /\ IsFiniteSet(DOMAIN c) /\ \A k \in DOMAIN c : c[k] \in Int
  /\ Sum(c, DOMAIN c) = Sum(w, Weighty(f, w, S))
  /\ \A k \in DOMAIN c \ {OtherKey} : c[k] > 0 /\ c[k] <= Truth(f, w, S, k)
  /\ OtherKey \notin DOMAIN c => /\ DOMAIN c = {f[e] : e \in Weighty(f, w, S)}
                                 /\ \A k \in DOMAIN c : c[k] = Truth(f, w, S, k)

\* Of two sets apart, they add up.
TruthsAdd(f, w, S, T) ==
  /\ Weighty(f, w, S \cup T) = Weighty(f, w, S) \cup Weighty(f, w, T)
  /\ Sum(w, Weighty(f, w, S \cup T)) = Sum(w, Weighty(f, w, S)) + Sum(w, Weighty(f, w, T))
  /\ \A k : /\ Truth(f, w, S, k) \in Nat /\ Truth(f, w, T, k) \in Nat
            /\ Truth(f, w, S \cup T, k) = Truth(f, w, S, k) + Truth(f, w, T, k)
  /\ \A k : k \notin {f[e] : e \in Weighty(f, w, S)} => Truth(f, w, S, k) = 0
  /\ \A k : k \notin {f[e] : e \in Weighty(f, w, T)} => Truth(f, w, T, k) = 0

\* What two sets of entries that have none in common give to a key adds up.
LEMMA TruthUnion ==
  ASSUME NEW f, NEW w, NEW S, NEW T, IsFiniteSet(S), IsFiniteSet(T), S \cap T = {}, \A e \in S \cup T : w[e] \in Nat
  PROVE  TruthsAdd(f, w, S, T)
<1>1. PICK A, B : A = Weighty(f, w, S) /\ B = Weighty(f, w, T)
  OBVIOUS
<1>2. A \in SUBSET S /\ B \in SUBSET T /\ Weighty(f, w, S \cup T) = A \cup B /\ A \cap B = {}
  BY <1>1 DEF Weighty, Keyed, Positive
<1>3. PICK D : D = S \cup T
  OBVIOUS
<1>4. IsFiniteSet(D) /\ (\A e \in D : w[e] \in Nat) /\ A \in SUBSET D /\ B \in SUBSET D
  BY <1>2, <1>3, FS_Union
<1>5. \A e \in D : w[e] \in Int
  BY <1>4
<1>6. Sum(w, A \cup B) = Sum(w, A) + Sum(w, B)
  BY <1>2, <1>4, <1>5, SumUnion
<1>7. ASSUME NEW k
      PROVE  /\ Truth(f, w, S, k) \in Nat /\ Truth(f, w, T, k) \in Nat
             /\ Truth(f, w, S \cup T, k) = Truth(f, w, S, k) + Truth(f, w, T, k)
             /\ k \notin {f[e] : e \in A} => Truth(f, w, S, k) = 0
             /\ k \notin {f[e] : e \in B} => Truth(f, w, T, k) = 0
  <2>1. PICK X, Y, Z : X = {e \in A : f[e] = k} /\ Y = {e \in B : f[e] = k} /\ Z = {e \in A \cup B : f[e] = k}
    OBVIOUS
  <2>2. X \in SUBSET D /\ Y \in SUBSET D /\ X \cap Y = {} /\ Z = X \cup Y
    BY <1>2, <1>4, <2>1
  <2>3. Sum(w, X \cup Y) = Sum(w, X) + Sum(w, Y)
    BY <1>4, <1>5, <2>2, SumUnion
  <2>4. IsFiniteSet(X) /\ IsFiniteSet(Y) /\ (\A e \in X : w[e] \in Nat) /\ \A e \in Y : w[e] \in Nat
    BY <1>4, <2>2, FS_Subset
  <2>5. Sum(w, X) \in Nat /\ Sum(w, Y) \in Nat
    BY <2>4, SumNat
  <2>6. Truth(f, w, S, k) = Sum(w, X) /\ Truth(f, w, T, k) = Sum(w, Y) /\ Truth(f, w, S \cup T, k) = Sum(w, Z)
    BY <1>1, <1>2, <2>1 DEF Truth
  <2>7. Sum(w, {}) = 0
    BY SumEmpty
  <2>8. k \notin {f[e] : e \in A} => X = {}
    BY <2>1
  <2>9. k \notin {f[e] : e \in B} => Y = {}
    BY <2>1
  <2> QED  BY <2>2, <2>3, <2>5, <2>6, <2>7, <2>8, <2>9
<1> QED  BY <1>1, <1>2, <1>6, <1>7 DEF TruthsAdd

\* Two counters joined, of the second the keys that do not fit under OtherKey.
LEMMA CapJoined ==
  ASSUME NEW f, NEW w, NEW S, NEW T, IsFiniteSet(S), IsFiniteSet(T), S \cap T = {}, \A e \in S \cup T : w[e] \in Nat,
         NEW c, CapIs(c, f, w, S), NEW d, CapIs(d, f, w, T), NEW folded \in SUBSET DOMAIN d,
         NEW n, n = [k \in DOMAIN n |-> n[k]], Joined(n, c, DOMAIN d \ folded, d),
         NEW r, r = [k \in DOMAIN r |-> r[k]], folded = {} => r = n,
         folded # {} => Joined(r, n, {OtherKey}, [k \in {OtherKey} |-> Sum(d, folded)])
  PROVE  CapIs(r, f, w, S \cup T)
<1>1. PICK N : N = DOMAIN d \ folded
  OBVIOUS
<1>2. /\ IsFiniteSet(DOMAIN c) /\ (\A k \in DOMAIN c : c[k] \in Int) /\ IsFiniteSet(DOMAIN d) /\ \A k \in DOMAIN d : d[k] \in Int
      /\ Sum(c, DOMAIN c) = Sum(w, Weighty(f, w, S)) /\ Sum(d, DOMAIN d) = Sum(w, Weighty(f, w, T))
  BY DEF CapIs
<1>3. /\ N \in SUBSET DOMAIN d /\ N \cap folded = {} /\ N \cup folded = DOMAIN d /\ IsFiniteSet(N) /\ IsFiniteSet(folded)
      /\ (\A k \in N : d[k] \in Int) /\ Joined(n, c, N, d)
  BY <1>1, <1>2, FS_Subset
<1>4. /\ IsFiniteSet(DOMAIN n) /\ \A k \in DOMAIN n : n[k] \in Int
      /\ Sum(n, DOMAIN n) = Sum(c, DOMAIN c) + Sum(d, N)
  BY <1>2, <1>3, SumJoined
<1>5. /\ Sum(d, DOMAIN d) = Sum(d, N) + Sum(d, folded)
      /\ Sum(d, N) \in Int /\ Sum(d, folded) \in Int /\ Sum(c, DOMAIN c) \in Int
  <2>1. Sum(d, N \cup folded) = Sum(d, N) + Sum(d, folded)
    BY <1>2, <1>3, SumUnion
  <2>2. Sum(d, N) \in Int
    BY <1>3, SumRec
  <2>3. \A k \in folded : d[k] \in Int
    BY <1>2
  <2>4. Sum(d, folded) \in Int
    BY <1>3, <2>3, SumRec
  <2>5. Sum(c, DOMAIN c) \in Int
    BY <1>2, SumRec
  <2> QED  BY <1>3, <2>1, <2>2, <2>4, <2>5
<1>6. /\ IsFiniteSet(DOMAIN r) /\ \A k \in DOMAIN r : r[k] \in Int
      /\ Sum(r, DOMAIN r) = Sum(c, DOMAIN c) + Sum(d, DOMAIN d)
      /\ DOMAIN n \subseteq DOMAIN r /\ DOMAIN r \subseteq DOMAIN n \cup {OtherKey}
      /\ \A k \in DOMAIN r : k # OtherKey => r[k] = n[k]
      /\ folded # {} => OtherKey \in DOMAIN r
  <2>1. CASE folded = {}
    <3>1. r = n /\ Sum(d, folded) = 0
      BY <2>1, SumEmpty
    <3> QED  BY <1>4, <1>5, <2>1, <3>1
  <2>2. CASE folded # {}
    <3>1. PICK x : x = [k \in {OtherKey} |-> Sum(d, folded)]
      OBVIOUS
    <3>2. IsFiniteSet({OtherKey}) /\ (\A k \in {OtherKey} : x[k] \in Int) /\ Joined(r, n, {OtherKey}, x)
      BY <1>5, <2>2, <3>1, FS_Singleton
    <3>3. /\ IsFiniteSet(DOMAIN r) /\ \A k \in DOMAIN r : r[k] \in Int
          /\ Sum(r, DOMAIN r) = Sum(n, DOMAIN n) + Sum(x, {OtherKey})
      BY <1>4, <3>2, SumJoined
    <3>4. Sum(x, {OtherKey}) = Sum(d, folded)
      <4>1. x[OtherKey] = Sum(d, folded) /\ x[OtherKey] \in Int
        BY <1>5, <3>1
      <4> QED  BY <4>1, SumSingle
    <3>5. DOMAIN r = DOMAIN n \cup {OtherKey}
      BY <3>2 DEF Joined
    <3>6. \A k \in DOMAIN r : k # OtherKey => r[k] = n[k]
      BY <1>4, <3>2, <3>5 DEF Joined, ValueAt
    <3> QED  BY <1>4, <1>5, <3>3, <3>4, <3>5, <3>6
  <2> QED  BY <2>1, <2>2
<1>7. /\ Weighty(f, w, S \cup T) = Weighty(f, w, S) \cup Weighty(f, w, T)
      /\ Sum(w, Weighty(f, w, S \cup T)) = Sum(w, Weighty(f, w, S)) + Sum(w, Weighty(f, w, T))
      /\ \A k : /\ Truth(f, w, S, k) \in Nat /\ Truth(f, w, T, k) \in Nat
                /\ Truth(f, w, S \cup T, k) = Truth(f, w, S, k) + Truth(f, w, T, k)
      /\ \A k : k \notin {f[e] : e \in Weighty(f, w, S)} => Truth(f, w, S, k) = 0
      /\ \A k : k \notin {f[e] : e \in Weighty(f, w, T)} => Truth(f, w, T, k) = 0
  <2>1. TruthsAdd(f, w, S, T)
    BY TruthUnion
  <2> QED  BY <2>1 DEF TruthsAdd
<1>8. \A k \in DOMAIN n : n[k] = (IF k \in DOMAIN c THEN c[k] ELSE 0) + (IF k \in N THEN d[k] ELSE 0)
  BY <1>3 DEF Joined, ValueAt
<1>9. DOMAIN n = DOMAIN c \cup N
  BY <1>3 DEF Joined
<1>10. ASSUME NEW k \in DOMAIN r \ {OtherKey} PROVE r[k] > 0 /\ r[k] <= Truth(f, w, S \cup T, k)
  <2>1. PICK a, b : a = (IF k \in DOMAIN c THEN c[k] ELSE 0) /\ b = (IF k \in N THEN d[k] ELSE 0)
    OBVIOUS
  <2>2. r[k] = a + b /\ (k \in DOMAIN c \/ k \in N)
    BY <1>6, <1>8, <1>9, <2>1
  <2>3. a \in Int /\ a >= 0 /\ a <= Truth(f, w, S, k) /\ (k \in DOMAIN c => a > 0)
    <3>1. k \in DOMAIN c => c[k] \in Int /\ c[k] > 0 /\ c[k] <= Truth(f, w, S, k)
      BY DEF CapIs
    <3> QED  BY <1>7, <2>1, <3>1
  <2>4. b \in Int /\ b >= 0 /\ b <= Truth(f, w, T, k) /\ (k \in N => b > 0)
    <3>1. k \in N => d[k] \in Int /\ d[k] > 0 /\ d[k] <= Truth(f, w, T, k)
      BY <1>3 DEF CapIs
    <3> QED  BY <1>7, <2>1, <3>1
  <2>5. PICK x, y, z : x = Truth(f, w, S, k) /\ y = Truth(f, w, T, k) /\ z = Truth(f, w, S \cup T, k)
    OBVIOUS
  <2>6. x \in Nat /\ y \in Nat /\ z = x + y
    BY <1>7, <2>5
  <2>7. a \in Int /\ a >= 0 /\ a <= x /\ b \in Int /\ b >= 0 /\ b <= y /\ (a > 0 \/ b > 0)
    BY <2>2, <2>3, <2>4, <2>5
  <2>8. r[k] > 0 /\ r[k] <= z
    BY <2>2, <2>6, <2>7
  <2> QED  BY <2>5, <2>8
<1>11. ASSUME OtherKey \notin DOMAIN r
       PROVE  /\ DOMAIN r = {f[e] : e \in Weighty(f, w, S \cup T)}
              /\ \A k \in DOMAIN r : r[k] = Truth(f, w, S \cup T, k)
  <2>1. folded = {} /\ r = n /\ N = DOMAIN d
    BY <1>1, <1>6, <1>11
  <2>2. OtherKey \notin DOMAIN c /\ OtherKey \notin DOMAIN d
    BY <1>9, <1>11, <2>1
  <2>3. /\ DOMAIN c = {f[e] : e \in Weighty(f, w, S)} /\ \A k \in DOMAIN c : c[k] = Truth(f, w, S, k)
        /\ DOMAIN d = {f[e] : e \in Weighty(f, w, T)} /\ \A k \in DOMAIN d : d[k] = Truth(f, w, T, k)
    BY <2>2 DEF CapIs
  <2>4. {f[e] : e \in Weighty(f, w, S \cup T)} = {f[e] : e \in Weighty(f, w, S)} \cup {f[e] : e \in Weighty(f, w, T)}
    BY <1>7
  <2>5. DOMAIN r = {f[e] : e \in Weighty(f, w, S \cup T)}
    BY <1>9, <2>1, <2>3, <2>4
  <2>6. ASSUME NEW k \in DOMAIN r PROVE r[k] = Truth(f, w, S \cup T, k)
    <3>1. (IF k \in DOMAIN c THEN c[k] ELSE 0) = Truth(f, w, S, k)
      BY <1>7, <2>3
    <3>2. (IF k \in N THEN d[k] ELSE 0) = Truth(f, w, T, k)
      BY <1>7, <2>1, <2>3
    <3> QED  BY <1>7, <1>8, <2>1, <3>1, <3>2
  <2> QED  BY <2>5, <2>6
<1> QED  BY <1>2, <1>6, <1>7, <1>10, <1>11 DEF CapIs

\* A capped counter of nothing.
LEMMA CapStart == \A f, w : CapIs(EmptyBag, f, w, {})
<1> SUFFICES ASSUME NEW f, NEW w PROVE CapIs(EmptyBag, f, w, {})
  OBVIOUS
<1>1. PICK c : c = EmptyBag
  OBVIOUS
<1>2. DOMAIN c = {} /\ c = [k \in DOMAIN c |-> c[k]]
  BY <1>1 DEF EmptyBag, SetToBag
<1>3. Weighty(f, w, {}) = {}
  BY DEF Weighty, Keyed
<1>4. Sum(c, {}) = 0 /\ Sum(w, {}) = 0
  BY SumEmpty
<1>5. IsFiniteSet({})
  BY FS_EmptySet
<1> QED  BY <1>1, <1>2, <1>3, <1>4, <1>5 DEF CapIs

\* capMerge: the merge of two capped counters is one of both sets of entries.
LEMMA CapMerge ==
  ASSUME NEW f, NEW w, NEW S, NEW T, IsFiniteSet(S), IsFiniteSet(T), S \cap T = {}, \A e \in S \cup T : w[e] \in Nat,
         NEW c, CapIs(c, f, w, S), NEW d, CapIs(d, f, w, T), NEW max, NEW r \in capMerge(c, d, max)
  PROVE  CapIs(r, f, w, S \cup T)
<1>1. PICK new : new = DOMAIN d \ DOMAIN c
  OBVIOUS
<1> DEFINE folds(fit) == new \ fit
           names(fit) == [k \in DOMAIN c \cup (DOMAIN d \ folds(fit)) |-> IF k \in DOMAIN d \ folds(fit) THEN ValueAt(c, k, 0) + d[k] ELSE c[k]]
           whole(fit) == IF folds(fit) = {} THEN names(fit)
                         ELSE [k \in DOMAIN names(fit) \cup {OtherKey} |->
                                 IF k \in {OtherKey} THEN ValueAt(names(fit), k, 0) + Sum(d, folds(fit)) ELSE names(fit)[k]]
<1>2. PICK fit \in SUBSET new : r = whole(fit)
  <2>1. PICK m : m = Min({Room(c, max), Cardinality(new)})
    OBVIOUS
  <2>2. capMerge(c, d, max) = {whole(fit) : fit \in kSubset(m, new)}
    BY <1>1, <2>1 DEF capMerge, into
  <2>3. kSubset(m, new) \subseteq SUBSET new
    BY DEF kSubset
  <2> HIDE DEF whole
  <2> QED  BY <2>2, <2>3
<1>3. PICK folded : folded = folds(fit)
  OBVIOUS
<1>4. PICK n : n = [k \in DOMAIN c \cup (DOMAIN d \ folded) |-> IF k \in DOMAIN d \ folded THEN ValueAt(c, k, 0) + d[k] ELSE c[k]]
  OBVIOUS
<1>5. n = names(fit)
  BY <1>3, <1>4
<1>6. folded \in SUBSET DOMAIN d
  BY <1>1, <1>3
<1>7. c = [k \in DOMAIN c |-> c[k]] /\ \A k \in DOMAIN c : c[k] \in Int
  BY DEF CapIs
<1>8. Joined(n, c, DOMAIN d \ folded, d) /\ n = [k \in DOMAIN n |-> n[k]]
  BY <1>4, <1>7 DEF Joined, ValueAt
<1>9. folded = {} => r = n
  BY <1>2, <1>3, <1>5
<1>12. \A k \in DOMAIN d : d[k] \in Int
  BY DEF CapIs
<1>13. \A k \in DOMAIN n : n[k] \in Int
  BY <1>4, <1>7, <1>12 DEF ValueAt
<1>10. folded # {} => Joined(r, n, {OtherKey}, [k \in {OtherKey} |-> Sum(d, folded)]) /\ r = [k \in DOMAIN r |-> r[k]]
  <2> SUFFICES ASSUME folded # {} PROVE Joined(r, n, {OtherKey}, [k \in {OtherKey} |-> Sum(d, folded)]) /\ r = [k \in DOMAIN r |-> r[k]]
    OBVIOUS
  <2>2. r = [k \in DOMAIN n \cup {OtherKey} |-> IF k \in {OtherKey} THEN ValueAt(n, k, 0) + Sum(d, folded) ELSE n[k]]
    <3> HIDE DEF names, folds
    <3> QED  BY <1>2, <1>3, <1>5
  <2> QED  BY <1>13, <2>2 DEF Joined, ValueAt
<1>11. r = [k \in DOMAIN r |-> r[k]]
  BY <1>8, <1>9, <1>10
<1> QED  BY <1>6, <1>8, <1>9, <1>10, <1>11, CapJoined

\* capAdd: a capped counter with an entry more.
LEMMA CapAdd ==
  ASSUME NEW f, NEW w, NEW S, IsFiniteSet(S), NEW e, e \notin S, \A x \in S \cup {e} : w[x] \in Nat,
         NEW c, CapIs(c, f, w, S), NEW max
  PROVE  CapIs(capAdd(c, f[e], w[e], max), f, w, S \cup {e})
<1>1. IsFiniteSet({e}) /\ S \cap {e} = {} /\ w[e] \in Nat
  BY FS_Singleton
<1>2. CASE f[e] = "" \/ w[e] = 0
  <2>1. capAdd(c, f[e], w[e], max) = c
    BY <1>2 DEF capAdd
  <2>3. w[e] = 0 => ~(w[e] > 0)
    OBVIOUS
  <2>4. e \notin Keyed(f, {e}) \/ e \notin Positive(w, {e})
    <3>1. f[e] = "" => e \notin Keyed(f, {e})
      BY DEF Keyed
    <3>2. w[e] = 0 => e \notin Positive(w, {e})
      BY <2>3 DEF Positive
    <3> QED  BY <1>2, <3>1, <3>2
  <2>5. Keyed(f, S \cup {e}) = Keyed(f, S) \cup Keyed(f, {e}) /\ Keyed(f, {e}) \subseteq {e} /\ Keyed(f, S) \subseteq S
    BY DEF Keyed
  <2>6. Positive(w, S \cup {e}) = Positive(w, S) \cup Positive(w, {e}) /\ Positive(w, {e}) \subseteq {e} /\ Positive(w, S) \subseteq S
    BY DEF Positive
  <2>2. Weighty(f, w, S \cup {e}) = Weighty(f, w, S)
    BY <2>4, <2>5, <2>6 DEF Weighty
  <2> QED  BY <2>1, <2>2 DEF CapIs, Truth
<1>3. CASE ~(f[e] = "" \/ w[e] = 0)
  <2>1. PICK k0, n0 : k0 = f[e] /\ n0 = w[e]
    OBVIOUS
  <2>14. n0 \in Nat /\ n0 # 0
    BY <1>1, <1>3, <2>1
  <2>15. n0 > 0 /\ n0 \in Int
    BY <2>14
  <2>16. Keyed(f, {e}) = {e} /\ Positive(w, {e}) = {e}
    <3>1. f[e] # ""
      BY <1>3
    <3>2. Keyed(f, {e}) = {e}
      BY <3>1 DEF Keyed
    <3>3. Positive(w, {e}) = {e}
      BY <2>1, <2>15 DEF Positive
    <3> QED  BY <3>2, <3>3
  <2>2. n0 \in Nat /\ n0 > 0 /\ n0 \in Int /\ Weighty(f, w, {e}) = {e}
    BY <2>14, <2>15, <2>16 DEF Weighty
  <2>3. PICK d : d = [k \in {k0} |-> n0]
    OBVIOUS
  <2>4. DOMAIN d = {k0} /\ d[k0] = n0 /\ IsFiniteSet({k0})
    BY <2>3, FS_Singleton
  <2>5. Sum(d, {k0}) = n0 /\ Sum(w, {e}) = n0
    <3>1. d[k0] \in Int /\ w[e] \in Int
      BY <2>1, <2>2, <2>4
    <3> QED  BY <2>1, <2>4, <3>1, SumSingle
  <2>6. CapIs(d, f, w, {e})
    <3>1. {x \in {e} : f[x] = k0} = {e} /\ {f[x] : x \in {e}} = {k0}
      BY <2>1
    <3>2. Truth(f, w, {e}, k0) = n0
      BY <2>2, <2>5, <3>1 DEF Truth
    <3>3. d = [k \in DOMAIN d |-> d[k]] /\ \A k \in DOMAIN d : d[k] \in Int
      BY <2>2, <2>3
    <3> QED  BY <2>2, <2>4, <2>5, <3>1, <3>2, <3>3 DEF CapIs
  <2>7. PICK to : to = IF k0 \in DOMAIN c \/ Room(c, max) > 0 THEN k0 ELSE OtherKey
    OBVIOUS
  <2>8. PICK r : r = capAdd(c, f[e], w[e], max)
    OBVIOUS
  <2>9. r = [k \in DOMAIN c \cup {to} |-> IF k \in {to} THEN ValueAt(c, k, 0) + n0 ELSE c[k]]
    BY <1>3, <2>1, <2>7, <2>8 DEF capAdd, into
  <2>10. c = [k \in DOMAIN c |-> c[k]] /\ \A k \in DOMAIN c : c[k] \in Int
    BY DEF CapIs
  <2>11. r = [k \in DOMAIN r |-> r[k]]
    BY <2>9
  <2>12. CASE to = k0
    <3>1. PICK folded : folded = {}
      OBVIOUS
    <3>2. Joined(r, c, DOMAIN d \ folded, d) /\ folded \in SUBSET DOMAIN d
      BY <2>2, <2>4, <2>9, <2>10, <2>12, <3>1 DEF Joined, ValueAt
    <3>3. (folded = {} => r = r) /\ (folded # {} => Joined(r, r, {OtherKey}, [k \in {OtherKey} |-> Sum(d, folded)]))
      BY <3>1
    <3>4. \A x \in S \cup {e} : w[x] \in Nat
      OBVIOUS
    <3>5. CapIs(r, f, w, S \cup {e})
      BY <1>1, <2>6, <2>11, <3>2, <3>3, <3>4, CapJoined
    <3> QED  BY <2>8, <3>5
  <2>13. CASE to = OtherKey /\ to # k0
    <3>1. PICK folded : folded = {k0}
      OBVIOUS
    <3>6. DOMAIN d \ folded = {} /\ folded \in SUBSET DOMAIN d
      BY <2>4, <3>1
    <3>7. \A k \in DOMAIN c : c[k] = c[k] + 0
      BY <2>10
    <3>8. PICK N : N = {}
      OBVIOUS
    <3>9. Joined(c, c, N, d)
      BY <3>7, <3>8 DEF Joined, ValueAt
    <3>2. Joined(c, c, DOMAIN d \ folded, d) /\ folded \in SUBSET DOMAIN d
      BY <3>6, <3>8, <3>9
    <3>3. (folded = {} => r = c) /\ (folded # {} => Joined(r, c, {OtherKey}, [k \in {OtherKey} |-> Sum(d, folded)]))
      BY <2>2, <2>5, <2>9, <2>10, <2>13, <3>1 DEF Joined, ValueAt
    <3>4. \A x \in S \cup {e} : w[x] \in Nat
      OBVIOUS
    <3>5. CapIs(r, f, w, S \cup {e})
      BY <1>1, <2>6, <2>10, <2>11, <3>2, <3>3, <3>4, CapJoined
    <3> QED  BY <2>8, <3>5
  <2> QED  BY <2>7, <2>12, <2>13
<1> QED  BY <1>2, <1>3

-----------------------------------------------------------------------------
(*****************************************************************************)
(* The tables: lists of entries cut at a cap by time, or in the order they   *)
(* came.                                                                     *)
(*****************************************************************************)

\* What a list holds, and that it holds nothing twice.
Held(c) == {c[i] : i \in DOMAIN c}
Single(c) == IsList(c) /\ \A i, j \in DOMAIN c : c[i] = c[j] => i = j

\* earliest: n of the list in the order of time, at what places, and that the others are no earlier.
IsEarliest(r, c, n, place) ==
  /\ IsList(r) /\ Len(r) = IF n < Len(c) THEN n ELSE Len(c)
  /\ place \in [DOMAIN r -> DOMAIN c] /\ \A p, q \in DOMAIN r : place[p] = place[q] => p = q
  /\ \A p \in DOMAIN r : r[p] = c[place[p]]
  /\ \A p, q \in DOMAIN r : p <= q => r[p].time <= r[q].time
  /\ \A i \in DOMAIN c : (\A p \in DOMAIN r : place[p] # i) => \A p \in DOMAIN r : r[p].time <= c[i].time

\* Each place of a list has its rank in the order of time and then of arrival.
Before(c, i) == {j \in DOMAIN c : c[j].time < c[i].time \/ (c[j].time = c[i].time /\ j < i)}

\* The ranks are the numbers below the length, each once, in the order of time.
LEMMA Ranks ==
  ASSUME NEW c, IsList(c), \A i \in DOMAIN c : c[i].time \in Int
  PROVE  /\ \A i \in DOMAIN c : Cardinality(Before(c, i)) \in Nat /\ Cardinality(Before(c, i)) + 1 \in 1..Len(c)
         /\ \A i, k \in DOMAIN c : Cardinality(Before(c, i)) = Cardinality(Before(c, k)) => i = k
         /\ \A i, k \in DOMAIN c : Cardinality(Before(c, i)) < Cardinality(Before(c, k)) => c[i].time <= c[k].time
         /\ \A p \in 1..Len(c) : \E i \in DOMAIN c : Cardinality(Before(c, i)) = p - 1
<1> DEFINE rank(i) == Cardinality(Before(c, i))
<1>1. PICK D : D = DOMAIN c
  OBVIOUS
<1>2. IsFiniteSet(D) /\ Cardinality(D) = Len(c) /\ Len(c) \in Nat /\ D = 1..Len(c)
  BY <1>1, ListFacts
<1>3. ASSUME NEW i \in D PROVE Before(c, i) \in SUBSET D /\ i \notin Before(c, i) /\ IsFiniteSet(Before(c, i)) /\ rank(i) \in Nat
  <2>1. Before(c, i) \in SUBSET D
    BY <1>1 DEF Before
  <2>2. i \notin Before(c, i)
    <3>1. c[i].time \in Int /\ i \in Int
      BY <1>1, <1>2
    <3>2. ~(c[i].time < c[i].time) /\ ~(i < i)
      BY <3>1
    <3> QED  BY <3>2 DEF Before
  <2> QED  BY <1>2, <2>1, <2>2, Sizes
<1>4. ASSUME NEW i \in D PROVE rank(i) + 1 \in 1..Len(c)
  <2>1. PICK B : B = Before(c, i)
    OBVIOUS
  <2>2. B \cup {i} \in SUBSET D /\ i \notin B /\ IsFiniteSet(B) /\ rank(i) \in Nat
    BY <1>3, <2>1
  <2>3. Cardinality(B \cup {i}) = Cardinality(B) + 1
    BY <2>2, OneMore
  <2>4. Cardinality(B \cup {i}) <= Cardinality(D)
    BY <1>2, <2>2, Sizes
  <2>5. PICK n : n = rank(i)
    OBVIOUS
  <2>6. n \in Nat /\ n + 1 <= Len(c)
    BY <1>2, <2>1, <2>2, <2>3, <2>4, <2>5
  <2>7. n + 1 \in 1..Len(c)
    BY <1>2, <2>6
  <2> QED  BY <2>5, <2>7
<1>5. ASSUME NEW i \in D, NEW k \in D, i \in Before(c, k) PROVE rank(i) < rank(k)
  <2>1. PICK B, C : B = Before(c, i) /\ C = Before(c, k)
    OBVIOUS
  <2>2. /\ B \in SUBSET D /\ i \notin B /\ IsFiniteSet(B) /\ C \in SUBSET D /\ IsFiniteSet(C)
        /\ Cardinality(B) \in Nat /\ Cardinality(C) \in Nat
    BY <1>3, <2>1
  <2>3. \A j \in D : j \in Int /\ c[j].time \in Int
    BY <1>1, <1>2
  <2>4. \A j \in B : j \in C
    <3>1. c[i].time < c[k].time \/ (c[i].time = c[k].time /\ i < k)
      BY <1>5 DEF Before
    <3> SUFFICES ASSUME NEW j \in B PROVE j \in C
      OBVIOUS
    <3>2. j \in D /\ (c[j].time < c[i].time \/ (c[j].time = c[i].time /\ j < i))
      BY <1>1, <2>1 DEF Before
    <3>3. PICK x, y, z : x = c[j].time /\ y = c[i].time /\ z = c[k].time
      OBVIOUS
    <3>4. x \in Int /\ y \in Int /\ z \in Int /\ i \in Int /\ j \in Int /\ k \in Int
      BY <2>3, <3>2, <3>3
    <3>5. x < z \/ (x = z /\ j < k)
      BY <3>1, <3>2, <3>3, <3>4
    <3> QED  BY <1>1, <2>1, <3>2, <3>3, <3>5 DEF Before
  <2>5. B \cup {i} \in SUBSET C
    BY <1>5, <2>1, <2>4
  <2>6. Cardinality(B \cup {i}) = Cardinality(B) + 1
    BY <2>2, OneMore
  <2>7. Cardinality(B \cup {i}) <= Cardinality(C)
    BY <2>2, <2>5, Sizes
  <2> QED  BY <2>1, <2>2, <2>6, <2>7
<1>6. ASSUME NEW i \in D, NEW k \in D, i # k PROVE i \in Before(c, k) \/ k \in Before(c, i)
  <2>1. i \in Int /\ k \in Int /\ c[i].time \in Int /\ c[k].time \in Int
    BY <1>1, <1>2
  <2>2. \/ c[i].time < c[k].time \/ (c[i].time = c[k].time /\ i < k)
        \/ c[k].time < c[i].time \/ (c[k].time = c[i].time /\ k < i)
    BY <1>6, <2>1
  <2> QED  BY <1>1, <2>2 DEF Before
<1>7. ASSUME NEW i \in D, NEW k \in D, rank(i) = rank(k) PROVE i = k
  <2>1. rank(i) \in Nat /\ rank(k) \in Nat
    BY <1>3
  <2>2. i # k => rank(i) < rank(k) \/ rank(k) < rank(i)
    BY <1>5, <1>6
  <2> HIDE DEF rank
  <2> QED  BY <1>7, <2>1, <2>2
<1>8. ASSUME NEW i \in D, NEW k \in D, rank(i) < rank(k) PROVE c[i].time <= c[k].time
  <2>1. rank(i) \in Nat /\ rank(k) \in Nat
    BY <1>3
  <2>2. i # k => i \in Before(c, k) \/ rank(k) < rank(i)
    BY <1>5, <1>6
  <2>3. i # k /\ ~(rank(k) < rank(i))
    <3> HIDE DEF rank
    <3> QED  BY <1>8, <2>1
  <2>4. i \in Before(c, k)
    BY <2>2, <2>3
  <2>5. c[i].time \in Int /\ c[k].time \in Int /\ (c[i].time < c[k].time \/ c[i].time = c[k].time)
    BY <1>1, <2>4 DEF Before
  <2> QED  BY <2>5
<1>9. ASSUME NEW p \in 1..Len(c) PROVE \E i \in D : rank(i) = p - 1
  <2>1. PICK f : f = [i \in D |-> rank(i) + 1]
    OBVIOUS
  <2>2. f \in [D -> 1..Cardinality(D)]
    BY <1>2, <1>4, <2>1
  <2>3. \A i \in D : f[i] = rank(i) + 1 /\ rank(i) \in Nat
    BY <1>3, <2>1
  <2>4. \A i, k \in D : f[i] = f[k] => i = k
    <3> SUFFICES ASSUME NEW i \in D, NEW k \in D, f[i] = f[k] PROVE i = k
      OBVIOUS
    <3>1. rank(i) = rank(k)
      <4> HIDE DEF rank
      <4> QED  BY <2>3
    <3> QED  BY <1>7, <3>1
  <2>5. \A q \in 1..Cardinality(D) : \E i \in D : f[i] = q
    <3>1. IsFiniteSet(D)
      BY <1>2
    <3> QED  BY <2>2, <2>4, <3>1, OneToOneIsOnto
  <2>6. PICK i \in D : f[i] = p
    BY <1>2, <2>5
  <2>7. rank(i) = p - 1
    <3> HIDE DEF rank
    <3> QED  BY <2>3, <2>6
  <2> QED  BY <2>7
<1> QED  BY <1>1, <1>3, <1>4, <1>7, <1>8, <1>9

\* earliest keeps the first n places in the order of their ranks.
LEMMA EarliestIs ==
  ASSUME NEW c, IsList(c), \A i \in DOMAIN c : c[i].time \in Int, NEW n \in Nat
  PROVE  \E place : IsEarliest(earliest(c, n), c, n, place)
<1> DEFINE rank(i) == Cardinality(Before(c, i))
           at0(p) == CHOOSE i \in DOMAIN c : rank(i) = p - 1
<1>1. PICK r : r = earliest(c, n)
  OBVIOUS
<1>2. PICK m : m = IF n < Len(c) THEN n ELSE Len(c)
  OBVIOUS
<1>3. Len(c) \in Nat /\ DOMAIN c = 1..Len(c)
  BY ListFacts
<1>4. m \in Nat /\ m <= Len(c) /\ m <= n
  <2>1. PICK l \in Nat : l = Len(c)
    BY <1>3
  <2>2. m = IF n < l THEN n ELSE l
    BY <1>2, <2>1
  <2>3. m \in Nat /\ m <= l /\ m <= n
    BY <2>2
  <2> QED  BY SMTT(40), <2>1, <2>3
<1>5. Min({n, Len(c)}) = m
  <2>1. {n, Len(c)} \in SUBSET Int /\ m \in {n, Len(c)} /\ \A x \in {n, Len(c)} : m <= x
    <3>1. m \in {n, Len(c)}
      BY <1>2
    <3>2. {n, Len(c)} \in SUBSET Int
      BY <1>3
    <3>3. m <= n /\ m <= Len(c)
      BY <1>4
    <3> QED  BY <3>1, <3>2, <3>3
  <2> QED  BY <2>1, MinMaxAre
<1>6. r = [p \in 1..m |-> c[at0(p)]]
  BY <1>1, <1>5 DEF earliest, Before
<1>7. /\ \A i \in DOMAIN c : rank(i) \in Nat /\ rank(i) + 1 \in 1..Len(c)
      /\ \A i, k \in DOMAIN c : rank(i) = rank(k) => i = k
      /\ \A i, k \in DOMAIN c : rank(i) < rank(k) => c[i].time <= c[k].time
      /\ \A p \in 1..Len(c) : \E i \in DOMAIN c : rank(i) = p - 1
  BY Ranks
<1> HIDE DEF rank
<1>8. \A p \in 1..m : p \in 1..Len(c)
  BY <1>3, <1>4
<1>9. \A p \in 1..m : at0(p) \in DOMAIN c /\ rank(at0(p)) = p - 1
  BY <1>7, <1>8
<1>10. PICK place : place = [p \in 1..m |-> at0(p)]
  OBVIOUS
<1> HIDE DEF at0
<1>11. /\ place \in [1..m -> DOMAIN c] /\ DOMAIN r = 1..m
       /\ \A p \in 1..m : rank(place[p]) = p - 1 /\ r[p] = c[place[p]]
  BY <1>6, <1>9, <1>10
<1>12. IsList(r) /\ Len(r) = m
  BY <1>4, <1>6, <1>11, ListOf, ListFacts
<1>13. \A p, q \in 1..m : place[p] = place[q] => p = q
  <2> SUFFICES ASSUME NEW p \in 1..m, NEW q \in 1..m, place[p] = place[q] PROVE p = q
    OBVIOUS
  <2>1. p - 1 = q - 1
    BY <1>11
  <2> QED  BY <2>1
<1>14. \A p, q \in 1..m : p <= q => r[p].time <= r[q].time
  <2> SUFFICES ASSUME NEW p \in 1..m, NEW q \in 1..m, p <= q PROVE r[p].time <= r[q].time
    OBVIOUS
  <2>1. CASE p = q
    <3>1. r[p].time \in Int
      BY <1>11
    <3> QED  BY <2>1, <3>1
  <2>2. CASE p # q
    <3>1. rank(place[p]) < rank(place[q])
      BY <1>11, <2>2
    <3>2. place[p] \in DOMAIN c /\ place[q] \in DOMAIN c
      BY <1>11
    <3>3. c[place[p]].time <= c[place[q]].time
      BY <1>7, <3>1, <3>2
    <3> QED  BY <1>11, <3>3
  <2> QED  BY <2>1, <2>2
<1>15. ASSUME NEW i \in DOMAIN c, \A p \in 1..m : place[p] # i, NEW p \in 1..m
       PROVE  r[p].time <= c[i].time
  <2>1. PICK x \in Nat : x = rank(i)
    BY <1>7
  <2>2. x + 1 \notin 1..m
    <3> SUFFICES ASSUME x + 1 \in 1..m PROVE FALSE
      OBVIOUS
    <3>1. PICK q \in 1..m : q = x + 1
      OBVIOUS
    <3>2. q - 1 = x
      BY <3>1
    <3>3. rank(place[q]) = rank(i) /\ place[q] \in DOMAIN c
      BY <1>11, <2>1, <3>2
    <3>4. place[q] = i
      BY <1>7, <3>3
    <3> QED  BY <1>15, <3>4
  <2>3. p - 1 < x
    BY <1>4, <2>2
  <2>4. rank(place[p]) < rank(i) /\ place[p] \in DOMAIN c
    BY <1>11, <2>1, <2>3
  <2>5. c[place[p]].time <= c[i].time
    BY <1>7, <2>4
  <2> QED  BY <1>11, <2>5
<1>16. \A i \in DOMAIN c : (\A p \in DOMAIN r : place[p] # i) => \A p \in DOMAIN r : r[p].time <= c[i].time
  BY <1>11, <1>15
<1>17. /\ place \in [DOMAIN r -> DOMAIN c] /\ (\A p, q \in DOMAIN r : place[p] = place[q] => p = q)
       /\ (\A p \in DOMAIN r : r[p] = c[place[p]]) /\ (\A p, q \in DOMAIN r : p <= q => r[p].time <= r[q].time)
       /\ Len(r) = IF n < Len(c) THEN n ELSE Len(c)
  BY <1>2, <1>11, <1>12, <1>13, <1>14
<1>18. IsEarliest(r, c, n, place)
  BY <1>12, <1>16, <1>17 DEF IsEarliest
<1> QED  BY <1>1, <1>18

\* R is of D, and whatever of D is missing has M of R that are no later.
KeptOf(R, D, M) ==
  R \subseteq D /\ \A x \in D \ R : \E X \in SUBSET R : Cardinality(X) = M /\ \A y \in X : y.time <= x.time
ListKept(c, D, M) == Single(c) /\ KeptOf(Held(c), D, M)
FirstKept(c, D, M) == Single(c) /\ Held(c) \subseteq D /\ Len(c) = IF M < Cardinality(D) THEN M ELSE Cardinality(D)

\* A list without repetition holds as much as it is long.
LEMMA SingleHolds ==
  ASSUME NEW c, Single(c)
  PROVE  IsFiniteSet(Held(c)) /\ Cardinality(Held(c)) = Len(c) /\ Len(c) \in Nat
<1>1. IsFiniteSet(DOMAIN c) /\ Cardinality(DOMAIN c) = Len(c) /\ Len(c) \in Nat
  BY ListFacts DEF Single
<1>2. PICK D, H : D = DOMAIN c /\ H = Held(c)
  OBVIOUS
<1>3. PICK f : f = [i \in D |-> c[i]]
  OBVIOUS
<1>4. f \in [D -> H] /\ (\A i, j \in D : f[i] = f[j] => i = j) /\ \A y \in H : \E i \in D : f[i] = y
  BY <1>2, <1>3 DEF Single, Held
<1>5. f \in Injection(D, H) /\ f \in Surjection(D, H)
  BY <1>4 DEF Injection, IsInjective, Surjection
<1>6. IsFiniteSet(D)
  BY <1>1, <1>2
<1>7. IsFiniteSet(H) /\ Cardinality(H) = Cardinality(D)
  BY <1>5, <1>6, FS_Surjection
<1> QED  BY <1>1, <1>2, <1>7

\* Nothing is held of nothing.
LEMMA NothingHeld ==
  /\ Single(<<>>) /\ Held(<<>>) = {} /\ \A M : ListKept(<<>>, {}, M)
  /\ \A M \in Nat : FirstKept(<<>>, {}, M)
<1>1. PICK c : c = <<>>
  OBVIOUS
<1>2. c \in Seq({}) /\ Len(c) = 0 /\ DOMAIN c = {}
  BY <1>1
<1>3. IsList(c)
  BY <1>2, ListIs
<1>4. Single(c) /\ Held(c) = {}
  BY <1>2, <1>3 DEF Single, Held
<1>5. \A M : ListKept(c, {}, M)
  BY <1>4 DEF ListKept, KeptOf
<1>6. Cardinality({}) = 0
  BY FS_EmptySet
<1>7. \A M \in Nat : FirstKept(c, {}, M)
  BY <1>2, <1>4, <1>6 DEF FirstKept
<1> QED  BY <1>1, <1>4, <1>5, <1>7

\* Two lists that share nothing, one after the other.
LEMMA SingleJoin ==
  ASSUME NEW c, Single(c), NEW d, Single(d), Held(c) \cap Held(d) = {}
  PROVE  Single(c \o d) /\ Held(c \o d) = Held(c) \cup Held(d) /\ Len(c \o d) = Len(c) + Len(d)
<1>1. IsList(c) /\ IsList(d)
  BY DEF Single
<1>2. /\ Len(c) \in Nat /\ DOMAIN c = 1..Len(c) /\ Len(d) \in Nat /\ DOMAIN d = 1..Len(d)
  BY <1>1, ListFacts
<1>3. PICK A : A = Held(c) \cup Held(d)
  OBVIOUS
<1>4. c \in Seq(A) /\ d \in Seq(A)
  <2>1. c \in Seq(Held(c)) /\ d \in Seq(Held(d))
    BY <1>1 DEF IsList, Held
  <2> QED  BY <1>3, <2>1
<1>5. PICK r : r = c \o d
  OBVIOUS
<1>6. PICK m \in Nat, n \in Nat : m = Len(c) /\ n = Len(d)
  BY <1>2
<1>7. /\ Len(r) = m + n /\ DOMAIN r = 1..(m + n)
      /\ (\A i \in 1..m : r[i] = c[i]) /\ \A i \in 1..n : r[m + i] = d[i]
  BY <1>4, <1>5, <1>6
<1>8. IsList(r)
  BY <1>1, <1>5, ListJoin
<1>9. \A i \in 1..(m + n) : i \in 1..m \/ (i - m \in 1..n /\ i = m + (i - m))
  OBVIOUS
<1>10. \A i \in 1..(m + n) : (i \in 1..m /\ r[i] = c[i] /\ r[i] \in Held(c)) \/ (i - m \in 1..n /\ r[i] = d[i - m] /\ r[i] \in Held(d))
  <2> SUFFICES ASSUME NEW i \in 1..(m + n)
               PROVE  (i \in 1..m /\ r[i] = c[i] /\ r[i] \in Held(c)) \/ (i - m \in 1..n /\ r[i] = d[i - m] /\ r[i] \in Held(d))
    OBVIOUS
  <2>1. CASE i \in 1..m
    <3>1. r[i] = c[i] /\ i \in DOMAIN c
      BY <1>2, <1>6, <1>7, <2>1
    <3> QED  BY <2>1, <3>1 DEF Held
  <2>2. CASE i \notin 1..m
    <3>1. PICK k \in 1..n : k = i - m /\ i = m + k
      BY <1>9, <2>2
    <3>2. r[i] = d[k] /\ k \in DOMAIN d
      BY <1>2, <1>6, <1>7, <3>1
    <3> QED  BY <3>1, <3>2 DEF Held
  <2> QED  BY <2>1, <2>2
<1>11. \A i, j \in DOMAIN r : r[i] = r[j] => i = j
  <2> SUFFICES ASSUME NEW i \in 1..(m + n), NEW j \in 1..(m + n), r[i] = r[j] PROVE i = j
    BY <1>7
  <2>1. CASE r[i] \in Held(c)
    <3>1. i \in 1..m /\ j \in 1..m /\ c[i] = c[j]
      BY <1>10, <2>1
    <3> QED  BY <1>2, <1>6, <3>1 DEF Single
  <2>2. CASE r[i] \notin Held(c)
    <3>1. i - m \in 1..n /\ j - m \in 1..n /\ d[i - m] = d[j - m]
      BY <1>10, <2>2
    <3>2. i - m = j - m
      BY <1>2, <1>6, <3>1 DEF Single
    <3> QED  BY <3>2
  <2> QED  BY <2>1, <2>2
<1>12. Held(r) = Held(c) \cup Held(d)
  <2>1. Held(r) \subseteq Held(c) \cup Held(d)
    BY <1>7, <1>10 DEF Held
  <2>2. ASSUME NEW i \in DOMAIN c PROVE c[i] \in Held(r)
    <3>1. i \in 1..m /\ i \in 1..(m + n)
      BY <1>2, <1>6
    <3> QED  BY <1>7, <3>1 DEF Held
  <2>3. ASSUME NEW i \in DOMAIN d PROVE d[i] \in Held(r)
    <3>1. i \in 1..n /\ m + i \in 1..(m + n)
      BY <1>2, <1>6
    <3> QED  BY <1>7, <3>1 DEF Held
  <2> QED  BY <2>1, <2>2, <2>3 DEF Held
<1> QED  BY <1>5, <1>6, <1>7, <1>8, <1>11, <1>12 DEF Single

\* One more at the end.
LEMMA SingleMore ==
  ASSUME NEW c, Single(c), NEW x, x \notin Held(c)
  PROVE  Single(Append(c, x)) /\ Held(Append(c, x)) = Held(c) \cup {x} /\ Len(Append(c, x)) = Len(c) + 1
<1>1. PICK d : d = <<x>>
  OBVIOUS
<1>2. d \in Seq({x}) /\ DOMAIN d = {1} /\ d[1] = x /\ Len(d) = 1
  BY <1>1
<1>3. IsList(d)
  BY <1>2, ListIs
<1>4. Single(d) /\ Held(d) = {x}
  BY <1>2, <1>3 DEF Single, Held
<1>5. Single(c \o d) /\ Held(c \o d) = Held(c) \cup Held(d) /\ Len(c \o d) = Len(c) + Len(d)
  BY <1>4, SingleJoin
<1>6. c \o d = Append(c, x)
  <2>1. PICK A : A = Held(c) \cup {x}
    OBVIOUS
  <2>2. c \in Seq(A) /\ x \in A
    <3>1. c \in Seq(Held(c))
      BY DEF Single, IsList, Held
    <3> QED  BY <2>1, <3>1
  <2> QED  BY <1>1, <2>2
<1> QED  BY <1>2, <1>4, <1>5, <1>6

\* What is kept of two sets.
LEMMA KeptUnion ==
  ASSUME NEW R, NEW D, NEW M, KeptOf(R, D, M), NEW Q, NEW E, KeptOf(Q, E, M)
  PROVE  KeptOf(R \cup Q, D \cup E, M)
<1>1. R \cup Q \subseteq D \cup E
  BY DEF KeptOf
<1>2. ASSUME NEW x \in (D \cup E) \ (R \cup Q)
      PROVE  \E X \in SUBSET (R \cup Q) : Cardinality(X) = M /\ \A y \in X : y.time <= x.time
  <2>1. CASE x \in D
    <3>1. PICK X \in SUBSET R : Cardinality(X) = M /\ \A y \in X : y.time <= x.time
      BY <2>1 DEF KeptOf
    <3> QED  BY <3>1
  <2>2. CASE x \in E
    <3>1. PICK X \in SUBSET Q : Cardinality(X) = M /\ \A y \in X : y.time <= x.time
      BY <2>2 DEF KeptOf
    <3> QED  BY <3>1
  <2> QED  BY <2>1, <2>2
<1> QED  BY <1>1, <1>2 DEF KeptOf

\* M of what is kept, and none that is left is earlier.
LEMMA KeptCut ==
  ASSUME NEW R, IsFiniteSet(R), NEW D, \A x \in D : x.time \in Int, NEW M, KeptOf(R, D, M),
         NEW Q \in SUBSET R, Cardinality(Q) = M, \A y \in Q, x \in R \ Q : y.time <= x.time
  PROVE  KeptOf(Q, D, M)
<1>1. Q \subseteq D /\ R \subseteq D
  BY DEF KeptOf
<1>2. ASSUME NEW x \in D \ Q PROVE \A y \in Q : y.time <= x.time
  <2>1. CASE x \in R
    BY <1>2, <2>1
  <2>2. CASE x \notin R
    <3>1. PICK X \in SUBSET R : Cardinality(X) = M /\ \A y \in X : y.time <= x.time
      BY <2>2 DEF KeptOf
    <3>2. IsFiniteSet(Q)
      BY FS_Subset
    <3>3. CASE X \subseteq Q
      <4>1. X = Q
        BY <3>1, <3>2, <3>3, FS_Subset
      <4> QED  BY <3>1, <4>1
    <3>4. CASE ~(X \subseteq Q)
      <4>1. PICK z \in X : z \in R \ Q
        BY <3>4
      <4> SUFFICES ASSUME NEW y \in Q PROVE y.time <= x.time
        OBVIOUS
      <4>2. y.time <= z.time /\ z.time <= x.time
        BY <3>1, <4>1
      <4>3. y.time \in Int /\ z.time \in Int /\ x.time \in Int
        BY <1>1, <4>1
      <4> QED  BY <4>2, <4>3
    <3> QED  BY <3>3, <3>4
  <2> QED  BY <2>1, <2>2
<1> QED  BY <1>1, <1>2 DEF KeptOf

\* One entry more is kept.
LEMMA ListKeptMore ==
  ASSUME NEW D, NEW M, NEW c, ListKept(c, D, M), NEW x, x \notin D
  PROVE  ListKept(Append(c, x), D \cup {x}, M)
<1>1. Single(c) /\ KeptOf(Held(c), D, M)
  BY DEF ListKept
<1>2. x \notin Held(c)
  BY <1>1 DEF KeptOf
<1>3. Single(Append(c, x)) /\ Held(Append(c, x)) = Held(c) \cup {x}
  BY <1>1, <1>2, SingleMore
<1>4. KeptOf({x}, {x}, M)
  BY DEF KeptOf
<1>5. KeptOf(Held(c) \cup {x}, D \cup {x}, M)
  BY <1>1, <1>4, KeptUnion
<1> QED  BY <1>3, <1>5 DEF ListKept

\* Two lists of what is apart.
LEMMA ListKeptJoin ==
  ASSUME NEW D, NEW E, D \cap E = {}, NEW M, NEW c, ListKept(c, D, M), NEW d, ListKept(d, E, M)
  PROVE  ListKept(c \o d, D \cup E, M)
<1>1. Single(c) /\ KeptOf(Held(c), D, M) /\ Single(d) /\ KeptOf(Held(d), E, M)
  BY DEF ListKept
<1>2. Held(c) \cap Held(d) = {}
  BY <1>1 DEF KeptOf
<1>3. Single(c \o d) /\ Held(c \o d) = Held(c) \cup Held(d)
  BY <1>1, <1>2, SingleJoin
<1>4. KeptOf(Held(c) \cup Held(d), D \cup E, M)
  BY <1>1, KeptUnion
<1> QED  BY <1>3, <1>4 DEF ListKept

\* earliest keeps a list without repetition, and no more than the limit.
LEMMA SingleCut ==
  ASSUME NEW c, Single(c), \A x \in Held(c) : x.time \in Int, NEW n \in Nat
  PROVE  LET r == earliest(c, n) IN
         /\ Single(r) /\ Held(r) \subseteq Held(c) /\ Len(r) = IF n < Len(c) THEN n ELSE Len(c)
         /\ \A y \in Held(r), x \in Held(c) \ Held(r) : y.time <= x.time
         /\ \A p, q \in DOMAIN r : p <= q => r[p].time <= r[q].time
<1>1. PICK r : r = earliest(c, n)
  OBVIOUS
<1>2. IsList(c) /\ (\A i, j \in DOMAIN c : c[i] = c[j] => i = j) /\ \A i \in DOMAIN c : c[i].time \in Int
  BY DEF Single, Held
<1>3. PICK place : IsEarliest(r, c, n, place)
  <2>1. \E place : IsEarliest(earliest(c, n), c, n, place)
    BY <1>2, EarliestIs
  <2> QED  BY <1>1, <2>1
<1>4. /\ IsList(r) /\ Len(r) = IF n < Len(c) THEN n ELSE Len(c)
      /\ place \in [DOMAIN r -> DOMAIN c] /\ (\A p, q \in DOMAIN r : place[p] = place[q] => p = q)
      /\ (\A p \in DOMAIN r : r[p] = c[place[p]])
      /\ (\A p, q \in DOMAIN r : p <= q => r[p].time <= r[q].time)
      /\ \A i \in DOMAIN c : (\A p \in DOMAIN r : place[p] # i) => \A p \in DOMAIN r : r[p].time <= c[i].time
  BY <1>3 DEF IsEarliest
<1>5. \A p, q \in DOMAIN r : r[p] = r[q] => p = q
  BY <1>2, <1>4
<1>6. Held(r) \subseteq Held(c)
  BY <1>4 DEF Held
<1>7. ASSUME NEW y \in Held(r), NEW x \in Held(c) \ Held(r) PROVE y.time <= x.time
  <2>1. PICK p \in DOMAIN r : y = r[p]
    BY DEF Held
  <2>2. PICK i \in DOMAIN c : x = c[i]
    BY DEF Held
  <2>3. \A q \in DOMAIN r : place[q] # i
    <3>1. \A q \in DOMAIN r : r[q] # x
      BY DEF Held
    <3> QED  BY <1>4, <2>2, <3>1
  <2> QED  BY <1>4, <2>1, <2>2, <2>3
<1> QED  BY <1>1, <1>4, <1>5, <1>6, <1>7 DEF Single

\* A list of kept entries that is cut by earliest again keeps the earliest, in order.
LEMMA ListKeptCut ==
  ASSUME NEW D, \A x \in D : x.time \in Int, NEW M \in Nat, NEW c, ListKept(c, D, M)
  PROVE  /\ ListKept(earliest(c, M), D, M) /\ Len(earliest(c, M)) = IF M < Len(c) THEN M ELSE Len(c)
         /\ \A p, q \in DOMAIN earliest(c, M) : p <= q => earliest(c, M)[p].time <= earliest(c, M)[q].time
<1>1. Single(c) /\ KeptOf(Held(c), D, M)
  BY DEF ListKept
<1>2. Held(c) \subseteq D
  BY <1>1 DEF KeptOf
<1>3. \A x \in Held(c) : x.time \in Int
  BY <1>2
<1>4. PICK r : r = earliest(c, M)
  OBVIOUS
<1>5. /\ Single(r) /\ Held(r) \subseteq Held(c) /\ Len(r) = IF M < Len(c) THEN M ELSE Len(c)
      /\ (\A y \in Held(r), x \in Held(c) \ Held(r) : y.time <= x.time)
      /\ \A p, q \in DOMAIN r : p <= q => r[p].time <= r[q].time
  <2>1. LET q == earliest(c, M) IN
         /\ Single(q) /\ Held(q) \subseteq Held(c) /\ Len(q) = IF M < Len(c) THEN M ELSE Len(c)
         /\ \A y \in Held(q), x \in Held(c) \ Held(q) : y.time <= x.time
         /\ \A p, s \in DOMAIN q : p <= s => q[p].time <= q[s].time
    BY <1>1, <1>3, SingleCut
  <2> QED  BY <1>4, <2>1
<1>6. /\ IsFiniteSet(Held(c)) /\ Cardinality(Held(c)) = Len(c) /\ Len(c) \in Nat
      /\ IsFiniteSet(Held(r)) /\ Cardinality(Held(r)) = Len(r) /\ Len(r) \in Nat
  BY <1>1, <1>5, SingleHolds
<1>7. KeptOf(Held(r), D, M)
  <2>1. CASE M <= Len(c)
    <3>1. Len(r) = M
      BY <1>5, <1>6, <2>1
    <3>2. PICK R, Q : R = Held(c) /\ Q = Held(r)
      OBVIOUS
    <3>3. IsFiniteSet(R) /\ KeptOf(R, D, M) /\ Q \in SUBSET R /\ Cardinality(Q) = M /\ \A y \in Q, x \in R \ Q : y.time <= x.time
      BY <1>1, <1>5, <1>6, <3>1, <3>2
    <3>4. KeptOf(Q, D, M)
      BY <3>3, KeptCut
    <3> QED  BY <3>2, <3>4
  <2>2. CASE ~(M <= Len(c))
    <3>1. Len(r) = Len(c)
      BY <1>5, <1>6, <2>2
    <3>2. Held(r) = Held(c)
      BY <1>5, <1>6, <3>1, FS_Subset
    <3> QED  BY <1>1, <3>2
  <2> QED  BY <2>1, <2>2
<1> QED  BY <1>4, <1>5, <1>7 DEF ListKept

\* At the end a list no longer than the limit has as many as fit, and none that is missing is earlier.
LEMMA ListKeptEnd ==
  ASSUME NEW D, IsFiniteSet(D), \A x \in D : x.time \in Int, NEW M \in Nat, NEW c, ListKept(c, D, M), Len(c) <= M
  PROVE  /\ Len(c) = IF M < Cardinality(D) THEN M ELSE Cardinality(D)
         /\ Held(c) \subseteq D /\ Single(c)
         /\ \A y \in Held(c), x \in D : x.time < y.time => x \in Held(c)
<1>1. Single(c) /\ KeptOf(Held(c), D, M)
  BY DEF ListKept
<1>2. PICK R : R = Held(c)
  OBVIOUS
<1>3. IsFiniteSet(R) /\ Cardinality(R) = Len(c) /\ Len(c) \in Nat
  BY <1>1, <1>2, SingleHolds
<1>4. R \subseteq D /\ \A x \in D \ R : \E X \in SUBSET R : Cardinality(X) = M /\ \A y \in X : y.time <= x.time
  BY <1>1, <1>2 DEF KeptOf
<1>5. Cardinality(D) \in Nat /\ Cardinality(R) <= Cardinality(D) /\ (Cardinality(R) = Cardinality(D) => R = D)
  <2>1. R \in SUBSET D
    BY <1>4
  <2> QED  BY <2>1, FS_Subset, FS_CardinalityType
<1>6. ASSUME NEW x \in D \ R PROVE Cardinality(R) = M /\ \A y \in R : y.time <= x.time
  <2>1. PICK X \in SUBSET R : Cardinality(X) = M /\ \A y \in X : y.time <= x.time
    BY <1>4
  <2>2. Cardinality(X) <= Cardinality(R) /\ (Cardinality(R) = Cardinality(X) => R = X)
    BY <1>3, FS_Subset
  <2>3. Cardinality(R) = M
    BY <1>3, <2>1, <2>2
  <2> QED  BY <2>1, <2>2, <2>3
<1>7. Len(c) = IF M < Cardinality(D) THEN M ELSE Cardinality(D)
  <2>1. CASE R = D
    BY <1>3, <1>5, <2>1
  <2>2. CASE R # D
    <3>1. PICK x \in D \ R : TRUE
      BY <1>4, <2>2
    <3>2. Cardinality(R) = M
      BY <1>6, <3>1
    <3> QED  BY <1>3, <1>5, <2>2, <3>2
  <2> QED  BY <2>1, <2>2
<1>8. ASSUME NEW y \in R, NEW x \in D, x.time < y.time PROVE x \in R
  <2> SUFFICES ASSUME x \notin R PROVE FALSE
    OBVIOUS
  <2>1. y.time <= x.time
    BY <1>6
  <2>2. x.time \in Int /\ y.time \in Int
    BY <1>4
  <2> QED  BY <1>8, <2>1, <2>2
<1> QED  BY <1>1, <1>2, <1>4, <1>7, <1>8

\* Of CloudTrail records the first that come are kept.
LEMMA FirstKeptMore ==
  ASSUME NEW D, IsFiniteSet(D), NEW M \in Nat, NEW c, FirstKept(c, D, M), NEW x, x \notin D
  PROVE  FirstKept(IF Len(c) < M THEN Append(c, x) ELSE c, D \cup {x}, M)
<1>1. Single(c) /\ Held(c) \subseteq D /\ Len(c) = IF M < Cardinality(D) THEN M ELSE Cardinality(D)
  BY DEF FirstKept
<1>2. Cardinality(D \cup {x}) = Cardinality(D) + 1 /\ Cardinality(D) \in Nat
  BY OneMore
<1>3. CASE Len(c) < M
  <2>1. Single(Append(c, x)) /\ Held(Append(c, x)) = Held(c) \cup {x} /\ Len(Append(c, x)) = Len(c) + 1
    BY <1>1, SingleMore
  <2>2. Len(Append(c, x)) = IF M < Cardinality(D \cup {x}) THEN M ELSE Cardinality(D \cup {x})
    BY <1>1, <1>2, <1>3, <2>1
  <2> QED  BY <1>1, <1>3, <2>1, <2>2 DEF FirstKept
<1>4. CASE ~(Len(c) < M)
  <2>1. Len(c) = IF M < Cardinality(D \cup {x}) THEN M ELSE Cardinality(D \cup {x})
    BY <1>1, <1>2, <1>4
  <2> QED  BY <1>1, <1>4, <2>1 DEF FirstKept
<1> QED  BY <1>3, <1>4

\* What a list begins with.
LEMMA SinglePrefix ==
  ASSUME NEW c, Single(c), NEW n \in Nat, n <= Len(c)
  PROVE  Single(SubSeq(c, 1, n)) /\ Held(SubSeq(c, 1, n)) \subseteq Held(c) /\ Len(SubSeq(c, 1, n)) = n
<1>1. PICK r : r = SubSeq(c, 1, n)
  OBVIOUS
<1>2. c \in Seq(Held(c)) /\ Len(c) \in Nat /\ DOMAIN c = 1..Len(c)
  BY ListFacts DEF Single, IsList, Held
<1>3. Len(r) = n /\ DOMAIN r = 1..n /\ \A i \in 1..n : r[i] = c[i]
  BY <1>1, <1>2
<1>4. r = [i \in 1..n |-> r[i]]
  BY <1>1, <1>2
<1>5. IsList(r)
  BY <1>4, ListOf
<1>6. \A i \in 1..n : i \in DOMAIN c
  BY <1>2
<1>7. \A i, j \in DOMAIN r : r[i] = r[j] => i = j
  BY <1>3, <1>6 DEF Single
<1>8. Held(r) \subseteq Held(c)
  BY <1>3, <1>6 DEF Held
<1> QED  BY <1>1, <1>3, <1>5, <1>7, <1>8 DEF Single

\* The first entries of two lists, one after the other, up to the cap.
LEMMA FirstKeptJoin ==
  ASSUME NEW D, IsFiniteSet(D), NEW E, IsFiniteSet(E), D \cap E = {}, NEW M \in Nat,
         NEW c, FirstKept(c, D, M), NEW d, FirstKept(d, E, M)
  PROVE  FirstKept(SubSeq(c \o d, 1, Min({Len(c \o d), M})), D \cup E, M)
<1>1. /\ Single(c) /\ Held(c) \subseteq D /\ Len(c) = IF M < Cardinality(D) THEN M ELSE Cardinality(D)
      /\ Single(d) /\ Held(d) \subseteq E /\ Len(d) = IF M < Cardinality(E) THEN M ELSE Cardinality(E)
  BY DEF FirstKept
<1>2. Held(c) \cap Held(d) = {}
  BY <1>1
<1>3. PICK r : r = c \o d
  OBVIOUS
<1>4. Single(r) /\ Held(r) = Held(c) \cup Held(d) /\ Len(r) = Len(c) + Len(d)
  BY <1>1, <1>2, <1>3, SingleJoin
<1>5. Cardinality(D \cup E) = Cardinality(D) + Cardinality(E) /\ Cardinality(D) \in Nat /\ Cardinality(E) \in Nat
  BY ApartAddUp, FS_CardinalityType
<1>6. PICK x \in Nat, y \in Nat : x = Cardinality(D) /\ y = Cardinality(E)
  BY <1>5
<1>7. PICK m : m = IF Len(r) < M THEN Len(r) ELSE M
  OBVIOUS
<1>8. Len(r) = (IF M < x THEN M ELSE x) + (IF M < y THEN M ELSE y)
  BY <1>1, <1>4, <1>6
<1>9. Len(r) \in Nat /\ m \in Nat /\ m <= Len(r) /\ m <= M /\ m = IF M < x + y THEN M ELSE x + y
  BY <1>7, <1>8
<1>10. Min({Len(r), M}) = m
  <2>1. {Len(r), M} \in SUBSET Int
    BY <1>9
  <2>2. m \in {Len(r), M}
    BY <1>7
  <2>3. \A z \in {Len(r), M} : m <= z
    BY <1>9
  <2> QED  BY <2>1, <2>2, <2>3, MinMaxAre
<1>11. Single(SubSeq(r, 1, m)) /\ Held(SubSeq(r, 1, m)) \subseteq Held(r) /\ Len(SubSeq(r, 1, m)) = m
  BY <1>4, <1>9, SinglePrefix
<1>12. Held(SubSeq(r, 1, m)) \subseteq D \cup E
  BY <1>1, <1>4, <1>11
<1>13. Len(SubSeq(r, 1, m)) = IF M < Cardinality(D \cup E) THEN M ELSE Cardinality(D \cup E)
  BY <1>5, <1>6, <1>9, <1>11
<1>14. FirstKept(SubSeq(r, 1, m), D \cup E, M)
  BY <1>11, <1>12, <1>13 DEF FirstKept
<1> QED  BY <1>3, <1>10, <1>14

\* Sorted, the first entries are still the first ones.
LEMMA FirstKeptCut ==
  ASSUME NEW D, IsFiniteSet(D), \A x \in D : x.time \in Int, NEW M \in Nat, NEW c, FirstKept(c, D, M)
  PROVE  /\ FirstKept(earliest(c, M), D, M)
         /\ \A p, q \in DOMAIN earliest(c, M) : p <= q => earliest(c, M)[p].time <= earliest(c, M)[q].time
<1>1. Single(c) /\ Held(c) \subseteq D /\ Len(c) = IF M < Cardinality(D) THEN M ELSE Cardinality(D)
  BY DEF FirstKept
<1>2. \A x \in Held(c) : x.time \in Int
  BY <1>1
<1>3. PICK r : r = earliest(c, M)
  OBVIOUS
<1>4. /\ Single(r) /\ Held(r) \subseteq Held(c) /\ Len(r) = IF M < Len(c) THEN M ELSE Len(c)
      /\ \A p, q \in DOMAIN r : p <= q => r[p].time <= r[q].time
  <2>1. LET q == earliest(c, M) IN
         /\ Single(q) /\ Held(q) \subseteq Held(c) /\ Len(q) = IF M < Len(c) THEN M ELSE Len(c)
         /\ \A y \in Held(q), x \in Held(c) \ Held(q) : y.time <= x.time
         /\ \A p, s \in DOMAIN q : p <= s => q[p].time <= q[s].time
    BY <1>1, <1>2, SingleCut
  <2> QED  BY <1>3, <2>1
<1>5. Cardinality(D) \in Nat
  BY FS_CardinalityType
<1>6. Len(r) = Len(c)
  BY <1>1, <1>4, <1>5
<1>7. FirstKept(r, D, M)
  BY <1>1, <1>4, <1>6 DEF FirstKept
<1> QED  BY <1>3, <1>4, <1>7

\* The ids of a list without repetition, of entries no two of which share one.
LEMMA IdsOf ==
  ASSUME NEW D, \A x, y \in D : x.id = y.id => x = y, NEW c, Single(c), Held(c) \subseteq D
  PROVE  LET ids == {c[i].id : i \in DOMAIN c} IN
         /\ Cardinality(ids) = Len(c) /\ ids \subseteq {e.id : e \in D}
         /\ \A e \in D : e.id \in ids <=> e \in Held(c)
<1>1. PICK ids : ids = {c[i].id : i \in DOMAIN c}
  OBVIOUS
<1>2. \A i \in DOMAIN c : c[i] \in D
  BY DEF Held
<1>3. IsFiniteSet(DOMAIN c) /\ Cardinality(DOMAIN c) = Len(c)
  BY ListFacts DEF Single
<1>4. PICK d : d = DOMAIN c
  OBVIOUS
<1>5. PICK f : f = [i \in d |-> c[i].id]
  OBVIOUS
<1>6. f \in [d -> ids] /\ (\A i, j \in d : f[i] = f[j] => i = j) /\ \A y \in ids : \E i \in d : f[i] = y
  BY <1>1, <1>2, <1>4, <1>5 DEF Single
<1>7. f \in Injection(d, ids) /\ f \in Surjection(d, ids)
  BY <1>6 DEF Injection, IsInjective, Surjection
<1>8. IsFiniteSet(d)
  BY <1>3, <1>4
<1>9. Cardinality(ids) = Cardinality(d)
  BY <1>7, <1>8, FS_Surjection
<1>10. ids \subseteq {e.id : e \in D}
  BY <1>1, <1>2
<1>11. \A e \in D : e.id \in ids <=> e \in Held(c)
  BY <1>1, <1>2 DEF Held
<1> QED  BY <1>1, <1>3, <1>4, <1>9, <1>10, <1>11

-----------------------------------------------------------------------------
(*****************************************************************************)
(* The summary of S3 requests: its capped counters, anonymous requests and   *)
(* access changes, then the whole.                                           *)
(*****************************************************************************)

\* The choices of one of sets[n] for each of some names.
PicksOf(sets, names) == {f \in [names -> UNION {sets[n] : n \in names}] : \A n \in names : f[n] \in sets[n]}
One0(names) == CHOOSE x \in names : TRUE
Extended(sets, names, n, F) == {[m \in names |-> IF m = n THEN x ELSE f[m]] : x \in sets[n], f \in F}
PicksBy(g, sets) ==
  g = [names \in SUBSET DOMAIN sets |-> IF names = {} THEN {<<>>} ELSE Extended(sets, names, One0(names), g[names \ {One0(names)}])]

\* A pick for every name is one of the function that EveryPick is defined by.
LEMMA PickUnfolds ==
  ASSUME NEW sets
  PROVE  EveryPick(sets) = (CHOOSE g : PicksBy(g, sets))[DOMAIN sets]
BY DEF EveryPick, PicksBy, Extended, One0

\* A choice for a name more.
LEMMA ChoicesMore ==
  ASSUME NEW sets, NEW names, NEW n \in names
  PROVE  PicksOf(sets, names) = Extended(sets, names, n, PicksOf(sets, names \ {n}))
<1>1. PICK less : less = names \ {n}
  OBVIOUS
<1>2. ASSUME NEW h \in PicksOf(sets, names) PROVE h \in Extended(sets, names, n, PicksOf(sets, less))
  <2>1. h = [m \in names |-> h[m]] /\ \A m \in names : h[m] \in sets[m]
    BY DEF PicksOf
  <2>2. PICK f : f = [m \in less |-> h[m]]
    OBVIOUS
  <2>3. f \in PicksOf(sets, less)
    BY <1>1, <2>1, <2>2 DEF PicksOf
  <2>4. h = [m \in names |-> IF m = n THEN h[n] ELSE f[m]]
    BY <1>1, <2>1, <2>2
  <2> QED  BY <2>1, <2>3, <2>4 DEF Extended
<1>3. ASSUME NEW h \in Extended(sets, names, n, PicksOf(sets, less)) PROVE h \in PicksOf(sets, names)
  <2>1. PICK x \in sets[n], f \in PicksOf(sets, less) : h = [m \in names |-> IF m = n THEN x ELSE f[m]]
    BY DEF Extended
  <2>2. \A m \in less : f[m] \in sets[m]
    BY DEF PicksOf
  <2>3. \A m \in names : h[m] \in sets[m]
    BY <1>1, <2>1, <2>2
  <2>4. h \in [names -> UNION {sets[m] : m \in names}]
    BY <2>1, <2>3
  <2> QED  BY <2>3, <2>4 DEF PicksOf
<1> QED  BY <1>1, <1>2, <1>3

\* EveryPick: a choice of a member for every name.
LEMMA PicksAre ==
  ASSUME NEW sets, IsFiniteSet(DOMAIN sets)
  PROVE  EveryPick(sets) = PicksOf(sets, DOMAIN sets)
<1>1. PICK D : D = DOMAIN sets
  OBVIOUS
<1>2. PicksOf(sets, {}) = {<<>>}
  <2>1. \A h : h \in PicksOf(sets, {}) <=> h \in [{} -> UNION {sets[n] : n \in {}}]
    BY DEF PicksOf
  <2>2. \A B : [{} -> B] = {<<>>}
    <3>1. \A B, h : h \in [{} -> B] => h = <<>>
      <4> SUFFICES ASSUME NEW B, NEW h \in [{} -> B] PROVE h = <<>>
        OBVIOUS
      <4>1. h = [i \in {} |-> h[i]] /\ <<>> = [i \in {} |-> h[i]]
        OBVIOUS
      <4> QED  BY <4>1
    <3>2. \A B : <<>> \in [{} -> B]
      OBVIOUS
    <3> QED  BY <3>1, <3>2
  <2> QED  BY <2>1, <2>2
<1>3. PICK c : c = [names \in SUBSET D |-> PicksOf(sets, names)]
  OBVIOUS
<1>4. \A names \in SUBSET D : names # {} => One0(names) \in names
  BY DEF One0
<1>5. PicksBy(c, sets)
  <2>1. ASSUME NEW names \in SUBSET D
        PROVE  c[names] = IF names = {} THEN {<<>>} ELSE Extended(sets, names, One0(names), c[names \ {One0(names)}])
    <3>1. CASE names = {}
      BY <1>2, <1>3, <3>1
    <3>2. CASE names # {}
      <4>1. PICK n \in names : n = One0(names)
        BY <1>4, <3>2
      <4>2. PicksOf(sets, names) = Extended(sets, names, n, PicksOf(sets, names \ {n}))
        BY ChoicesMore
      <4>3. c[names] = PicksOf(sets, names) /\ c[names \ {n}] = PicksOf(sets, names \ {n})
        BY <1>3
      <4> QED  BY <3>2, <4>1, <4>2, <4>3
    <3> QED  BY <3>1, <3>2
  <2> QED  BY <1>1, <1>3, <2>1 DEF PicksBy
<1>6. PICK g : g = CHOOSE h : PicksBy(h, sets)
  OBVIOUS
<1>7. PicksBy(g, sets)
  BY <1>5, <1>6
<1>8. \A names \in SUBSET D : g[names] = IF names = {} THEN {<<>>} ELSE Extended(sets, names, One0(names), g[names \ {One0(names)}])
  BY <1>1, <1>7 DEF PicksBy
<1> DEFINE P == {n \in Nat : \A names \in SUBSET D : Cardinality(names) = n => g[names] = PicksOf(sets, names)}
<1>9. 0 \in P
  <2>1. ASSUME NEW names \in SUBSET D, Cardinality(names) = 0 PROVE g[names] = PicksOf(sets, names)
    <3>1. IsFiniteSet(names)
      BY <1>1, FS_Subset
    <3>2. names = {}
      BY <2>1, <3>1, FS_EmptySet
    <3> QED  BY <1>2, <1>8, <3>2
  <2> QED  BY <2>1
<1>10. ASSUME NEW k \in Nat, k \in P PROVE k + 1 \in P
  <2>1. ASSUME NEW names \in SUBSET D, Cardinality(names) = k + 1 PROVE g[names] = PicksOf(sets, names)
    <3>1. IsFiniteSet(names)
      BY <1>1, FS_Subset
    <3>2. names # {}
      <4>1. Cardinality({}) = 0
        BY FS_EmptySet
      <4> QED  BY <2>1, <4>1
    <3>3. PICK n \in names : n = One0(names)
      BY <1>4, <3>2
    <3>4. PICK less \in SUBSET D : less = names \ {n}
      OBVIOUS
    <3>5. IsFiniteSet(less) /\ n \notin less /\ names = less \cup {n}
      BY <3>1, <3>4, FS_Subset
    <3>6. Cardinality(names) = Cardinality(less) + 1 /\ Cardinality(less) \in Nat
      BY <3>5, OneMore
    <3>7. Cardinality(less) = k
      BY <2>1, <3>6
    <3>8. g[less] = PicksOf(sets, less)
      BY <1>10, <3>7
    <3>9. g[names] = Extended(sets, names, n, g[less])
      BY <1>8, <3>2, <3>3, <3>4
    <3>10. PicksOf(sets, names) = Extended(sets, names, n, PicksOf(sets, less))
      BY <3>4, ChoicesMore
    <3> QED  BY <3>8, <3>9, <3>10
  <2> QED  BY <2>1
<1>11. \A n \in Nat : n \in P
  <2> HIDE DEF P
  <2> QED  BY <1>9, <1>10, EveryNumber
<1>12. Cardinality(D) \in Nat
  BY <1>1, FS_CardinalityType
<1>13. g[D] = PicksOf(sets, D)
  BY <1>11, <1>12
<1>14. EveryPick(sets) = g[D]
  BY <1>1, <1>6, PickUnfolds
<1> QED  BY <1>1, <1>13, <1>14

\* A pick has one of each set.
LEMMA PickIs ==
  ASSUME NEW sets, IsFiniteSet(DOMAIN sets), NEW f \in EveryPick(sets)
  PROVE  f = [n \in DOMAIN sets |-> f[n]] /\ DOMAIN f = DOMAIN sets /\ \A n \in DOMAIN sets : f[n] \in sets[n]
<1>1. f \in PicksOf(sets, DOMAIN sets)
  BY PicksAre
<1> QED  BY <1>1 DEF PicksOf

-----------------------------------------------------------------------------
\* K gives each entry of U its keys by name, and how much it adds to each.
KeyOf(K, n) == [e \in DOMAIN K |-> K[e][n].key]
MuchOf(K, n) == [e \in DOMAIN K |-> K[e][n].n]
Weighing(K, names, U) == IsFiniteSet(names) /\ DOMAIN K = U /\ \A e \in U, n \in names : K[e][n].n \in Nat
CapsAre(c, K, names, S) == DOMAIN c = names /\ \A n \in names : CapIs(c[n], KeyOf(K, n), MuchOf(K, n), S)

\* All there is to say of capped counters by name.
LEMMA CapsRules ==
  ASSUME NEW U, IsFiniteSet(U), NEW K, NEW names, Weighing(K, names, U), NEW max
  PROVE  /\ CapsAre(NoKeys(names), K, names, {})
         /\ \A S \in SUBSET U, e \in U : \A s : CapsAre(s, K, names, S) /\ e \notin S
              => CapsAre([n \in DOMAIN s |-> capAdd(s[n], K[e][n].key, K[e][n].n, max)], K, names, S \cup {e})
         /\ \A S, T \in SUBSET U : \A s, t, r : CapsAre(s, K, names, S) /\ CapsAre(t, K, names, T) /\ S \cap T = {}
              /\ r \in EveryPick([n \in names |-> capMerge(s[n], t[n], max)]) => CapsAre(r, K, names, S \cup T)
<1>1. \A S \in SUBSET U : IsFiniteSet(S)
  BY FS_Subset
<1>2. \A n \in names, e \in U : KeyOf(K, n)[e] = K[e][n].key /\ MuchOf(K, n)[e] = K[e][n].n /\ MuchOf(K, n)[e] \in Nat
  BY DEF Weighing, KeyOf, MuchOf
<1>3. CapsAre(NoKeys(names), K, names, {})
  BY CapStart DEF CapsAre, NoKeys
<1>4. ASSUME NEW S \in SUBSET U, NEW e \in U, NEW s, CapsAre(s, K, names, S), e \notin S
      PROVE  CapsAre([n \in DOMAIN s |-> capAdd(s[n], K[e][n].key, K[e][n].n, max)], K, names, S \cup {e})
  <2>1. ASSUME NEW n \in names
        PROVE  CapIs(capAdd(s[n], K[e][n].key, K[e][n].n, max), KeyOf(K, n), MuchOf(K, n), S \cup {e})
    <3>1. PICK f, w : f = KeyOf(K, n) /\ w = MuchOf(K, n)
      OBVIOUS
    <3>2. f[e] = K[e][n].key /\ w[e] = K[e][n].n /\ \A x \in S \cup {e} : w[x] \in Nat
      BY <1>2, <3>1
    <3>3. CapIs(s[n], f, w, S) /\ IsFiniteSet(S)
      BY <1>1, <1>4, <3>1 DEF CapsAre
    <3>4. CapIs(capAdd(s[n], f[e], w[e], max), f, w, S \cup {e})
      BY <1>4, <3>2, <3>3, CapAdd
    <3> QED  BY <3>1, <3>2, <3>4
  <2>2. DOMAIN s = names
    BY <1>4 DEF CapsAre
  <2>3. PICK r : r = [n \in DOMAIN s |-> capAdd(s[n], K[e][n].key, K[e][n].n, max)]
    OBVIOUS
  <2>4. DOMAIN r = names /\ \A n \in names : r[n] = capAdd(s[n], K[e][n].key, K[e][n].n, max)
    BY <2>2, <2>3
  <2>5. CapsAre(r, K, names, S \cup {e})
    BY <2>1, <2>4 DEF CapsAre
  <2> QED  BY <2>3, <2>5
<1>5. ASSUME NEW S \in SUBSET U, NEW T \in SUBSET U, NEW s, NEW t, NEW r, CapsAre(s, K, names, S), CapsAre(t, K, names, T), S \cap T = {},
             r \in EveryPick([n \in names |-> capMerge(s[n], t[n], max)])
      PROVE  CapsAre(r, K, names, S \cup T)
  <2>1. PICK sets : sets = [n \in names |-> capMerge(s[n], t[n], max)]
    OBVIOUS
  <2>2. DOMAIN sets = names /\ IsFiniteSet(names) /\ \A n \in names : sets[n] = capMerge(s[n], t[n], max)
    BY <2>1 DEF Weighing
  <2>3. r \in EveryPick(sets)
    BY <1>5, <2>1
  <2>4. DOMAIN r = names /\ \A n \in names : r[n] \in capMerge(s[n], t[n], max)
    BY <2>2, <2>3, PickIs
  <2>5. ASSUME NEW n \in names PROVE CapIs(r[n], KeyOf(K, n), MuchOf(K, n), S \cup T)
    <3>1. PICK f, w : f = KeyOf(K, n) /\ w = MuchOf(K, n)
      OBVIOUS
    <3>2. \A x \in S \cup T : w[x] \in Nat
      BY <1>2, <3>1
    <3>3. CapIs(s[n], f, w, S) /\ CapIs(t[n], f, w, T) /\ IsFiniteSet(S) /\ IsFiniteSet(T) /\ r[n] \in capMerge(s[n], t[n], max)
      BY <1>1, <1>5, <2>4, <3>1 DEF CapsAre
    <3>4. CapIs(r[n], f, w, S \cup T)
      BY <1>5, <3>2, <3>3, CapMerge
    <3> QED  BY <3>1, <3>4
  <2> QED  BY <2>4, <2>5 DEF CapsAre
<1> QED  BY <1>3, <1>4, <1>5

\* What a capped counter that is as it should be says of the entries K it counts.
CapTold(c, f, w, K) ==
  LET truth(k) == Sum([e \in {x \in K : f[x] = k} |-> w[e]], {x \in K : f[x] = k})
  IN  /\ Sum(c, DOMAIN c) = Sum([e \in K |-> w[e]], K)
      /\ \A k \in DOMAIN c \ {OtherKey} : c[k] > 0 /\ c[k] <= truth(k)
      /\ OtherKey \notin DOMAIN c => DOMAIN c = {f[e] : e \in K} /\ \A k \in DOMAIN c : c[k] = truth(k)
CountedBy(K, f, w, S) == K = {e \in S : f[e] # "" /\ w[e] > 0}

\* A capped counter that folded nothing counts exactly; one that folded gives no key too much, and
\* loses nothing of the total.
LEMMA CapEnd ==
  ASSUME NEW f, NEW w, NEW S, IsFiniteSet(S), \A e \in S : w[e] \in Nat, NEW c, CapIs(c, f, w, S),
         NEW K, CountedBy(K, f, w, S)
  PROVE  CapTold(c, f, w, K)
<1>2. \A e : e \in K <=> e \in S /\ f[e] # "" /\ w[e] > 0
  BY Zenon DEF CountedBy
<1>1. K = Weighty(f, w, S)
  <2>1. \A e : e \in Weighty(f, w, S) <=> e \in S /\ f[e] # "" /\ w[e] > 0
    BY Zenon DEF Weighty, Keyed, Positive
  <2>2. \A e : e \in K <=> e \in Weighty(f, w, S)
    BY Zenon, <1>2, <2>1
  <2> QED  BY Zenon, <2>2
<1>3. K \in SUBSET S /\ IsFiniteSet(K)
  <2>1. \A e \in K : e \in S
    BY Zenon, <1>2
  <2> QED  BY <2>1, FS_Subset
<1>4. ASSUME NEW T \in SUBSET K PROVE Sum([e \in T |-> w[e]], T) = Sum(w, T)
  <2>1. PICK g : g = [e \in T |-> w[e]]
    OBVIOUS
  <2>2. IsFiniteSet(T)
    BY <1>3, FS_Subset
  <2>5. \A e \in T : e \in S
    BY Zenon, <1>3
  <2>6. \A e \in T : w[e] \in Nat
    BY Zenon, <2>5
  <2>7. \A n \in Nat : n \in Int
    OBVIOUS
  <2>8. \A e \in T : g[e] = w[e]
    BY Zenon, <2>1
  <2>3. \A e \in T : w[e] \in Int /\ g[e] = w[e]
    BY Zenon, <2>6, <2>7, <2>8
  <2>4. Sum(g, T) = Sum(w, T)
    BY <2>2, <2>3, SumSame
  <2> QED  BY <2>1, <2>4
<1>5. Sum(c, DOMAIN c) = Sum([e \in K |-> w[e]], K)
  <2>1. Sum([e \in K |-> w[e]], K) = Sum(w, K)
    BY <1>4
  <2> QED  BY <1>1, <2>1 DEF CapIs
<1>6. \A k : Truth(f, w, S, k) = Sum([e \in {x \in K : f[x] = k} |-> w[e]], {x \in K : f[x] = k})
  <2> SUFFICES ASSUME NEW k PROVE Truth(f, w, S, k) = Sum([e \in {x \in K : f[x] = k} |-> w[e]], {x \in K : f[x] = k})
    OBVIOUS
  <2>1. PICK T : T = {x \in K : f[x] = k}
    OBVIOUS
  <2>2. T \in SUBSET K
    BY <2>1
  <2>3. Sum([e \in T |-> w[e]], T) = Sum(w, T)
    BY <1>4, <2>2
  <2> QED  BY <1>1, <2>1, <2>3 DEF Truth
<1>7. /\ \A k \in DOMAIN c \ {OtherKey} : c[k] > 0 /\ c[k] <= Truth(f, w, S, k)
      /\ OtherKey \notin DOMAIN c => DOMAIN c = {f[e] : e \in K} /\ \A k \in DOMAIN c : c[k] = Truth(f, w, S, k)
  BY <1>1 DEF CapIs
<1> QED  BY <1>5, <1>6, <1>7 DEF CapTold

\* The keys of finitely many entries are finitely many.
LEMMA KeysFinite ==
  ASSUME NEW S, IsFiniteSet(S), NEW h, NEW X
  PROVE  IsFiniteSet({h[e] : e \in S}) /\ IsFiniteSet(KeySet(h, X, S))
<1>1. PICK H, f : H = {h[e] : e \in S} /\ f = [e \in S |-> h[e]]
  OBVIOUS
<1>2. f \in Surjection(S, H)
  BY <1>1 DEF Surjection
<1>3. IsFiniteSet(H)
  BY <1>2, FS_Surjection
<1>4. KeySet(h, X, S) \in SUBSET H
  BY <1>1 DEF KeySet
<1> QED  BY <1>1, <1>3, <1>4, FS_Subset

-----------------------------------------------------------------------------
\* What is known of the anonymous requests S to a bucket.
OpsIn(U) == [e \in U |-> e.operation]
IpsIn(U) == [e \in U |-> e.ip]
KeysIn(U) == [e \in U |-> e.key]
OnesIn(U) == [e \in U |-> 1]
FirstIs(t, S) == (S = {} => t = 0) /\ (S # {} => (\E e \in S : t = e.time) /\ \A e \in S : t <= e.time)
AnonIs(d, U, S) ==
  /\ d.count = Cardinality(S) /\ FirstIs(d.first, S) /\ d.ops = Counter(OpsIn(U), Keyed(OpsIn(U), S))
  /\ CapIs(d.ips, IpsIn(U), OnesIn(U), S) /\ CapIs(d.keys, KeysIn(U), OnesIn(U), S)
AnonsBy(m, h, U, S) == KeyedBy(m, h, {}, S) /\ \A k \in DOMAIN m : AnonIs(m[k], U, Having(h, k, S))

\* The first of two sets of times.
LEMMA FirstMerge ==
  ASSUME NEW S, NEW T, \A e \in S \cup T : e.time \in Nat /\ e.time > 0, NEW t, FirstIs(t, S), NEW u, FirstIs(u, T)
  PROVE  FirstIs(IF t = 0 \/ (u # 0 /\ u < t) THEN u ELSE t, S \cup T)
<1>1. PICK m : m = IF t = 0 \/ (u # 0 /\ u < t) THEN u ELSE t
  OBVIOUS
<1>2. /\ S = {} => t = 0
      /\ S # {} => t \in Nat /\ t > 0 /\ (\E e \in S : t = e.time) /\ \A e \in S : t <= e.time
      /\ T = {} => u = 0
      /\ T # {} => u \in Nat /\ u > 0 /\ (\E e \in T : u = e.time) /\ \A e \in T : u <= e.time
  BY DEF FirstIs
<1>3. S \cup T = {} => m = 0
  BY <1>1, <1>2
<1>4. S \cup T # {} => (\E e \in S \cup T : m = e.time) /\ \A e \in S \cup T : m <= e.time
  <2>1. CASE S = {}
    BY <1>1, <1>2, <2>1
  <2>2. CASE S # {} /\ T = {}
    BY <1>1, <1>2, <2>2
  <2>3. CASE S # {} /\ T # {}
    <3>1. CASE u < t
      BY <1>1, <1>2, <2>3, <3>1
    <3>2. CASE ~(u < t)
      BY <1>1, <1>2, <2>3, <3>2
    <3> QED  BY <3>1, <3>2
  <2> QED  BY <2>1, <2>2, <2>3
<1> QED  BY <1>1, <1>3, <1>4 DEF FirstIs

\* No anonymous request yet.
LEMMA AnonStart ==
  ASSUME NEW U
  PROVE  AnonIs(NoAnon, U, {})
<1>1. NoAnon.count = 0 /\ NoAnon.first = 0 /\ NoAnon.ops = EmptyBag /\ NoAnon.ips = EmptyBag /\ NoAnon.keys = EmptyBag
  BY DEF NoAnon
<1>2. Keyed(OpsIn(U), {}) = {}
  BY DEF Keyed
<1>3. Counter(OpsIn(U), {}) = EmptyBag /\ Cardinality({}) = 0
  BY CounterEmpty, FS_EmptySet
<1>4. CapIs(EmptyBag, IpsIn(U), OnesIn(U), {}) /\ CapIs(EmptyBag, KeysIn(U), OnesIn(U), {})
  BY CapStart
<1>5. FirstIs(0, {})
  BY DEF FirstIs
<1> QED  BY <1>1, <1>2, <1>3, <1>4, <1>5 DEF AnonIs

\* mergeAnon: anonymous requests of two sets of entries.
LEMMA AnonMerge ==
  ASSUME NEW U, IsFiniteSet(U), \A e \in U : e.time \in Nat /\ e.time > 0,
         NEW S \in SUBSET U, NEW T \in SUBSET U, S \cap T = {},
         NEW c, AnonIs(c, U, S), NEW d, AnonIs(d, U, T), NEW r \in mergeAnon(c, d)
  PROVE  AnonIs(r, U, S \cup T)
<1>1. IsFiniteSet(S) /\ IsFiniteSet(T)
  BY FS_Subset
<1>2. /\ r.count = c.count + d.count /\ r.first = IF c.first = 0 \/ (d.first # 0 /\ d.first < c.first) THEN d.first ELSE c.first
      /\ r.ops = c.ops (+) d.ops /\ r.ips \in capMerge(c.ips, d.ips, S3MaxKeys) /\ r.keys \in capMerge(c.keys, d.keys, S3MaxKeys)
  BY DEF mergeAnon
<1>3. r.count = Cardinality(S \cup T)
  <2>1. Cardinality(S \cup T) = Cardinality(S) + Cardinality(T)
    BY <1>1, ApartAddUp
  <2> QED  BY <1>2, <2>1 DEF AnonIs
<1>4. r.ops = Counter(OpsIn(U), Keyed(OpsIn(U), S \cup T))
  <2>1. PICK x : x = OpsIn(U)
    OBVIOUS
  <2>2. c.ops = Counter(x, Keyed(x, S)) /\ d.ops = Counter(x, Keyed(x, T))
    BY <2>1 DEF AnonIs
  <2>3. Counter(x, Keyed(x, S)) (+) Counter(x, Keyed(x, T)) = Counter(x, Keyed(x, S \cup T))
    BY <1>1, CounterMerge
  <2> QED  BY <1>2, <2>1, <2>2, <2>3
<1>5. PICK i, q, w : i = IpsIn(U) /\ q = KeysIn(U) /\ w = OnesIn(U)
  OBVIOUS
<1>6. \A e \in S \cup T : w[e] \in Nat
  BY <1>5 DEF OnesIn
<1>7. CapIs(c.ips, i, w, S) /\ CapIs(d.ips, i, w, T) /\ CapIs(c.keys, q, w, S) /\ CapIs(d.keys, q, w, T)
  BY <1>5 DEF AnonIs
<1>8. CapIs(r.ips, i, w, S \cup T)
  BY <1>1, <1>2, <1>6, <1>7, CapMerge
<1>9. CapIs(r.keys, q, w, S \cup T)
  BY <1>1, <1>2, <1>6, <1>7, CapMerge
<1>10. FirstIs(r.first, S \cup T)
  <2>1. FirstIs(c.first, S) /\ FirstIs(d.first, T)
    BY DEF AnonIs
  <2>2. \A e \in S \cup T : e.time \in Nat /\ e.time > 0
    OBVIOUS
  <2> QED  BY <1>2, <2>1, <2>2, FirstMerge
<1> QED  BY <1>3, <1>4, <1>5, <1>8, <1>9, <1>10 DEF AnonIs

\* anonHit: an anonymous request more.
LEMMA AnonMore ==
  ASSUME NEW U, IsFiniteSet(U), \A e \in U : e.time \in Nat /\ e.time > 0,
         NEW S \in SUBSET U, NEW e \in U, e \notin S, NEW c, AnonIs(c, U, S)
  PROVE  AnonIs(anonHit(c, e), U, S \cup {e})
<1>1. IsFiniteSet(S) /\ IsFiniteSet({e}) /\ S \cap {e} = {}
  BY FS_Subset, FS_Singleton
<1>2. PICK r : r = anonHit(c, e)
  OBVIOUS
<1>3. /\ r.count = c.count + 1 /\ r.first = IF c.first = 0 \/ e.time < c.first THEN e.time ELSE c.first
      /\ r.ips = capAdd(c.ips, e.ip, 1, S3MaxKeys) /\ r.keys = capAdd(c.keys, e.key, 1, S3MaxKeys) /\ r.ops = add(c.ops, e.operation)
  BY <1>2 DEF anonHit
<1>4. r.count = Cardinality(S \cup {e})
  <2>1. Cardinality(S \cup {e}) = Cardinality(S) + 1
    BY <1>1, OneMore
  <2> QED  BY <1>3, <2>1 DEF AnonIs
<1>5. PICK i, q, w, x : i = IpsIn(U) /\ q = KeysIn(U) /\ w = OnesIn(U) /\ x = OpsIn(U)
  OBVIOUS
<1>6. i[e] = e.ip /\ q[e] = e.key /\ w[e] = 1 /\ x[e] = e.operation
  BY <1>5 DEF IpsIn, KeysIn, OnesIn, OpsIn
<1>7. \A y \in S \cup {e} : w[y] \in Nat
  BY <1>5 DEF OnesIn
<1>8. CapIs(c.ips, i, w, S) /\ CapIs(c.keys, q, w, S) /\ c.ops = Counter(x, Keyed(x, S))
  BY <1>5 DEF AnonIs
<1>9. CapIs(capAdd(c.ips, i[e], w[e], S3MaxKeys), i, w, S \cup {e})
  BY <1>1, <1>7, <1>8, CapAdd
<1>10. CapIs(capAdd(c.keys, q[e], w[e], S3MaxKeys), q, w, S \cup {e})
  BY <1>1, <1>7, <1>8, CapAdd
<1>11. add(Counter(x, Keyed(x, S)), x[e]) = Counter(x, Keyed(x, S \cup {e}))
  BY Zenon, <1>1, CounterAdd
<1>12. FirstIs(r.first, S \cup {e})
  <2>1. FirstIs(c.first, S) /\ e.time \in Nat /\ e.time > 0
    BY DEF AnonIs
  <2>2. FirstIs(e.time, {e})
    BY <2>1 DEF FirstIs
  <2>3. \A y \in S \cup {e} : y.time \in Nat /\ y.time > 0
    OBVIOUS
  <2>4. FirstIs(IF c.first = 0 \/ (e.time # 0 /\ e.time < c.first) THEN e.time ELSE c.first, S \cup {e})
    BY <2>1, <2>2, <2>3, FirstMerge
  <2>5. e.time # 0
    BY <2>1
  <2> QED  BY <1>3, <2>4, <2>5
<1> QED  BY <1>2, <1>3, <1>4, <1>5, <1>6, <1>8, <1>9, <1>10, <1>11, <1>12 DEF AnonIs

\* Maps of them are merged key by key.
LEMMA AnonsMerge ==
  ASSUME NEW h, NEW U, IsFiniteSet(U), \A e \in U : e.time \in Nat /\ e.time > 0,
         NEW S \in SUBSET U, NEW T \in SUBSET U, S \cap T = {},
         NEW m, AnonsBy(m, h, U, S), NEW o, AnonsBy(o, h, U, T),
         NEW n, Changed(n, m, DOMAIN o), \A k \in DOMAIN o : n[k] \in mergeAnon(ValueAt(m, k, NoAnon), o[k])
  PROVE  AnonsBy(n, h, U, S \cup T)
<1>1. KeyedBy(m, h, {}, S) /\ KeyedBy(o, h, {}, T)
  BY DEF AnonsBy
<1>2. /\ KeyedBy(n, h, {}, S \cup T)
      /\ \A k \in DOMAIN n :
           /\ Having(h, k, S \cup T) = Having(h, k, S) \cup Having(h, k, T)
           /\ Having(h, k, S) \cap Having(h, k, T) = {}
           /\ k \notin DOMAIN m => Having(h, k, S) = {}
           /\ k \notin DOMAIN o => Having(h, k, T) = {} /\ k \in DOMAIN m /\ n[k] = m[k]
  BY <1>1, HavingFacts
<1>3. ASSUME NEW k \in DOMAIN n PROVE AnonIs(n[k], U, Having(h, k, S \cup T))
  <2>1. PICK A \in SUBSET U, B \in SUBSET U : A = Having(h, k, S) /\ B = Having(h, k, T)
    BY DEF Having
  <2>2. CASE k \in DOMAIN o
    <3>1. AnonIs(o[k], U, B)
      BY <2>1, <2>2 DEF AnonsBy
    <3>2. PICK v : v = ValueAt(m, k, NoAnon)
      OBVIOUS
    <3>3. AnonIs(v, U, A)
      <4>1. CASE k \in DOMAIN m
        BY <2>1, <3>2, <4>1 DEF AnonsBy, ValueAt
      <4>2. CASE k \notin DOMAIN m
        <5>1. A = {} /\ v = NoAnon
          BY <1>2, <2>1, <3>2, <4>2 DEF ValueAt
        <5> QED  BY <5>1, AnonStart
      <4> QED  BY <4>1, <4>2
    <3>4. A \cup B = Having(h, k, S \cup T) /\ A \cap B = {}
      BY <1>2, <2>1
    <3>5. n[k] \in mergeAnon(v, o[k])
      BY <2>2, <3>2
    <3>6. AnonIs(n[k], U, A \cup B)
      BY <3>1, <3>3, <3>4, <3>5, AnonMerge
    <3> QED  BY <3>4, <3>6
  <2>3. CASE k \notin DOMAIN o
    <3>1. k \in DOMAIN m /\ n[k] = m[k] /\ Having(h, k, S \cup T) = Having(h, k, S)
      BY <1>2, <2>3
    <3> QED  BY <3>1 DEF AnonsBy
  <2> QED  BY <2>2, <2>3
<1> QED  BY <1>2, <1>3 DEF AnonsBy

\* One more counts under its key.
LEMMA AnonsAdd ==
  ASSUME NEW h, NEW U, IsFiniteSet(U), \A e \in U : e.time \in Nat /\ e.time > 0,
         NEW S \in SUBSET U, NEW e \in U, e \notin S,
         NEW m, AnonsBy(m, h, U, S), NEW n, Changed(n, m, {h[e]}), n[h[e]] = anonHit(ValueAt(m, h[e], NoAnon), e)
  PROVE  AnonsBy(n, h, U, S \cup {e})
<1>1. KeyedBy(m, h, {}, S) /\ Changed(n, m, {h[e]} \ {})
  BY DEF AnonsBy
<1>2. /\ KeyedBy(n, h, {}, S \cup {e})
      /\ \A k \in DOMAIN n :
           /\ k \notin DOMAIN m => Having(h, k, S) = {}
           /\ k = h[e] => Having(h, k, S \cup {e}) = Having(h, k, S) \cup {e} /\ k \in {h[e]} \ {}
           /\ k # h[e] => Having(h, k, S \cup {e}) = Having(h, k, S) /\ k \in DOMAIN m /\ n[k] = m[k]
           /\ e \notin Having(h, k, S)
  BY <1>1, HavingMore
<1>3. ASSUME NEW k \in DOMAIN n PROVE AnonIs(n[k], U, Having(h, k, S \cup {e}))
  <2>1. PICK A \in SUBSET U : A = Having(h, k, S)
    BY DEF Having
  <2>2. CASE k = h[e]
    <3>1. PICK v : v = ValueAt(m, k, NoAnon)
      OBVIOUS
    <3>2. AnonIs(v, U, A)
      <4>1. CASE k \in DOMAIN m
        BY <2>1, <3>1, <4>1 DEF AnonsBy, ValueAt
      <4>2. CASE k \notin DOMAIN m
        <5>1. A = {} /\ v = NoAnon
          BY <1>2, <2>1, <3>1, <4>2 DEF ValueAt
        <5> QED  BY <5>1, AnonStart
      <4> QED  BY <4>1, <4>2
    <3>3. Having(h, k, S \cup {e}) = A \cup {e} /\ e \notin A
      BY <1>2, <2>1, <2>2
    <3>4. AnonIs(anonHit(v, e), U, A \cup {e})
      BY <3>2, <3>3, AnonMore
    <3> QED  BY <2>2, <3>1, <3>3, <3>4
  <2>3. CASE k # h[e]
    <3>1. k \in DOMAIN m /\ n[k] = m[k] /\ Having(h, k, S \cup {e}) = Having(h, k, S)
      BY <1>2, <2>3
    <3> QED  BY <3>1 DEF AnonsBy
  <2> QED  BY <2>2, <2>3
<1> QED  BY <1>2, <1>3 DEF AnonsBy

\* What is not repeated: no two entries have an id.
OwnIds(U) == \A e, f \in U : e.id = f.id => e = f

\* The access changes among the entries S.
ChangesOf(S) == {change(e) : e \in changes(S)}

\* The access changes of two sets of entries that have none in common.
LEMMA ChangesApart ==
  ASSUME NEW U, OwnIds(U), \A e \in U : e.time \in Nat, NEW S \in SUBSET U, NEW T \in SUBSET U, S \cap T = {}
  PROVE  /\ ChangesOf(S \cup T) = ChangesOf(S) \cup ChangesOf(T) /\ ChangesOf(S) \cap ChangesOf(T) = {}
         /\ \A x \in ChangesOf(S) \cup ChangesOf(T) : x.time \in Int
<1>1. changes(S \cup T) = changes(S) \cup changes(T) /\ changes(S) \subseteq S /\ changes(T) \subseteq T
  BY DEF changes
<1>2. ChangesOf(S \cup T) = ChangesOf(S) \cup ChangesOf(T)
  BY <1>1 DEF ChangesOf
<1>3. \A e : change(e).id = e.id /\ change(e).time = e.time
  BY DEF change
<1>4. ASSUME NEW x \in ChangesOf(S), x \in ChangesOf(T) PROVE FALSE
  <2>1. PICK e \in S, f \in T : x = change(e) /\ x = change(f)
    BY <1>1, <1>4 DEF ChangesOf
  <2>2. e.id = f.id
    BY <1>3, <2>1
  <2>3. e = f
    BY <2>2 DEF OwnIds
  <2> QED  BY <2>3
<1>5. ASSUME NEW x \in ChangesOf(S) \cup ChangesOf(T) PROVE x.time \in Int
  <2>1. PICK e \in U : x = change(e)
    BY <1>1 DEF ChangesOf
  <2>2. x.time = e.time /\ e.time \in Nat
    BY <1>3, <2>1
  <2> QED  BY <2>2
<1> QED  BY <1>2, <1>4, <1>5

\* A shard's access changes.
Longer(c, e) == IF Success(e) /\ e.operation \in AccessOps THEN Append(c, change(e)) ELSE c
Shorter(c, M) == IF Len(c) >= 2 * M THEN earliest(c, M) ELSE c

\* The list of access changes with an entry more, trimmed at twice the cap.
LEMMA ChangesMore ==
  ASSUME NEW U, OwnIds(U), \A e \in U : e.time \in Nat, NEW S \in SUBSET U, NEW e \in U, e \notin S,
         NEW M \in Nat, NEW c, ListKept(c, ChangesOf(S), M)
  PROVE  ListKept(Shorter(Longer(c, e), M), ChangesOf(S \cup {e}), M)
<1>1. /\ ChangesOf(S \cup {e}) = ChangesOf(S) \cup ChangesOf({e}) /\ ChangesOf(S) \cap ChangesOf({e}) = {}
      /\ \A x \in ChangesOf(S) \cup ChangesOf({e}) : x.time \in Int
  <2>1. {e} \in SUBSET U /\ S \cap {e} = {}
    OBVIOUS
  <2> QED  BY <2>1, ChangesApart
<1>2. PICK D : D = ChangesOf(S \cup {e})
  OBVIOUS
<1>3. ListKept(Longer(c, e), D, M)
  <2>1. CASE Success(e) /\ e.operation \in AccessOps
    <3>1. ChangesOf({e}) = {change(e)}
      BY <2>1 DEF ChangesOf, changes
    <3>2. change(e) \notin ChangesOf(S)
      BY <1>1, <3>1
    <3>3. ListKept(Append(c, change(e)), ChangesOf(S) \cup {change(e)}, M)
      BY <3>2, ListKeptMore
    <3> QED  BY <1>1, <1>2, <2>1, <3>1, <3>3 DEF Longer
  <2>2. CASE ~(Success(e) /\ e.operation \in AccessOps)
    <3>1. ChangesOf({e}) = {}
      BY <2>2 DEF ChangesOf, changes
    <3> QED  BY <1>1, <1>2, <2>2, <3>1 DEF Longer
  <2> QED  BY <2>1, <2>2
<1>4. \A x \in D : x.time \in Int
  BY <1>1, <1>2
<1>5. PICK d : d = Longer(c, e)
  OBVIOUS
<1>6. ListKept(earliest(d, M), D, M)
  BY <1>3, <1>4, <1>5, ListKeptCut
<1> QED  BY <1>2, <1>3, <1>5, <1>6 DEF Shorter

\* The list of access changes of two shards, cut at the cap.
LEMMA ChangesMerge ==
  ASSUME NEW U, OwnIds(U), \A e \in U : e.time \in Nat, NEW S \in SUBSET U, NEW T \in SUBSET U, S \cap T = {},
         NEW M \in Nat, NEW c, ListKept(c, ChangesOf(S), M), NEW d, ListKept(d, ChangesOf(T), M)
  PROVE  ListKept(earliest(c \o d, M), ChangesOf(S \cup T), M) /\ Len(earliest(c \o d, M)) <= M
<1>1. /\ ChangesOf(S \cup T) = ChangesOf(S) \cup ChangesOf(T) /\ ChangesOf(S) \cap ChangesOf(T) = {}
      /\ \A x \in ChangesOf(S) \cup ChangesOf(T) : x.time \in Int
  BY ChangesApart
<1>2. PICK D, x : D = ChangesOf(S \cup T) /\ x = c \o d
  OBVIOUS
<1>3. ListKept(x, D, M)
  <2>1. PICK E, F : E = ChangesOf(S) /\ F = ChangesOf(T)
    OBVIOUS
  <2>2. E \cap F = {} /\ ListKept(c, E, M) /\ ListKept(d, F, M) /\ D = E \cup F
    BY <1>1, <1>2, <2>1
  <2>3. ListKept(c \o d, E \cup F, M)
    BY <2>2, ListKeptJoin
  <2> QED  BY <1>2, <2>2, <2>3
<1>4. \A y \in D : y.time \in Int
  BY <1>1, <1>2
<1>5. ListKept(earliest(x, M), D, M) /\ Len(earliest(x, M)) = IF M < Len(x) THEN M ELSE Len(x)
  BY <1>3, <1>4, ListKeptCut
<1>6. Len(x) \in Nat
  BY <1>3, SingleHolds DEF ListKept
<1>7. PICK l, k : l \in Nat /\ l = Len(x) /\ k = Len(earliest(x, M))
  BY <1>6
<1>8. k <= M
  BY <1>5, <1>7
<1> QED  BY <1>2, <1>5, <1>7, <1>8

-----------------------------------------------------------------------------
\* Small sets are finite.
LEMMA Few == \A a, b, c : IsFiniteSet({a, b, c})
<1> SUFFICES ASSUME NEW a, NEW b, NEW c PROVE IsFiniteSet({a, b, c})
  OBVIOUS
<1>1. IsFiniteSet({a}) /\ IsFiniteSet({b}) /\ IsFiniteSet({c})
  BY FS_Singleton
<1>2. IsFiniteSet({a} \cup {b})
  BY <1>1, FS_Union
<1>3. IsFiniteSet(({a} \cup {b}) \cup {c})
  BY <1>1, <1>2, FS_Union
<1>4. {a, b, c} = ({a} \cup {b}) \cup {c}
  OBVIOUS
<1> QED  BY <1>3, <1>4

\* The capped counters of an S3 summary are finitely many.
LEMMA S3CountersFinite == IsFiniteSet(s3CappedCounters)
<1>1. PICK A, B, C, D : /\ A = {"ByRequester", "ByRemoteIP", "ByKey"} /\ B = {"ByUserAgent", "BytesByIP", "BytesByRequester"}
                        /\ C = {"DeniedByIP", "DeniedByRequester", "DeletesByPrincipal"} /\ D = {"WeakTLSBy", "PlainHTTPBy", "SigV2By"}
  OBVIOUS
<1>2. IsFiniteSet(A) /\ IsFiniteSet(B) /\ IsFiniteSet(C) /\ IsFiniteSet(D)
  BY <1>1, Few
<1>3. IsFiniteSet(A \cup B) /\ IsFiniteSet(C \cup D)
  BY <1>2, FS_Union
<1>4. IsFiniteSet((A \cup B) \cup (C \cup D))
  BY <1>3, FS_Union
<1>5. s3CappedCounters = (A \cup B) \cup (C \cup D)
  BY <1>1 DEF s3CappedCounters
<1> QED  BY <1>4, <1>5

\* The numbers of S3 requests.
LEMMA S3SumsAre ==
  ASSUME NEW U, \A e \in U : e.sent \in Int
  PROVE  Table([e \in U |-> s3Sums(e)], s3Totals, U)
<1>1. ASSUME NEW e \in U PROVE DOMAIN s3Sums(e) = s3Totals /\ \A n \in s3Totals : s3Sums(e)[n] \in Int
  <2>1. PICK a, b, c : a = One(IsError(e)) /\ b = One(e.requester = "") /\ c = One(Denied(e))
    OBVIOUS
  <2>2. a \in Int /\ b \in Int /\ c \in Int
    BY Zenon, <2>1, Ones
  <2>3. s3Sums(e) = [Total |-> 1, BytesSent |-> e.sent, Errors |-> a, Anonymous |-> b, Denied |-> c]
    BY <2>1, Zenon DEF s3Sums
  <2> QED  BY <2>2, <2>3 DEF s3Totals
<1>2. PICK K : K = [e \in U |-> s3Sums(e)]
  OBVIOUS
<1>3. DOMAIN K = U /\ \A e \in U : K[e] = s3Sums(e)
  BY <1>2
<1>4. Table(K, s3Totals, U)
  BY <1>1, <1>3 DEF Table
<1> QED  BY <1>2, <1>4

\* An addition of a Boolean is a natural number.
LEMMA OnesAreNat == \A b : One(b) \in Nat
<1> SUFFICES ASSUME NEW b PROVE One(b) \in Nat
  OBVIOUS
<1>1. One(b) = 0 \/ One(b) = 1
  BY DEF One
<1> QED  BY <1>1

\* How much S3 requests add to the capped counters.
LEMMA S3CappedAre ==
  ASSUME NEW U, \A e \in U : e.sent \in Int
  PROVE  Weighing([e \in U |-> s3Capped(e)], s3CappedCounters, U)
<1>1. ASSUME NEW e \in U, NEW n \in s3CappedCounters PROVE s3Capped(e)[n].n \in Nat
  <2>1. PICK a, b, c, d, f, g, h, i, j :
          /\ a = One(e.key # "") /\ b = (IF e.sent > 0 THEN e.sent ELSE 0) /\ c = (IF e.requester # "" THEN b ELSE 0)
          /\ d = One(Denied(e)) /\ f = One(Denied(e) /\ e.requester # "")
          /\ g = One(Success(e) /\ e.operation \in DeleteOps) /\ h = One(WeakTLS(e)) /\ i = One(e.plainHTTP) /\ j = One(SigV2(e))
    OBVIOUS
  <2>2. a \in Nat /\ d \in Nat /\ f \in Nat /\ g \in Nat /\ h \in Nat /\ i \in Nat /\ j \in Nat
    BY Zenon, <2>1, OnesAreNat
  <2>3. b \in Nat
    <3>1. PICK v \in Int : v = e.sent
      OBVIOUS
    <3>2. b = IF v > 0 THEN v ELSE 0
      BY Zenon, <2>1, <3>1
    <3> QED  BY <3>2
  <2>4. c \in Nat
    <3>1. c = b \/ c = 0
      BY Zenon, <2>1
    <3> QED  BY <2>3, <3>1
  <2>5. PICK p, q, r : p = Principal(e) /\ q = e.ip /\ r = e.bucket \o "/" \o e.key
    OBVIOUS
  <2>6. s3Capped(e) = [ByRequester |-> OneKey(p, 1), ByRemoteIP |-> OneKey(q, 1), ByKey |-> OneKey(r, a), ByUserAgent |-> OneKey(e.agent, 1),
         BytesByIP |-> OneKey(q, b), BytesByRequester |-> OneKey(p, c), DeniedByIP |-> OneKey(q, d), DeniedByRequester |-> OneKey(p, f),
         DeletesByPrincipal |-> OneKey(p, g), WeakTLSBy |-> OneKey(p, h), PlainHTTPBy |-> OneKey(p, i), SigV2By |-> OneKey(p, j)]
    BY <2>1, <2>5, Zenon DEF s3Capped
  <2>7. \A k, m : OneKey(k, m).n = m
    BY DEF OneKey
  <2>8. PICK x : x = s3Capped(e)
    OBVIOUS
  <2>9. /\ x.ByRequester.n = 1 /\ x.ByRemoteIP.n = 1 /\ x.ByKey.n = a /\ x.ByUserAgent.n = 1 /\ x.BytesByIP.n = b /\ x.BytesByRequester.n = c
        /\ x.DeniedByIP.n = d /\ x.DeniedByRequester.n = f /\ x.DeletesByPrincipal.n = g /\ x.WeakTLSBy.n = h /\ x.PlainHTTPBy.n = i /\ x.SigV2By.n = j
    BY <2>6, <2>7, <2>8
  <2>10. x[n].n \in {1, a, b, c, d, f, g, h, i, j}
    BY <2>9 DEF s3CappedCounters
  <2> QED  BY <2>2, <2>3, <2>4, <2>8, <2>10
<1>2. PICK K : K = [e \in U |-> s3Capped(e)]
  OBVIOUS
<1>3. DOMAIN K = U /\ \A e \in U : K[e] = s3Capped(e)
  BY <1>2
<1>4. Weighing(K, s3CappedCounters, U)
  BY <1>1, <1>3, S3CountersFinite DEF Weighing
<1> QED  BY <1>2, <1>4

\* s3Merge, field by field.
AnonMap(r, m, o) == Changed(r, m, DOMAIN o) /\ Fn(r) /\ \A k \in DOMAIN o : r[k] \in mergeAnon(ValueAt(m, k, NoAnon), o[k])

\* Anonymous requests by bucket are merged bucket by bucket.
LEMMA AnonMapIs ==
  ASSUME NEW m, NEW o, IsFiniteSet(DOMAIN o), NEW f \in EveryPick([b \in DOMAIN o |-> mergeAnon(ValueAt(m, b, NoAnon), o[b])])
  PROVE  AnonMap(over(f, m), m, o)
<1>1. PICK sets : sets = [b \in DOMAIN o |-> mergeAnon(ValueAt(m, b, NoAnon), o[b])]
  OBVIOUS
<1>2. DOMAIN sets = DOMAIN o /\ \A b \in DOMAIN o : sets[b] = mergeAnon(ValueAt(m, b, NoAnon), o[b])
  BY <1>1
<1>3. DOMAIN f = DOMAIN o /\ \A b \in DOMAIN o : f[b] \in sets[b]
  BY <1>1, <1>2, PickIs
<1>4. PICK r : r = over(f, m)
  OBVIOUS
<1>5. r = [k \in DOMAIN f \cup DOMAIN m |-> IF k \in DOMAIN f THEN f[k] ELSE m[k]]
  BY <1>4 DEF over
<1>6. Changed(r, m, DOMAIN o) /\ Fn(r) /\ \A k \in DOMAIN o : r[k] = f[k]
  BY <1>3, <1>5 DEF Changed, Fn
<1> QED  BY <1>2, <1>3, <1>4, <1>6 DEF AnonMap

S3Merged(r, s, o) ==
  /\ r.sums = plus(s.sums, o.sums) /\ r.span = widen(s.span, o.span) /\ r.by = merge(s.by, o.by)
  /\ r.capped \in EveryPick([n \in s3CappedCounters |-> capMerge(s.capped[n], o.capped[n], S3MaxKeys)])
  /\ Changed(r.ByHour, s.ByHour, DOMAIN o.ByHour) /\ Fn(r.ByHour)
  /\ \A k \in DOMAIN o.ByHour : r.ByHour[k] = ValueAt(s.ByHour, k, EmptyBag) (+) o.ByHour[k]
  /\ AnonMap(r.AnonWrites, s.AnonWrites, o.AnonWrites) /\ AnonMap(r.AnonReads, s.AnonReads, o.AnonReads)
  /\ r.AccessChanges = earliest(s.AccessChanges \o o.AccessChanges, S3MaxAccessChanges)

\* Every outcome of s3Merge is of this form.
LEMMA S3MergeIs ==
  ASSUME NEW s, NEW o, IsFiniteSet(DOMAIN o.AnonWrites), IsFiniteSet(DOMAIN o.AnonReads), NEW r \in s3Merge(s, o)
  PROVE  S3Merged(r, s, o)
<1> DEFINE maps(m, n) == {over(f, m) : f \in EveryPick([b \in DOMAIN n |-> mergeAnon(ValueAt(m, b, NoAnon), n[b])])}
           hours == [k \in DOMAIN s.ByHour \cup DOMAIN o.ByHour |->
                       IF k \in DOMAIN o.ByHour THEN ValueAt(s.ByHour, k, EmptyBag) (+) o.ByHour[k] ELSE s.ByHour[k]]
           counters == EveryPick([n \in s3CappedCounters |-> capMerge(s.capped[n], o.capped[n], S3MaxKeys)])
<1>0. s3Merge(s, o) = {[sums |-> plus(s.sums, o.sums), span |-> widen(s.span, o.span), by |-> merge(s.by, o.by), capped |-> x,
             ByHour |-> hours, AnonWrites |-> y, AnonReads |-> z,
             AccessChanges |-> earliest(s.AccessChanges \o o.AccessChanges, S3MaxAccessChanges)] :
           x \in counters, y \in maps(s.AnonWrites, o.AnonWrites), z \in maps(s.AnonReads, o.AnonReads)}
  BY DEF s3Merge, mergeMaps, into
<1>h. PICK H, C, W, Z : H = hours /\ C = counters /\ W = maps(s.AnonWrites, o.AnonWrites) /\ Z = maps(s.AnonReads, o.AnonReads)
  OBVIOUS
<1>1. PICK x \in C, y \in W, z \in Z :
        r = [sums |-> plus(s.sums, o.sums), span |-> widen(s.span, o.span), by |-> merge(s.by, o.by), capped |-> x,
             ByHour |-> H, AnonWrites |-> y, AnonReads |-> z,
             AccessChanges |-> earliest(s.AccessChanges \o o.AccessChanges, S3MaxAccessChanges)]
  <2> HIDE DEF maps, hours, counters
  <2> QED  BY <1>0, <1>h
<1>2. /\ r.sums = plus(s.sums, o.sums) /\ r.span = widen(s.span, o.span) /\ r.by = merge(s.by, o.by) /\ r.capped = x
      /\ r.AnonWrites = y /\ r.AnonReads = z /\ r.ByHour = H
      /\ r.AccessChanges = earliest(s.AccessChanges \o o.AccessChanges, S3MaxAccessChanges)
  BY <1>1
<1>3. Changed(r.ByHour, s.ByHour, DOMAIN o.ByHour) /\ Fn(r.ByHour)
      /\ \A k \in DOMAIN o.ByHour : r.ByHour[k] = ValueAt(s.ByHour, k, EmptyBag) (+) o.ByHour[k]
  BY <1>h, <1>2 DEF Changed, Fn
<1>4. ASSUME NEW m, NEW n, IsFiniteSet(DOMAIN n), NEW v \in maps(m, n) PROVE AnonMap(v, m, n)
  <2>1. PICK f \in EveryPick([b \in DOMAIN n |-> mergeAnon(ValueAt(m, b, NoAnon), n[b])]) : v = over(f, m)
    OBVIOUS
  <2> QED  BY <1>4, <2>1, AnonMapIs
<1>5. AnonMap(r.AnonWrites, s.AnonWrites, o.AnonWrites) /\ AnonMap(r.AnonReads, s.AnonReads, o.AnonReads)
  <2>1. y \in maps(s.AnonWrites, o.AnonWrites) /\ z \in maps(s.AnonReads, o.AnonReads)
    BY <1>h
  <2> HIDE DEF maps
  <2> QED  BY <1>2, <1>4, <2>1
<1>6. r.capped \in counters
  BY <1>h, <1>2
<1> QED  BY <1>2, <1>3, <1>5, <1>6 DEF S3Merged

S3Rep(s, S, U) ==
  /\ SumsAre(s.sums, [e \in U |-> s3Sums(e)], s3Totals, S)
  /\ KeysAre(s.by, [e \in U |-> s3Keys(e)], s3Counters, S)
  /\ SpanIs(s.span, S)
  /\ CapsAre(s.capped, [e \in U |-> s3Capped(e)], s3CappedCounters, S)
  /\ CountersBy(s.ByHour, [e \in U |-> Hour[e.time]], {}, [e \in U |-> StatusClass(e)], S) /\ Fn(s.ByHour)
  /\ AnonsBy(s.AnonWrites, [e \in U |-> e.bucket], U, S \cap {e \in U : AnonWrite(e)}) /\ Fn(s.AnonWrites)
  /\ AnonsBy(s.AnonReads, [e \in U |-> e.bucket], U, S \cap {e \in U : AnonRead(e)}) /\ Fn(s.AnonReads)
  /\ ListKept(s.AccessChanges, ChangesOf(S), S3MaxAccessChanges)

\* NewS3Summary, Add and Merge keep a summary of S3 requests that of its entries, whatever keys a
\* merge folds.
LEMMA S3Rules ==
  ASSUME NEW U, IsFiniteSet(U), OwnIds(U), \A e \in U : e.time \in Nat /\ e.time > 0 /\ e.sent \in Int
  PROVE  /\ S3Rep(NewS3Summary, {}, U)
         /\ \A S \in SUBSET U, e \in U : \A s : S3Rep(s, S, U) /\ e \notin S => S3Rep(s3Add(s, e), S \cup {e}, U)
         /\ \A S, T \in SUBSET U : \A s, t : S3Rep(s, S, U) /\ S3Rep(t, T, U) /\ S \cap T = {}
              => \A n \in s3Merge(s, t) : S3Rep(n, S \cup T, U) /\ Len(n.AccessChanges) <= S3MaxAccessChanges
<1>pK. PICK K : K = [e \in U |-> s3Sums(e)]
  OBVIOUS
<1>pL. PICK L : L = [e \in U |-> s3Keys(e)]
  OBVIOUS
<1>pC. PICK C : C = [e \in U |-> s3Capped(e)]
  OBVIOUS
<1>ph. PICK h : h = [e \in U |-> Hour[e.time]]
  OBVIOUS
<1>pa. PICK a : a = [e \in U |-> StatusClass(e)]
  OBVIOUS
<1>pb. PICK b : b = [e \in U |-> e.bucket]
  OBVIOUS
<1>pP. PICK P : P = {e \in U : AnonWrite(e)}
  OBVIOUS
<1>pQ. PICK Q : Q = {e \in U : AnonRead(e)}
  OBVIOUS
<1>a. /\ \A e \in U : K[e] = s3Sums(e)
      /\ \A e \in U : L[e] = s3Keys(e)
      /\ \A e \in U : C[e] = s3Capped(e)
      /\ \A e \in U : h[e] = Hour[e.time]
      /\ \A e \in U : a[e] = StatusClass(e)
      /\ \A e \in U : b[e] = e.bucket
      /\ \A e \in U : e \in P <=> AnonWrite(e)
      /\ \A e \in U : e \in Q <=> AnonRead(e)
  BY <1>pK, <1>pL, <1>pC, <1>ph, <1>pa, <1>pb, <1>pP, <1>pQ
<1>d0. Table(K, s3Totals, U)
  BY <1>pK, <1>pL, <1>pC, <1>ph, <1>pa, <1>pb, <1>pP, <1>pQ, S3SumsAre
<1>d1. DOMAIN L = U
  BY <1>pK, <1>pL, <1>pC, <1>ph, <1>pa, <1>pb, <1>pP, <1>pQ DEF Valued
<1>d2. \A e \in U : e.time \in Nat
  BY <1>pK, <1>pL, <1>pC, <1>ph, <1>pa, <1>pb, <1>pP, <1>pQ DEF Valued
<1>d3. Weighing(C, s3CappedCounters, U)
  BY <1>pK, <1>pL, <1>pC, <1>ph, <1>pa, <1>pb, <1>pP, <1>pQ, S3CappedAre
<1>d4. DOMAIN a = U
  BY <1>pK, <1>pL, <1>pC, <1>ph, <1>pa, <1>pb, <1>pP, <1>pQ
<1>d5. P \in SUBSET U /\ \A e \in U : e.time \in Nat /\ e.time > 0
  BY <1>pK, <1>pL, <1>pC, <1>ph, <1>pa, <1>pb, <1>pP, <1>pQ DEF Valued
<1>d6. Q \in SUBSET U /\ \A e \in U : e.time \in Nat /\ e.time > 0
  BY <1>pK, <1>pL, <1>pC, <1>ph, <1>pa, <1>pb, <1>pP, <1>pQ DEF Valued
<1>d7. OwnIds(U) /\ S3MaxAccessChanges \in Nat
  BY <1>pK, <1>pL, <1>pC, <1>ph, <1>pa, <1>pb, <1>pP, <1>pQ, S3CapsAssumption
<1>1. /\ \A e \in U : K[e] = s3Sums(e)
      /\ \A e \in U : L[e] = s3Keys(e)
      /\ \A e \in U : C[e] = s3Capped(e)
      /\ \A e \in U : h[e] = Hour[e.time]
      /\ \A e \in U : a[e] = StatusClass(e)
      /\ \A e \in U : b[e] = e.bucket
      /\ \A e \in U : e \in P <=> AnonWrite(e)
      /\ \A e \in U : e \in Q <=> AnonRead(e)
      /\ Table(K, s3Totals, U)
      /\ DOMAIN L = U
      /\ \A e \in U : e.time \in Nat
      /\ Weighing(C, s3CappedCounters, U)
      /\ DOMAIN a = U
      /\ P \in SUBSET U /\ \A e \in U : e.time \in Nat /\ e.time > 0
      /\ Q \in SUBSET U /\ \A e \in U : e.time \in Nat /\ e.time > 0
      /\ OwnIds(U) /\ S3MaxAccessChanges \in Nat
  BY <1>a, <1>d0, <1>d1, <1>d2, <1>d3, <1>d4, <1>d5, <1>d6, <1>d7
<1>2. \A s, S : S3Rep(s, S, U) <=> /\ SumsAre(s.sums, K, s3Totals, S)
                                  /\ KeysAre(s.by, L, s3Counters, S)
                                  /\ SpanIs(s.span, S)
                                  /\ CapsAre(s.capped, C, s3CappedCounters, S)
                                  /\ CountersBy(s.ByHour, h, {}, a, S) /\ Fn(s.ByHour)
                                  /\ AnonsBy(s.AnonWrites, b, U, S \cap P) /\ Fn(s.AnonWrites)
                                  /\ AnonsBy(s.AnonReads, b, U, S \cap Q) /\ Fn(s.AnonReads)
                                  /\ ListKept(s.AccessChanges, ChangesOf(S), S3MaxAccessChanges)
  BY <1>pK, <1>pL, <1>pC, <1>ph, <1>pa, <1>pb, <1>pP, <1>pQ, Zenon DEF S3Rep
<1>3. S3Rep(NewS3Summary, {}, U)
  <2>1. SumsAre(NoSums(s3Totals), K, s3Totals, {})
    BY Zenon, SumsStart
  <2>2. KeysAre(NoKeys(s3Counters), L, s3Counters, {})
    BY Zenon, KeysStart
  <2>3. SpanIs(NoSpan, {})
    BY Zenon, SpanStart
  <2>4. CapsAre(NoKeys(s3CappedCounters), C, s3CappedCounters, {})
    BY <1>1, CapsRules
  <2>5. CountersBy(<<>>, h, {}, a, {}) /\ Fn(<<>>)
    <3>1. CountersBy(<<>>, h, {}, a, {})
      BY CountersRules, <1>1
    <3> QED  BY <3>1, FnEmpty
  <2>6. AnonsBy(<<>>, b, U, {} \cap P) /\ Fn(<<>>)
    <3>1. AnonsBy(<<>>, b, U, {})
      BY DEF AnonsBy, KeyedBy, KeySet
    <3> QED  BY <3>1, FnEmpty, NoneOf
  <2>7. AnonsBy(<<>>, b, U, {} \cap Q) /\ Fn(<<>>)
    <3>1. AnonsBy(<<>>, b, U, {})
      BY DEF AnonsBy, KeyedBy, KeySet
    <3> QED  BY <3>1, FnEmpty, NoneOf
  <2>8. ListKept(<<>>, ChangesOf({}), S3MaxAccessChanges)
    <3>1. ChangesOf({}) = {}
      BY DEF ChangesOf, changes
    <3> QED  BY <3>1, NothingHeld
  <2>r. PICK n : n = NewS3Summary
    OBVIOUS
  <2>r1. n.sums = NoSums(s3Totals)
    BY <2>r DEF NewS3Summary
  <2>r2. n.by = NoKeys(s3Counters)
    BY <2>r DEF NewS3Summary
  <2>r3. n.span = NoSpan
    BY <2>r DEF NewS3Summary
  <2>r4. n.capped = NoKeys(s3CappedCounters)
    BY <2>r DEF NewS3Summary
  <2>r5. n.ByHour = <<>>
    BY <2>r DEF NewS3Summary
  <2>r6. n.AnonWrites = <<>>
    BY <2>r DEF NewS3Summary
  <2>r7. n.AnonReads = <<>>
    BY <2>r DEF NewS3Summary
  <2>r8. n.AccessChanges = <<>>
    BY <2>r DEF NewS3Summary
  <2> QED  BY <1>2, <2>r, <2>1, <2>r1, <2>2, <2>r2, <2>3, <2>r3, <2>4, <2>r4, <2>5, <2>r5, <2>6, <2>r6, <2>7, <2>r7, <2>8, <2>r8
<1>4. ASSUME NEW S \in SUBSET U, NEW e \in U, NEW s, S3Rep(s, S, U), e \notin S
      PROVE  S3Rep(s3Add(s, e), S \cup {e}, U)
  <2>0. /\ SumsAre(s.sums, K, s3Totals, S)
        /\ KeysAre(s.by, L, s3Counters, S)
        /\ SpanIs(s.span, S)
        /\ CapsAre(s.capped, C, s3CappedCounters, S)
        /\ CountersBy(s.ByHour, h, {}, a, S) /\ Fn(s.ByHour)
        /\ AnonsBy(s.AnonWrites, b, U, S \cap P) /\ Fn(s.AnonWrites)
        /\ AnonsBy(s.AnonReads, b, U, S \cap Q) /\ Fn(s.AnonReads)
        /\ ListKept(s.AccessChanges, ChangesOf(S), S3MaxAccessChanges)
    BY <1>2, <1>4
  <2>r. PICK n : n = s3Add(s, e)
    OBVIOUS
  <2>r1. n.sums = plus(s.sums, K[e])
    BY <1>1, <2>r DEF s3Add
  <2>1. SumsAre(plus(s.sums, K[e]), K, s3Totals, S \cup {e})
    BY <1>1, <1>4, <2>0, SumsRules
  <2>r2. n.by = addKeys(s.by, L[e])
    BY <1>1, <2>r DEF s3Add
  <2>2. KeysAre(addKeys(s.by, L[e]), L, s3Counters, S \cup {e})
    BY <1>1, <1>4, <2>0, KeysRules
  <2>r3. n.span = widen(s.span, At(e.time))
    BY <1>1, <2>r DEF s3Add
  <2>3. SpanIs(widen(s.span, At(e.time)), S \cup {e})
    BY <1>1, <1>4, <2>0, SpanRules
  <2>r4. n.capped = [i \in DOMAIN s.capped |-> capAdd(s.capped[i], C[e][i].key, C[e][i].n, S3MaxKeys)]
    <3>1. n.capped = [i \in DOMAIN s.capped |-> capAdd(s.capped[i], s3Capped(e)[i].key, s3Capped(e)[i].n, S3MaxKeys)]
      BY <2>r DEF s3Add
    <3>2. C[e] = s3Capped(e)
      BY <1>1
    <3> QED  BY <3>1, <3>2
  <2>4. CapsAre(n.capped, C, s3CappedCounters, S \cup {e})
    <3>1. CapsAre(s.capped, C, s3CappedCounters, S) /\ Weighing(C, s3CappedCounters, U)
      BY <1>1, <2>0
    <3>2. PICK c : c = s.capped
      OBVIOUS
    <3>3. CapsAre([i \in DOMAIN c |-> capAdd(c[i], C[e][i].key, C[e][i].n, S3MaxKeys)], C, s3CappedCounters, S \cup {e})
      BY <1>4, <3>1, <3>2, CapsRules
    <3> QED  BY <2>r4, <3>2, <3>3
  <2>r5. PICK N : N = {h[e]} \ {}
    OBVIOUS
  <2>s5. Changed(n.ByHour, s.ByHour, N) /\ Fn(n.ByHour) /\ \A k \in N : n.ByHour[k] = add(ValueAt(s.ByHour, k, EmptyBag), a[e])
    <3>0. N = {Hour[e.time]} /\ a[e] = StatusClass(e)
      BY <1>1, <2>r5
    <3>1. n.ByHour = [k \in DOMAIN s.ByHour \cup ({Hour[e.time]}) |-> IF k \in {Hour[e.time]} THEN add(ValueAt(s.ByHour, k, EmptyBag), StatusClass(e)) ELSE s.ByHour[k]]
      BY <2>r DEF s3Add, into
    <3>2. n.ByHour = [k \in DOMAIN s.ByHour \cup N |-> IF k \in N THEN add(ValueAt(s.ByHour, k, EmptyBag), a[e]) ELSE s.ByHour[k]]
      BY <3>0, <3>1
    <3> QED  BY <3>2 DEF Changed, Fn
  <2>5. CountersBy(n.ByHour, h, {}, a, S \cup {e}) /\ Fn(n.ByHour)
    <3>0. CountersBy(s.ByHour, h, {}, a, S) /\ Fn(s.ByHour) /\ DOMAIN a = U
      BY <1>1, <2>0
    <3>1. Changed(n.ByHour, s.ByHour, {h[e]} \ {}) /\ \A k \in {h[e]} \ {} : n.ByHour[k] = add(ValueAt(s.ByHour, k, EmptyBag), a[e])
      BY <2>r5, <2>s5
    <3> QED  BY <1>4, <2>s5, <3>0, <3>1, CountersRules
  <2>r6. PICK N2 : N2 = IF AnonWrite(e) THEN {e.bucket} ELSE {}
    OBVIOUS
  <2>s6. Changed(n.AnonWrites, s.AnonWrites, N2) /\ Fn(n.AnonWrites) /\ \A k \in N2 : n.AnonWrites[k] = anonHit(ValueAt(s.AnonWrites, k, NoAnon), e)
    <3>1. n.AnonWrites = [k \in DOMAIN s.AnonWrites \cup (IF AnonWrite(e) THEN {e.bucket} ELSE {}) |-> IF k \in (IF AnonWrite(e) THEN {e.bucket} ELSE {}) THEN anonHit(ValueAt(s.AnonWrites, k, NoAnon), e) ELSE s.AnonWrites[k]]
      BY <2>r DEF s3Add, into
    <3>2. n.AnonWrites = [k \in DOMAIN s.AnonWrites \cup N2 |-> IF k \in N2 THEN anonHit(ValueAt(s.AnonWrites, k, NoAnon), e) ELSE s.AnonWrites[k]]
      BY <2>r6, <3>1
    <3> QED  BY <3>2 DEF Changed, Fn
  <2>6. AnonsBy(n.AnonWrites, b, U, (S \cup {e}) \cap P) /\ Fn(n.AnonWrites)
    <3>1. CASE AnonWrite(e)
      <4>1. (S \cup {e}) \cap P = (S \cap P) \cup {e} /\ e \notin S \cap P /\ S \cap P \in SUBSET U
        BY <1>1, <1>4, <3>1
      <4>2. PICK A, m, r : A = S \cap P /\ m = s.AnonWrites /\ r = n.AnonWrites
        OBVIOUS
      <4>3. AnonsBy(m, b, U, A) /\ A \in SUBSET U /\ e \notin A
        BY <2>0, <4>1, <4>2
      <4>4. Changed(r, m, {b[e]}) /\ r[b[e]] = anonHit(ValueAt(m, b[e], NoAnon), e)
        <5>1. N2 = {b[e]}
          BY <1>1, <2>r6, <3>1
        <5> QED  BY <2>s6, <4>2, <5>1
      <4>6. \A x \in U : x.time \in Nat /\ x.time > 0
        BY <1>1
      <4>5. AnonsBy(r, b, U, A \cup {e})
        BY <4>3, <4>4, <4>6, AnonsAdd
      <4> QED  BY <2>s6, <4>1, <4>2, <4>5
    <3>2. CASE ~AnonWrite(e)
      <4>1. (S \cup {e}) \cap P = S \cap P
        BY <1>1, <3>2
      <4>2. N2 = {}
        BY <2>r6, <3>2
      <4>3. PICK m, r : m = s.AnonWrites /\ r = n.AnonWrites
        OBVIOUS
      <4>4. DOMAIN r = DOMAIN m /\ \A k \in DOMAIN r : r[k] = m[k]
        BY <2>s6, <4>2, <4>3 DEF Changed
      <4>5. AnonsBy(m, b, U, S \cap P)
        BY <2>0, <4>3
      <4>6. AnonsBy(r, b, U, S \cap P)
        BY <4>4, <4>5 DEF AnonsBy, KeyedBy
      <4> QED  BY <2>s6, <4>1, <4>3, <4>6
    <3> QED  BY <3>1, <3>2
  <2>r7. PICK N3 : N3 = IF AnonRead(e) THEN {e.bucket} ELSE {}
    OBVIOUS
  <2>s7. Changed(n.AnonReads, s.AnonReads, N3) /\ Fn(n.AnonReads) /\ \A k \in N3 : n.AnonReads[k] = anonHit(ValueAt(s.AnonReads, k, NoAnon), e)
    <3>1. n.AnonReads = [k \in DOMAIN s.AnonReads \cup (IF AnonRead(e) THEN {e.bucket} ELSE {}) |-> IF k \in (IF AnonRead(e) THEN {e.bucket} ELSE {}) THEN anonHit(ValueAt(s.AnonReads, k, NoAnon), e) ELSE s.AnonReads[k]]
      BY <2>r DEF s3Add, into
    <3>2. n.AnonReads = [k \in DOMAIN s.AnonReads \cup N3 |-> IF k \in N3 THEN anonHit(ValueAt(s.AnonReads, k, NoAnon), e) ELSE s.AnonReads[k]]
      BY <2>r7, <3>1
    <3> QED  BY <3>2 DEF Changed, Fn
  <2>7. AnonsBy(n.AnonReads, b, U, (S \cup {e}) \cap Q) /\ Fn(n.AnonReads)
    <3>1. CASE AnonRead(e)
      <4>1. (S \cup {e}) \cap Q = (S \cap Q) \cup {e} /\ e \notin S \cap Q /\ S \cap Q \in SUBSET U
        BY <1>1, <1>4, <3>1
      <4>2. PICK A, m, r : A = S \cap Q /\ m = s.AnonReads /\ r = n.AnonReads
        OBVIOUS
      <4>3. AnonsBy(m, b, U, A) /\ A \in SUBSET U /\ e \notin A
        BY <2>0, <4>1, <4>2
      <4>4. Changed(r, m, {b[e]}) /\ r[b[e]] = anonHit(ValueAt(m, b[e], NoAnon), e)
        <5>1. N3 = {b[e]}
          BY <1>1, <2>r7, <3>1
        <5> QED  BY <2>s7, <4>2, <5>1
      <4>6. \A x \in U : x.time \in Nat /\ x.time > 0
        BY <1>1
      <4>5. AnonsBy(r, b, U, A \cup {e})
        BY <4>3, <4>4, <4>6, AnonsAdd
      <4> QED  BY <2>s7, <4>1, <4>2, <4>5
    <3>2. CASE ~AnonRead(e)
      <4>1. (S \cup {e}) \cap Q = S \cap Q
        BY <1>1, <3>2
      <4>2. N3 = {}
        BY <2>r7, <3>2
      <4>3. PICK m, r : m = s.AnonReads /\ r = n.AnonReads
        OBVIOUS
      <4>4. DOMAIN r = DOMAIN m /\ \A k \in DOMAIN r : r[k] = m[k]
        BY <2>s7, <4>2, <4>3 DEF Changed
      <4>5. AnonsBy(m, b, U, S \cap Q)
        BY <2>0, <4>3
      <4>6. AnonsBy(r, b, U, S \cap Q)
        BY <4>4, <4>5 DEF AnonsBy, KeyedBy
      <4> QED  BY <2>s7, <4>1, <4>3, <4>6
    <3> QED  BY <3>1, <3>2
  <2>r8. n.AccessChanges = Shorter(Longer(s.AccessChanges, e), S3MaxAccessChanges)
    BY <2>r DEF s3Add, Shorter, Longer
  <2>8. ListKept(n.AccessChanges, ChangesOf(S \cup {e}), S3MaxAccessChanges)
    <3>1. PICK c : c = s.AccessChanges
      OBVIOUS
    <3>2. ListKept(c, ChangesOf(S), S3MaxAccessChanges)
      BY <2>0, <3>1
    <3>3. \A x \in U : x.time \in Nat
      BY <1>1
    <3>4. ListKept(Shorter(Longer(c, e), S3MaxAccessChanges), ChangesOf(S \cup {e}), S3MaxAccessChanges)
      BY <1>1, <1>4, <3>2, <3>3, ChangesMore
    <3> QED  BY <2>r8, <3>1, <3>4
  <2> QED  BY <1>2, <2>r, <2>1, <2>r1, <2>2, <2>r2, <2>3, <2>r3, <2>4, <2>r4, <2>5, <2>r5, <2>6, <2>r6, <2>7, <2>r7, <2>8, <2>r8
<1>5. ASSUME NEW S \in SUBSET U, NEW T \in SUBSET U, NEW s, NEW t, S3Rep(s, S, U), S3Rep(t, T, U), S \cap T = {}, NEW n \in s3Merge(s, t)
      PROVE  S3Rep(n, S \cup T, U) /\ Len(n.AccessChanges) <= S3MaxAccessChanges
  <2>0. /\ SumsAre(s.sums, K, s3Totals, S) /\ SumsAre(t.sums, K, s3Totals, T)
        /\ KeysAre(s.by, L, s3Counters, S) /\ KeysAre(t.by, L, s3Counters, T)
        /\ SpanIs(s.span, S) /\ SpanIs(t.span, T)
        /\ CapsAre(s.capped, C, s3CappedCounters, S) /\ CapsAre(t.capped, C, s3CappedCounters, T)
        /\ CountersBy(s.ByHour, h, {}, a, S) /\ Fn(s.ByHour) /\ CountersBy(t.ByHour, h, {}, a, T) /\ Fn(t.ByHour)
        /\ AnonsBy(s.AnonWrites, b, U, S \cap P) /\ Fn(s.AnonWrites) /\ AnonsBy(t.AnonWrites, b, U, T \cap P) /\ Fn(t.AnonWrites)
        /\ AnonsBy(s.AnonReads, b, U, S \cap Q) /\ Fn(s.AnonReads) /\ AnonsBy(t.AnonReads, b, U, T \cap Q) /\ Fn(t.AnonReads)
        /\ ListKept(s.AccessChanges, ChangesOf(S), S3MaxAccessChanges) /\ ListKept(t.AccessChanges, ChangesOf(T), S3MaxAccessChanges)
    BY <1>2, <1>5
  <2>m. IsFiniteSet(DOMAIN t.AnonWrites) /\ IsFiniteSet(DOMAIN t.AnonReads)
    <3>1. IsFiniteSet(T)
      BY FS_Subset
    <3>2. \A m, R : R \in SUBSET T /\ AnonsBy(m, b, U, R) => IsFiniteSet(DOMAIN m)
      <4> SUFFICES ASSUME NEW m, NEW R \in SUBSET T, AnonsBy(m, b, U, R) PROVE IsFiniteSet(DOMAIN m)
        OBVIOUS
      <4>1. IsFiniteSet(R) /\ DOMAIN m = KeySet(b, {}, R)
        BY <3>1, FS_Subset DEF AnonsBy, KeyedBy
      <4> QED  BY <4>1, KeysFinite
    <3>3. T \cap P \in SUBSET T /\ T \cap Q \in SUBSET T
      OBVIOUS
    <3> QED  BY <2>0, <3>2, <3>3
  <2>r. /\ n.sums = plus(s.sums, t.sums) /\ n.span = widen(s.span, t.span) /\ n.by = merge(s.by, t.by)
        /\ n.capped \in EveryPick([i \in s3CappedCounters |-> capMerge(s.capped[i], t.capped[i], S3MaxKeys)])
        /\ Changed(n.ByHour, s.ByHour, DOMAIN t.ByHour) /\ Fn(n.ByHour)
        /\ \A k \in DOMAIN t.ByHour : n.ByHour[k] = ValueAt(s.ByHour, k, EmptyBag) (+) t.ByHour[k]
        /\ AnonMap(n.AnonWrites, s.AnonWrites, t.AnonWrites) /\ AnonMap(n.AnonReads, s.AnonReads, t.AnonReads)
        /\ n.AccessChanges = earliest(s.AccessChanges \o t.AccessChanges, S3MaxAccessChanges)
    <3>1. S3Merged(n, s, t)
      BY <1>5, <2>m, S3MergeIs
    <3> QED  BY <3>1 DEF S3Merged
  <2>r1. n.sums = plus(s.sums, t.sums)
    BY <1>1, <2>r DEF S3Merged
  <2>1. SumsAre(plus(s.sums, t.sums), K, s3Totals, S \cup T)
    BY <1>1, <1>5, <2>0, SumsRules
  <2>r2. n.by = merge(s.by, t.by)
    BY <1>1, <2>r DEF S3Merged
  <2>2. KeysAre(merge(s.by, t.by), L, s3Counters, S \cup T)
    BY <1>1, <1>5, <2>0, KeysRules
  <2>r3. n.span = widen(s.span, t.span)
    BY <1>1, <2>r DEF S3Merged
  <2>3. SpanIs(widen(s.span, t.span), S \cup T)
    BY <1>1, <1>5, <2>0, SpanRules
  <2>r4. n.capped \in EveryPick([i \in s3CappedCounters |-> capMerge(s.capped[i], t.capped[i], S3MaxKeys)])
    BY <2>r
  <2>4. CapsAre(n.capped, C, s3CappedCounters, S \cup T)
    <3>1. PICK c, d, r : c = s.capped /\ d = t.capped /\ r = n.capped
      OBVIOUS
    <3>2. CapsAre(c, C, s3CappedCounters, S) /\ CapsAre(d, C, s3CappedCounters, T) /\ Weighing(C, s3CappedCounters, U)
      BY <1>1, <2>0, <3>1
    <3>3. r \in EveryPick([i \in s3CappedCounters |-> capMerge(c[i], d[i], S3MaxKeys)])
      BY <2>r4, <3>1
    <3>4. CapsAre(r, C, s3CappedCounters, S \cup T)
      BY <1>5, <3>2, <3>3, CapsRules
    <3> QED  BY <3>1, <3>4
  <2>r5. Changed(n.ByHour, s.ByHour, DOMAIN t.ByHour) /\ Fn(n.ByHour) /\ \A k \in DOMAIN t.ByHour : n.ByHour[k] = ValueAt(s.ByHour, k, EmptyBag) (+) t.ByHour[k]
    BY <2>r
  <2>5. CountersBy(n.ByHour, h, {}, a, S \cup T) /\ Fn(n.ByHour)
    <3>0. CountersBy(s.ByHour, h, {}, a, S) /\ Fn(s.ByHour) /\ CountersBy(t.ByHour, h, {}, a, T) /\ Fn(t.ByHour) /\ DOMAIN a = U
      BY <1>1, <2>0
    <3> QED  BY <1>5, <2>r5, <3>0, CountersRules
  <2>6. AnonsBy(n.AnonWrites, b, U, (S \cup T) \cap P) /\ Fn(n.AnonWrites)
    <3>1. PICK A, B, m, o, r : A = S \cap P /\ B = T \cap P /\ m = s.AnonWrites /\ o = t.AnonWrites /\ r = n.AnonWrites
      OBVIOUS
    <3>2. A \in SUBSET U /\ B \in SUBSET U /\ A \cap B = {} /\ (S \cup T) \cap P = A \cup B
      BY <1>5, <3>1
    <3>3. AnonsBy(m, b, U, A) /\ AnonsBy(o, b, U, B)
      BY <2>0, <3>1
    <3>4. AnonMap(r, m, o)
      BY <2>r, <3>1
    <3>5. Changed(r, m, DOMAIN o) /\ Fn(r) /\ \A k \in DOMAIN o : r[k] \in mergeAnon(ValueAt(m, k, NoAnon), o[k])
      BY <3>4 DEF AnonMap
    <3>6. \A x \in U : x.time \in Nat /\ x.time > 0
      BY <1>1
    <3>7. AnonsBy(r, b, U, A \cup B)
      BY <3>2, <3>3, <3>5, <3>6, AnonsMerge
    <3> QED  BY <3>1, <3>2, <3>5, <3>7
  <2>r6. TRUE
    OBVIOUS
  <2>7. AnonsBy(n.AnonReads, b, U, (S \cup T) \cap Q) /\ Fn(n.AnonReads)
    <3>1. PICK A, B, m, o, r : A = S \cap Q /\ B = T \cap Q /\ m = s.AnonReads /\ o = t.AnonReads /\ r = n.AnonReads
      OBVIOUS
    <3>2. A \in SUBSET U /\ B \in SUBSET U /\ A \cap B = {} /\ (S \cup T) \cap Q = A \cup B
      BY <1>5, <3>1
    <3>3. AnonsBy(m, b, U, A) /\ AnonsBy(o, b, U, B)
      BY <2>0, <3>1
    <3>4. AnonMap(r, m, o)
      BY <2>r, <3>1
    <3>5. Changed(r, m, DOMAIN o) /\ Fn(r) /\ \A k \in DOMAIN o : r[k] \in mergeAnon(ValueAt(m, k, NoAnon), o[k])
      BY <3>4 DEF AnonMap
    <3>6. \A x \in U : x.time \in Nat /\ x.time > 0
      BY <1>1
    <3>7. AnonsBy(r, b, U, A \cup B)
      BY <3>2, <3>3, <3>5, <3>6, AnonsMerge
    <3> QED  BY <3>1, <3>2, <3>5, <3>7
  <2>r7. TRUE
    OBVIOUS
  <2>8. ListKept(n.AccessChanges, ChangesOf(S \cup T), S3MaxAccessChanges) /\ Len(n.AccessChanges) <= S3MaxAccessChanges
    <3>1. PICK c, d : c = s.AccessChanges /\ d = t.AccessChanges
      OBVIOUS
    <3>2. ListKept(c, ChangesOf(S), S3MaxAccessChanges) /\ ListKept(d, ChangesOf(T), S3MaxAccessChanges)
      BY <2>0, <3>1
    <3>3. \A x \in U : x.time \in Nat
      BY <1>1
    <3>4. ListKept(earliest(c \o d, S3MaxAccessChanges), ChangesOf(S \cup T), S3MaxAccessChanges) /\ Len(earliest(c \o d, S3MaxAccessChanges)) <= S3MaxAccessChanges
      BY <1>1, <1>5, <3>2, <3>3, ChangesMerge
    <3> QED  BY <2>r, <3>1, <3>4
  <2>r8. TRUE
    OBVIOUS
  <2> QED  BY <1>2, <2>r, <2>1, <2>r1, <2>2, <2>r2, <2>3, <2>r3, <2>4, <2>r4, <2>5, <2>r5, <2>6, <2>r6, <2>7, <2>r7, <2>8, <2>r8
<1> QED  BY <1>3, <1>4, <1>5

\* The smaller of two numbers.
LEMMA SmallerIs ==
  ASSUME NEW a \in Nat, NEW b \in Nat
  PROVE  Min({a, b}) = IF a < b THEN a ELSE b
<1>1. PICK m \in Nat : m = IF a < b THEN a ELSE b
  OBVIOUS
<1>2. {a, b} \in SUBSET Int /\ m \in {a, b} /\ \A y \in {a, b} : m <= y
  BY <1>1
<1>3. Min({a, b}) = m
  BY <1>2, MinMaxAre
<1> QED  BY <1>1, <1>3

\* The first time of some entries.
LEMMA FirstOf ==
  ASSUME NEW X, X # {}, \A e \in X : e.time \in Nat, NEW t, \E e \in X : t = e.time, \A e \in X : t <= e.time
  PROVE  t = SpanOf(X).first
<1>1. PICK Q : Q = {e.time : e \in X}
  OBVIOUS
<1>2. t \in Q /\ \A y \in Q : t <= y
  BY <1>1
<1>3. \A q \in Q : q \in Nat
  BY Zenon, <1>1
<1>4. Q \in SUBSET Int
  BY <1>3
<1>5. Min(Q) = t
  BY <1>2, <1>4, MinMaxAre
<1> QED  BY <1>1, <1>5 DEF SpanOf

\* What is known of anonymous requests at the end.
LEMMA AnonEnd ==
  ASSUME NEW U, IsFiniteSet(U), \A e \in U : e.time \in Nat /\ e.time > 0,
         NEW S \in SUBSET U, NEW b, \A e \in U : b[e] = e.bucket, NEW m, AnonsBy(m, b, U, S)
  PROVE  AnonIsOf(m, S)
<1>1. DOMAIN m = {e.bucket : e \in S}
  <2>1. DOMAIN m = {b[e] : e \in S}
    BY DEF AnonsBy, KeyedBy, KeySet
  <2>2. {b[e] : e \in S} = {e.bucket : e \in S}
    OBVIOUS
  <2> QED  BY <2>1, <2>2
<1>2. ASSUME NEW k \in DOMAIN m, NEW X, X = {e \in S : e.bucket = k}
      PROVE  /\ m[k].count = Cardinality(X) /\ m[k].first = SpanOf(X).first
             /\ m[k].ops = CountKeys(X, LAMBDA e : e.operation)
             /\ CappedOf(m[k].ips, X, LAMBDA e : e.ip, LAMBDA e : 1)
             /\ CappedOf(m[k].keys, X, LAMBDA e : e.key, LAMBDA e : 1)
  <2>1. PICK d : d = m[k]
    OBVIOUS
  <2>2. Having(b, k, S) = X
    BY <1>2 DEF Having
  <2>3. AnonIs(d, U, X)
    BY <2>1, <2>2 DEF AnonsBy
  <2>4. X \in SUBSET U /\ IsFiniteSet(X) /\ X # {} /\ \A e \in X : e.time \in Nat /\ e.time > 0
    <3>1. X \in SUBSET U
      BY <1>2
    <3>2. X # {}
      BY <1>1, <1>2
    <3> QED  BY <3>1, <3>2, FS_Subset
  <2>5. d.count = Cardinality(X) /\ FirstIs(d.first, X)
    BY <2>3 DEF AnonIs
  <2>6. d.first = SpanOf(X).first
    <3>1. (\E e \in X : d.first = e.time) /\ \A e \in X : d.first <= e.time
      BY <2>4, <2>5 DEF FirstIs
    <3> QED  BY <2>4, <3>1, FirstOf
  <2>7. d.ops = CountKeys(X, LAMBDA e : e.operation)
    <3>1. PICK f : f = OpsIn(U)
      OBVIOUS
    <3>2. d.ops = Counter(f, Keyed(f, X)) /\ \A e \in X : f[e] = e.operation
      BY <2>3, <2>4, <3>1 DEF AnonIs, OpsIn
    <3>3. PICK Z : Z = {e \in X : e.operation # ""}
      OBVIOUS
    <3>4. Keyed(f, X) = Z
      BY <3>2, <3>3 DEF Keyed
    <3>5. {f[e] : e \in Z} = {e.operation : e \in Z} /\ \A q : {e \in Z : f[e] = q} = {e \in Z : e.operation = q}
      BY <3>2, <3>3
    <3>7. d.ops = Counter(f, Z)
      BY <3>2, <3>4
    <3>6. d.ops = [q \in {e.operation : e \in Z} |-> Cardinality({e \in Z : e.operation = q})]
      BY <3>5, <3>7 DEF Counter
    <3> QED  BY <3>3, <3>6 DEF CountKeys, CountAll
  <2>8. CappedOf(d.ips, X, LAMBDA e : e.ip, LAMBDA e : 1)
    <3>0. PICK c, f, w : c = d.ips /\ f = IpsIn(U) /\ w = OnesIn(U)
      OBVIOUS
    <3>a. CapIs(c, f, w, X) /\ IsFiniteSet(X)
      BY <2>3, <2>4, <3>0 DEF AnonIs
    <3>b. \A e \in X : f[e] = e.ip /\ w[e] = 1 /\ w[e] \in Nat
      BY <2>4, <3>0 DEF IpsIn, OnesIn
    <3>c. CappedOf(c, X, LAMBDA e : e.ip, LAMBDA e : 1)
      <4>2. \A e \in X : f[e] = e.ip /\ w[e] = 1
        BY <3>b
      <4> DEFINE Z == {e \in X : e.ip # "" /\ 1 > 0}
      <4> HIDE DEF Z
      <4>3. Z = {e \in X : e.ip # "" /\ 1 > 0}
        BY DEF Z
      <4>4. Z = {e \in X : f[e] # "" /\ w[e] > 0} /\ \A e \in Z : f[e] = e.ip /\ w[e] = 1
        BY <4>2, <4>3
      <4>9. CountedBy(Z, f, w, X)
        BY <4>4 DEF CountedBy
      <4>1. CapTold(c, f, w, Z)
        BY <3>a, <3>b, CapEnd, <4>9
      <4>5. [e \in Z |-> w[e]] = [e \in Z |-> 1] /\ {f[e] : e \in Z} = {e.ip : e \in Z}
        BY <4>4
      <4>6. \A a : {e \in Z : f[e] = a} = {e \in Z : e.ip = a}
        BY <4>4
      <4>7. \A a : [e \in {x \in Z : f[x] = a} |-> w[e]] = [e \in {x \in Z : x.ip = a} |-> 1]
        BY <4>4
      <4>8. /\ Sum(c, DOMAIN c) = Sum([e \in Z |-> 1], Z)
            /\ \A a \in DOMAIN c \ {OtherKey} : c[a] <= Sum([e \in {x \in Z : x.ip = a} |-> 1], {x \in Z : x.ip = a})
            /\ OtherKey \notin DOMAIN c => DOMAIN c = {e.ip : e \in Z}
        BY <4>1, <4>5, <4>6, <4>7 DEF CapTold
      <4> QED  BY <4>8 DEF Z, CappedOf, SumOf
    <3> QED  BY <3>0, <3>c
  <2>9. CappedOf(d.keys, X, LAMBDA e : e.key, LAMBDA e : 1)
    <3>0. PICK c, f, w : c = d.keys /\ f = KeysIn(U) /\ w = OnesIn(U)
      OBVIOUS
    <3>a. CapIs(c, f, w, X) /\ IsFiniteSet(X)
      BY <2>3, <2>4, <3>0 DEF AnonIs
    <3>b. \A e \in X : f[e] = e.key /\ w[e] = 1 /\ w[e] \in Nat
      BY <2>4, <3>0 DEF KeysIn, OnesIn
    <3>c. CappedOf(c, X, LAMBDA e : e.key, LAMBDA e : 1)
      <4>2. \A e \in X : f[e] = e.key /\ w[e] = 1
        BY <3>b
      <4> DEFINE Z == {e \in X : e.key # "" /\ 1 > 0}
      <4> HIDE DEF Z
      <4>3. Z = {e \in X : e.key # "" /\ 1 > 0}
        BY DEF Z
      <4>4. Z = {e \in X : f[e] # "" /\ w[e] > 0} /\ \A e \in Z : f[e] = e.key /\ w[e] = 1
        BY <4>2, <4>3
      <4>9. CountedBy(Z, f, w, X)
        BY <4>4 DEF CountedBy
      <4>1. CapTold(c, f, w, Z)
        BY <3>a, <3>b, CapEnd, <4>9
      <4>5. [e \in Z |-> w[e]] = [e \in Z |-> 1] /\ {f[e] : e \in Z} = {e.key : e \in Z}
        BY <4>4
      <4>6. \A a : {e \in Z : f[e] = a} = {e \in Z : e.key = a}
        BY <4>4
      <4>7. \A a : [e \in {x \in Z : f[x] = a} |-> w[e]] = [e \in {x \in Z : x.key = a} |-> 1]
        BY <4>4
      <4>8. /\ Sum(c, DOMAIN c) = Sum([e \in Z |-> 1], Z)
            /\ \A a \in DOMAIN c \ {OtherKey} : c[a] <= Sum([e \in {x \in Z : x.key = a} |-> 1], {x \in Z : x.key = a})
            /\ OtherKey \notin DOMAIN c => DOMAIN c = {e.key : e \in Z}
        BY <4>1, <4>5, <4>6, <4>7 DEF CapTold
      <4> QED  BY <4>8 DEF Z, CappedOf, SumOf
    <3> QED  BY <3>0, <3>c
  <2> QED  BY <2>1, <2>5, <2>6, <2>7, <2>8, <2>9
<1> QED  BY <1>1, <1>2 DEF AnonIsOf

\* The access changes at the end.
EarliestOf(kept, C, M) ==
  LET ids == {kept[i].id : i \in DOMAIN kept} IN
    /\ Len(kept) = Min({M, Cardinality(C)}) /\ Cardinality(ids) = Len(kept)
    /\ ids \subseteq {e.id : e \in C}
    /\ \A i \in DOMAIN kept : \A e \in C : e.time < kept[i].time => e.id \in ids

\* A list of access changes within the cap holds the earliest of all.
LEMMA ChangesEnd ==
  ASSUME NEW U, IsFiniteSet(U), OwnIds(U), \A e \in U : e.time \in Nat, NEW S \in SUBSET U,
         NEW M \in Nat, NEW kept, ListKept(kept, ChangesOf(S), M), Len(kept) <= M
  PROVE  EarliestOf(kept, changes(S), M)
<1>1. PICK D, C : D = ChangesOf(S) /\ C = changes(S)
  OBVIOUS
<1>2. /\ C \in SUBSET U /\ IsFiniteSet(C) /\ D = {change(e) : e \in C}
      /\ \A e : change(e).id = e.id /\ change(e).time = e.time
  <2>1. C \in SUBSET U
    BY <1>1 DEF changes
  <2> QED  BY <1>1, <2>1, FS_Subset DEF ChangesOf, change
<1>3. IsFiniteSet(D) /\ Cardinality(D) = Cardinality(C)
  <2>1. PICK f : f = [e \in C |-> change(e)]
    OBVIOUS
  <2>2. \A e, g \in C : f[e] = f[g] => e = g
    BY <1>2, <2>1 DEF OwnIds
  <2>3. f \in Bijection(C, D)
    <3>1. f \in [C -> D] /\ \A y \in D : \E x \in C : f[x] = y
      BY <1>2, <2>1
    <3>2. f \in Injection(C, D)
      BY <2>2, <3>1 DEF Injection, IsInjective
    <3>3. f \in Surjection(C, D)
      BY <3>1 DEF Surjection
    <3> QED  BY <3>2, <3>3 DEF Bijection
  <2>4. ExistsBijection(C, D)
    BY <2>3 DEF ExistsBijection
  <2> QED  BY <1>2, <2>4, FS_Bijection
<1>4. (\A x \in D : x.time \in Int) /\ \A x, y \in D : x.id = y.id => x = y
  <2>1. \A x \in D : \E e \in C : x = change(e)
    BY <1>2
  <2>2. \A x \in D : x.time \in Nat
    BY <1>2, <2>1
  <2>3. \A x, y \in D : x.id = y.id => x = y
    BY <1>2, <2>1 DEF OwnIds
  <2> QED  BY <2>2, <2>3
<1>5. PICK ids : ids = {kept[i].id : i \in DOMAIN kept}
  OBVIOUS
<1>6. /\ Len(kept) = (IF M < Cardinality(D) THEN M ELSE Cardinality(D)) /\ Held(kept) \subseteq D /\ Single(kept)
      /\ \A y \in Held(kept), x \in D : x.time < y.time => x \in Held(kept)
  <2>1. ListKept(kept, D, M) /\ \A x \in D : x.time \in Int
    BY <1>1, <1>4
  <2> QED  BY <1>3, <2>1, ListKeptEnd DEF ListKept
<1>7. Cardinality(ids) = Len(kept) /\ ids \subseteq {x.id : x \in D} /\ \A x \in D : x.id \in ids <=> x \in Held(kept)
  BY <1>4, <1>5, <1>6, IdsOf
<1>8. ids \subseteq {e.id : e \in C}
  BY <1>2, <1>7
<1>9. ASSUME NEW i \in DOMAIN kept, NEW e \in C, e.time < kept[i].time PROVE e.id \in ids
  <2>1. change(e) \in D
    BY <1>2
  <2>2. kept[i] \in Held(kept) /\ change(e).time = e.time
    BY <1>2 DEF Held
  <2>6. change(e) \in Held(kept)
    BY <1>6, <1>9, <2>1, <2>2
  <2> QED  BY <1>2, <1>7, <2>1, <2>6
<1>10. Len(kept) = Min({M, Cardinality(C)})
  <2>1. PICK c \in Nat : c = Cardinality(C)
    BY <1>2, FS_CardinalityType
  <2>2. Len(kept) = IF M < c THEN M ELSE c
    BY <1>3, <1>6, <2>1
  <2>3. Min({M, c}) = IF M < c THEN M ELSE c
    BY SmallerIs
  <2> QED  BY <2>1, <2>2, <2>3
<1> QED  BY <1>1, <1>5, <1>7, <1>8, <1>9, <1>10 DEF EarliestOf

\* Such a summary of S3 requests is the one the result is to hold.
LEMMA S3End ==
  ASSUME NEW U, IsFiniteSet(U), OwnIds(U), \A e \in U : e.time \in Nat /\ e.time > 0 /\ e.sent \in Int,
         NEW S \in SUBSET U, NEW s, S3Rep(s, S, U), Len(s.AccessChanges) <= S3MaxAccessChanges
  PROVE  S3IsOf(s, S)
<1>pK. PICK K : K = [e \in U |-> s3Sums(e)]
  OBVIOUS
<1>pL. PICK L : L = [e \in U |-> s3Keys(e)]
  OBVIOUS
<1>pC. PICK C : C = [e \in U |-> s3Capped(e)]
  OBVIOUS
<1>ph. PICK h : h = [e \in U |-> Hour[e.time]]
  OBVIOUS
<1>pa. PICK a : a = [e \in U |-> StatusClass(e)]
  OBVIOUS
<1>pb. PICK b : b = [e \in U |-> e.bucket]
  OBVIOUS
<1>pP. PICK P : P = {e \in U : AnonWrite(e)}
  OBVIOUS
<1>pQ. PICK Q : Q = {e \in U : AnonRead(e)}
  OBVIOUS
<1>a. /\ \A e \in U : K[e] = s3Sums(e)
      /\ \A e \in U : L[e] = s3Keys(e)
      /\ \A e \in U : C[e] = s3Capped(e)
      /\ \A e \in U : h[e] = Hour[e.time]
      /\ \A e \in U : a[e] = StatusClass(e)
      /\ \A e \in U : b[e] = e.bucket
      /\ \A e \in U : e \in P <=> AnonWrite(e)
      /\ \A e \in U : e \in Q <=> AnonRead(e)
  BY <1>pK, <1>pL, <1>pC, <1>ph, <1>pa, <1>pb, <1>pP, <1>pQ
<1>d0. Table(K, s3Totals, U)
  BY <1>pK, <1>pL, <1>pC, <1>ph, <1>pa, <1>pb, <1>pP, <1>pQ, S3SumsAre
<1>d1. DOMAIN L = U
  BY <1>pK, <1>pL, <1>pC, <1>ph, <1>pa, <1>pb, <1>pP, <1>pQ DEF Valued
<1>d2. \A e \in U : e.time \in Nat
  BY <1>pK, <1>pL, <1>pC, <1>ph, <1>pa, <1>pb, <1>pP, <1>pQ DEF Valued
<1>d3. Weighing(C, s3CappedCounters, U)
  BY <1>pK, <1>pL, <1>pC, <1>ph, <1>pa, <1>pb, <1>pP, <1>pQ, S3CappedAre
<1>d4. DOMAIN a = U
  BY <1>pK, <1>pL, <1>pC, <1>ph, <1>pa, <1>pb, <1>pP, <1>pQ
<1>d5. P \in SUBSET U /\ \A e \in U : e.time \in Nat /\ e.time > 0
  BY <1>pK, <1>pL, <1>pC, <1>ph, <1>pa, <1>pb, <1>pP, <1>pQ DEF Valued
<1>d6. Q \in SUBSET U /\ \A e \in U : e.time \in Nat /\ e.time > 0
  BY <1>pK, <1>pL, <1>pC, <1>ph, <1>pa, <1>pb, <1>pP, <1>pQ DEF Valued
<1>d7. OwnIds(U) /\ S3MaxAccessChanges \in Nat
  BY <1>pK, <1>pL, <1>pC, <1>ph, <1>pa, <1>pb, <1>pP, <1>pQ, S3CapsAssumption
<1>1. /\ \A e \in U : K[e] = s3Sums(e)
      /\ \A e \in U : L[e] = s3Keys(e)
      /\ \A e \in U : C[e] = s3Capped(e)
      /\ \A e \in U : h[e] = Hour[e.time]
      /\ \A e \in U : a[e] = StatusClass(e)
      /\ \A e \in U : b[e] = e.bucket
      /\ \A e \in U : e \in P <=> AnonWrite(e)
      /\ \A e \in U : e \in Q <=> AnonRead(e)
      /\ Table(K, s3Totals, U)
      /\ DOMAIN L = U
      /\ \A e \in U : e.time \in Nat
      /\ Weighing(C, s3CappedCounters, U)
      /\ DOMAIN a = U
      /\ P \in SUBSET U /\ \A e \in U : e.time \in Nat /\ e.time > 0
      /\ Q \in SUBSET U /\ \A e \in U : e.time \in Nat /\ e.time > 0
      /\ OwnIds(U) /\ S3MaxAccessChanges \in Nat
  BY <1>a, <1>d0, <1>d1, <1>d2, <1>d3, <1>d4, <1>d5, <1>d6, <1>d7
<1>2. S3Rep(s, S, U) <=> /\ SumsAre(s.sums, K, s3Totals, S)
                        /\ KeysAre(s.by, L, s3Counters, S)
                        /\ SpanIs(s.span, S)
                        /\ CapsAre(s.capped, C, s3CappedCounters, S)
                        /\ CountersBy(s.ByHour, h, {}, a, S) /\ Fn(s.ByHour)
                        /\ AnonsBy(s.AnonWrites, b, U, S \cap P) /\ Fn(s.AnonWrites)
                        /\ AnonsBy(s.AnonReads, b, U, S \cap Q) /\ Fn(s.AnonReads)
                        /\ ListKept(s.AccessChanges, ChangesOf(S), S3MaxAccessChanges)
  BY <1>pK, <1>pL, <1>pC, <1>ph, <1>pa, <1>pb, <1>pP, <1>pQ, Zenon DEF S3Rep
<1>3. IsFiniteSet(S) /\ \A e \in S : e \in U
  BY FS_Subset
<1>4. /\ SumsAre(s.sums, K, s3Totals, S)
      /\ KeysAre(s.by, L, s3Counters, S)
      /\ SpanIs(s.span, S)
      /\ CapsAre(s.capped, C, s3CappedCounters, S)
      /\ CountersBy(s.ByHour, h, {}, a, S) /\ Fn(s.ByHour)
      /\ AnonsBy(s.AnonWrites, b, U, S \cap P) /\ Fn(s.AnonWrites)
      /\ AnonsBy(s.AnonReads, b, U, S \cap Q) /\ Fn(s.AnonReads)
      /\ ListKept(s.AccessChanges, ChangesOf(S), S3MaxAccessChanges)
  BY <1>2
<1>5. \A n \in s3Totals : s.sums[n] = SumOf(S, LAMBDA e : s3Sums(e)[n])
  <2>0. Table(K, s3Totals, U) /\ SumsAre(s.sums, K, s3Totals, S) /\ \A e \in S : K[e] = s3Sums(e)
    BY <1>1, <1>3, <1>4
  <2>1. TotalsAre(s.sums, K, s3Totals, S)
    BY <2>0, SumsEnd
  <2>2. \A n : [e \in S |-> K[e][n]] = [e \in S |-> s3Sums(e)[n]]
    BY <2>0
  <2> QED  BY <2>1, <2>2 DEF SumOf, Total, TotalsAre
<1>6. ASSUME NEW n \in s3Counters PROVE s.by[n] = CountKeys(S, LAMBDA e : s3Keys(e)[n])
  <2>0. DOMAIN L = U /\ KeysAre(s.by, L, s3Counters, S) /\ \A e \in S : L[e] = s3Keys(e)
    BY <1>1, <1>3, <1>4
  <2>1. s.by[n] = Keys(L, n, S)
    BY <2>0, KeysEnd
  <2>2. PICK T : T = {x \in S : L[x][n] # ""}
    OBVIOUS
  <2>3. T = {x \in S : s3Keys(x)[n] # ""} /\ {L[e][n] : e \in T} = {s3Keys(e)[n] : e \in T}
    BY <2>0, <2>2
  <2>4. \A k : {e \in T : L[e][n] = k} = {e \in T : s3Keys(e)[n] = k}
    BY <2>0, <2>2
  <2>5. Keys(L, n, S) = [k \in {s3Keys(e)[n] : e \in T} |-> Cardinality({e \in T : s3Keys(e)[n] = k})]
    BY <2>2, <2>3, <2>4 DEF Keys
  <2> QED  BY <2>1, <2>3, <2>5 DEF CountKeys, CountAll
<1>7. s.span = SpanOf(S)
  <2>1. s.span = SpanOf(Timed(S))
    BY <1>1, <1>3, <1>4, SpanEnd
  <2>2. Timed(S) = S
    BY DEF Timed
  <2> QED  BY <2>1, <2>2
<1>20. ASSUME NEW n \in s3CappedCounters
      PROVE  CappedOf(s.capped[n], S, LAMBDA e : s3Capped(e)[n].key, LAMBDA e : s3Capped(e)[n].n)
  <2>0. PICK c, f, w : c = s.capped[n] /\ f = KeyOf(C, n) /\ w = MuchOf(C, n)
    OBVIOUS
  <2>a. CapIs(c, f, w, S) /\ IsFiniteSet(S)
    BY <1>1, <1>3, <1>4, <2>0 DEF CapsAre
  <2>b. \A e \in S : f[e] = s3Capped(e)[n].key /\ w[e] = s3Capped(e)[n].n /\ w[e] \in Nat
    BY <1>1, <1>3, <1>4, <2>0 DEF KeyOf, MuchOf, Weighing
  <2>c. CappedOf(c, S, LAMBDA e : s3Capped(e)[n].key, LAMBDA e : s3Capped(e)[n].n)
    <3>2. \A e \in S : f[e] = s3Capped(e)[n].key /\ w[e] = s3Capped(e)[n].n
      BY <2>b
    <3> DEFINE Z == {e \in S : s3Capped(e)[n].key # "" /\ s3Capped(e)[n].n > 0}
    <3> HIDE DEF Z
    <3>3. Z = {e \in S : s3Capped(e)[n].key # "" /\ s3Capped(e)[n].n > 0}
      BY DEF Z
    <3>4. Z = {e \in S : f[e] # "" /\ w[e] > 0} /\ \A e \in Z : f[e] = s3Capped(e)[n].key /\ w[e] = s3Capped(e)[n].n
      BY <3>2, <3>3
    <3>9. CountedBy(Z, f, w, S)
      BY <3>4 DEF CountedBy
    <3>1. CapTold(c, f, w, Z)
      BY <2>a, <2>b, CapEnd, <3>9
    <3>5. [e \in Z |-> w[e]] = [e \in Z |-> s3Capped(e)[n].n] /\ {f[e] : e \in Z} = {s3Capped(e)[n].key : e \in Z}
      BY <3>4
    <3>6. \A k : {e \in Z : f[e] = k} = {e \in Z : s3Capped(e)[n].key = k}
      BY <3>4
    <3>7. \A k : [e \in {x \in Z : f[x] = k} |-> w[e]] = [e \in {x \in Z : s3Capped(x)[n].key = k} |-> s3Capped(e)[n].n]
      BY <3>4
    <3>8. /\ Sum(c, DOMAIN c) = Sum([e \in Z |-> s3Capped(e)[n].n], Z)
          /\ \A k \in DOMAIN c \ {OtherKey} : c[k] <= Sum([e \in {x \in Z : s3Capped(x)[n].key = k} |-> s3Capped(e)[n].n], {x \in Z : s3Capped(x)[n].key = k})
          /\ OtherKey \notin DOMAIN c => DOMAIN c = {s3Capped(e)[n].key : e \in Z}
      BY <3>1, <3>5, <3>6, <3>7 DEF CapTold
    <3> QED  BY <3>8 DEF Z, CappedOf, SumOf
  <2> QED  BY <2>0, <2>c
<1>21. s.ByHour = [k \in {Hour[e.time] : e \in S} |-> CountKeys({e \in S : Hour[e.time] = k}, StatusClass)]
  <2>1. PICK m : m = s.ByHour
    OBVIOUS
  <2>2. CountersBy(m, h, {}, a, S) /\ Fn(m)
    BY <1>4, <2>1
  <2>3. \A e \in S : h[e] = Hour[e.time] /\ a[e] = StatusClass(e)
    BY <1>1
  <2>4. DOMAIN m = {Hour[e.time] : e \in S}
    <3>1. {h[e] : e \in S} = {Hour[e.time] : e \in S}
      BY <2>3
    <3> QED  BY <2>2, <3>1 DEF CountersBy, KeyedBy, KeySet
  <2>5. ASSUME NEW k \in DOMAIN m PROVE m[k] = CountKeys({e \in S : Hour[e.time] = k}, StatusClass)
    <3>1. PICK T : T = {e \in {x \in S : Hour[x.time] = k} : StatusClass(e) # ""}
      OBVIOUS
    <3>2. Keyed(a, Having(h, k, S)) = T
      BY <2>3, <3>1 DEF Keyed, Having
    <3>3. m[k] = Counter(a, T)
      BY <2>2, <3>2 DEF CountersBy
    <3>4. \A e \in T : e \in S /\ a[e] = StatusClass(e)
      BY <2>3, <3>1
    <3>5. {a[e] : e \in T} = {StatusClass(e) : e \in T} /\ \A q : {e \in T : a[e] = q} = {e \in T : StatusClass(e) = q}
      BY <3>4
    <3>6. m[k] = [q \in {StatusClass(e) : e \in T} |-> Cardinality({e \in T : StatusClass(e) = q})]
      BY <3>3, <3>5 DEF Counter
    <3> QED  BY <3>1, <3>6 DEF CountKeys, CountAll
  <2>6. m = [k \in DOMAIN m |-> m[k]]
    BY <2>2 DEF Fn
  <2> QED  BY <2>1, <2>4, <2>5, <2>6
<1>22. AnonIsOf(s.AnonWrites, {e \in S : AnonWrite(e)})
  <2>1. PICK m, A : m = s.AnonWrites /\ A = S \cap P
    OBVIOUS
  <2>2. AnonsBy(m, b, U, A) /\ A \in SUBSET U /\ A = {e \in S : AnonWrite(e)}
    BY <1>1, <1>3, <1>4, <2>1
  <2>3. (\A e \in U : b[e] = e.bucket) /\ \A e \in U : e.time \in Nat /\ e.time > 0
    BY <1>1
  <2> QED  BY <2>1, <2>2, <2>3, AnonEnd
<1>23. AnonIsOf(s.AnonReads, {e \in S : AnonRead(e)})
  <2>1. PICK m, A : m = s.AnonReads /\ A = S \cap Q
    OBVIOUS
  <2>2. AnonsBy(m, b, U, A) /\ A \in SUBSET U /\ A = {e \in S : AnonRead(e)}
    BY <1>1, <1>3, <1>4, <2>1
  <2>3. (\A e \in U : b[e] = e.bucket) /\ \A e \in U : e.time \in Nat /\ e.time > 0
    BY <1>1
  <2> QED  BY <2>1, <2>2, <2>3, AnonEnd
<1>24. LET kept == s.AccessChanges  ids == {kept[i].id : i \in DOMAIN kept} IN
       /\ Len(kept) = Min({S3MaxAccessChanges, Cardinality(changes(S))}) /\ Cardinality(ids) = Len(kept)
       /\ ids \subseteq {e.id : e \in changes(S)}
       /\ \A i \in DOMAIN kept : \A e \in changes(S) : e.time < kept[i].time => e.id \in ids
  <2>1. PICK kept : kept = s.AccessChanges
    OBVIOUS
  <2>2. ListKept(kept, ChangesOf(S), S3MaxAccessChanges) /\ Len(kept) <= S3MaxAccessChanges /\ S3MaxAccessChanges \in Nat
    BY <1>1, <1>4, <2>1
  <2>3. \A e \in U : e.time \in Nat
    BY <1>1
  <2>4. EarliestOf(kept, changes(S), S3MaxAccessChanges)
    BY <1>1, <2>2, <2>3, ChangesEnd
  <2> QED  BY <2>1, <2>4 DEF EarliestOf
<1> QED  BY <1>5, <1>6, <1>7, <1>20, <1>21, <1>22, <1>23, <1>24 DEF S3IsOf

-----------------------------------------------------------------------------
(*****************************************************************************)
(* Two numbers, and sets of values as far as there is room.                  *)
(*****************************************************************************)

\* A set of up to n of the values V, and one that has all of them it can.
Filled(X, V, n) == X \subseteq V /\ IsFiniteSet(X) /\ Cardinality(X) <= n
Full(X, V, n) == Cardinality(X) = n \/ X = V

\* Min of two numbers, by cases.
LEMMA LesserIs ==
  ASSUME NEW a \in Int, NEW b \in Int
  PROVE  Min({a, b}) = IF a <= b THEN a ELSE b
<1>1. Min({a, b}) = CHOOSE x \in {a, b} : \A y \in {a, b} : x <= y
  BY DEF Min
<1>2. CASE a <= b
  <2>1. \A x \in {a, b} : (\A y \in {a, b} : x <= y) => x = a
    BY <1>2
  <2>2. a \in {a, b} /\ \A y \in {a, b} : a <= y
    BY <1>2
  <2> QED  BY <1>1, <1>2, <2>1, <2>2
<1>3. CASE ~(a <= b)
  <2>1. \A x \in {a, b} : (\A y \in {a, b} : x <= y) => x = b
    BY <1>3
  <2>2. b \in {a, b} /\ \A y \in {a, b} : b <= y
    BY <1>3
  <2> QED  BY <1>1, <1>3, <2>1, <2>2
<1> QED  BY <1>2, <1>3

\* The greater one of two numbers.
LEMMA GreaterIs ==
  ASSUME NEW a \in Int, NEW b \in Int
  PROVE  Max({a, b}) = IF a <= b THEN b ELSE a
<1>1. Max({a, b}) = CHOOSE x \in {a, b} : \A y \in {a, b} : x >= y
  BY DEF Max
<1>2. CASE a <= b
  <2>1. \A x \in {a, b} : (\A y \in {a, b} : x >= y) => x = b
    BY <1>2
  <2>2. b \in {a, b} /\ \A y \in {a, b} : b >= y
    BY <1>2
  <2> QED  BY <1>1, <1>2, <2>1, <2>2
<1>3. CASE ~(a <= b)
  <2>1. \A x \in {a, b} : (\A y \in {a, b} : x >= y) => x = a
    BY <1>3
  <2>2. a \in {a, b} /\ \A y \in {a, b} : a >= y
    BY <1>3
  <2> QED  BY <1>1, <1>3, <2>1, <2>2
<1> QED  BY <1>2, <1>3

\* As many of the values of one set as the other has room for.
Topped(X, Y, n, Z) == Z \in kSubset(Min({n - Cardinality(X), Cardinality(Y \ X)}), Y \ X)

\* A set that was filled up to n from two sets that each hold as many as fit is filled itself.
LEMMA FillMore ==
  ASSUME NEW n \in Nat, NEW X, NEW V, Filled(X, V, n), NEW Y, NEW W, Filled(Y, W, n), NEW Z, Topped(X, Y, n, Z)
  PROVE  /\ Filled(X \cup Z, V \cup W, n)
         /\ Full(X, V, n) /\ Full(Y, W, n) => Full(X \cup Z, V \cup W, n)
<1>1. IsFiniteSet(X) /\ IsFiniteSet(Y) /\ IsFiniteSet(Y \ X)
  BY FS_Difference DEF Filled
<1>2. PICK x \in Nat, y \in Nat, b \in Nat : x = Cardinality(X) /\ y = Cardinality(Y) /\ b = Cardinality(Y \ X)
  BY <1>1, FS_CardinalityType
<1>3. x <= n /\ y <= n
  BY <1>2 DEF Filled
<1>4. Z \in SUBSET (Y \ X) /\ Cardinality(Z) = Min({n - x, b})
  BY <1>2 DEF kSubset, Topped
<1>5. n - x \in Int /\ b \in Int
  BY <1>2, <1>3
<1>6. Cardinality(Z) = IF n - x <= b THEN n - x ELSE b
  BY <1>4, <1>5, LesserIs
<1>7. IsFiniteSet(Z) /\ X \cap Z = {}
  BY <1>1, <1>4, FS_Subset
<1>8. IsFiniteSet(X \cup Z) /\ Cardinality(X \cup Z) = x + Cardinality(Z)
  BY <1>1, <1>2, <1>7, FS_Union, ApartAddUp
<1>9. Filled(X \cup Z, V \cup W, n)
  <2>1. X \cup Z \subseteq V \cup W
    BY <1>4 DEF Filled
  <2>2. Cardinality(X \cup Z) <= n
    BY <1>2, <1>3, <1>6, <1>8
  <2> QED  BY <1>8, <2>1, <2>2 DEF Filled
<1>10. ASSUME Full(X, V, n), Full(Y, W, n) PROVE Full(X \cup Z, V \cup W, n)
  <2>1. CASE n - x <= b
    <3>1. Cardinality(X \cup Z) = n
      BY <1>2, <1>3, <1>6, <1>8, <2>1
    <3> QED  BY <3>1 DEF Full
  <2>2. CASE ~(n - x <= b)
    <3>1. Cardinality(Z) = b
      BY <1>6, <2>2
    <3>2. Z = Y \ X
      BY <1>1, <1>2, <1>4, <3>1, FS_Subset
    <3>3. X \cup Z = X \cup Y
      BY <3>2
    <3>4. X = V
      BY <1>2, <1>3, <1>5, <1>10, <2>2 DEF Full
    <3>5. CASE Y = W
      BY <3>3, <3>4, <3>5 DEF Full
    <3>6. CASE y = n
      <4>1. Cardinality(Y) <= Cardinality(X \cup Z)
        BY <1>8, <3>3, FS_Subset
      <4>2. x + b \in Nat /\ x + b < n
        BY <1>2, <1>3, <2>2
      <4> QED  BY <1>2, <1>8, <3>1, <3>6, <4>1, <4>2
    <3> QED  BY <1>2, <1>10, <3>5, <3>6 DEF Full
  <2> QED  BY <2>1, <2>2
<1> QED  BY <1>9, <1>10

-----------------------------------------------------------------------------
(*****************************************************************************)
(* The findings over a summary of web ACL requests.                          *)
(*****************************************************************************)

\* A sum of ones counts.
LEMMA OnesSum ==
  ASSUME NEW S, IsFiniteSet(S), NEW P \in SUBSET S, NEW f, \A x \in S : f[x] = IF x \in P THEN 1 ELSE 0
  PROVE  Sum(f, S) = Cardinality(P)
<1>1. PICK Q : Q = {T \in SUBSET S : Sum(f, T) = Cardinality(T \cap P)}
  OBVIOUS
<1>2. {} \in Q
  <2>1. Sum(f, {}) = 0 /\ Cardinality({} \cap P) = 0
    <3>1. {} \cap P = {}
      OBVIOUS
    <3> QED  BY <3>1, SumEmpty, FS_EmptySet
  <2> QED  BY <1>1, <2>1
<1>3. ASSUME NEW T \in SUBSET S, NEW x \in S, T \in Q /\ x \notin T PROVE T \cup {x} \in Q
  <2>1. Sum(f, T \cup {x}) = Sum(f, T) + f[x]
    <3>1. \A y \in S : f[y] \in Int
      OBVIOUS
    <3> QED  BY <1>3, <3>1, SumAdd
  <2>2. Sum(f, T) = Cardinality(T \cap P)
    BY <1>1, <1>3
  <2>3. IsFiniteSet(T \cap P) /\ Cardinality(T \cap P) \in Nat
    BY FS_Subset, FS_CardinalityType
  <2>4. CASE x \in P
    <3>1. (T \cup {x}) \cap P = (T \cap P) \cup {x} /\ x \notin T \cap P
      BY <1>3, <2>4
    <3>2. Cardinality((T \cap P) \cup {x}) = Cardinality(T \cap P) + 1
      BY <2>3, <3>1, FS_AddElement
    <3> QED  BY <1>1, <2>1, <2>2, <2>4, <3>1, <3>2
  <2>5. CASE x \notin P
    <3>1. (T \cup {x}) \cap P = T \cap P
      BY <2>5
    <3>2. Sum(f, T \cup {x}) = Cardinality(T \cap P)
      BY <2>1, <2>2, <2>3, <2>5
    <3> QED  BY <1>1, <3>1, <3>2
  <2> QED  BY <2>4, <2>5
<1>4. S \in Q
  BY <1>2, <1>3, EverySet
<1>5. S \cap P = P
  OBVIOUS
<1> QED  BY <1>1, <1>4, <1>5

\* Entries counted by their keys, together.
LEMMA KeysTotal ==
  ASSUME NEW S, IsFiniteSet(S), NEW f, NEW K, K = {f[e] : e \in S}
  PROVE  Sum([k \in K |-> Cardinality({e \in S : f[e] = k})], K) = Cardinality(S)
<1>1. IsFiniteSet(K)
  BY KeysFinite
<1>2. PICK C : C = [T \in SUBSET S |-> [k \in K |-> Cardinality({e \in T : f[e] = k})]]
  OBVIOUS
<1>3. \A T \in SUBSET S, k \in K : C[T][k] = Cardinality({e \in T : f[e] = k})
  BY <1>2
<1>4. PICK Q : Q = {T \in SUBSET S : Sum(C[T], K) = Cardinality(T)}
  OBVIOUS
<1>5. \A T \in SUBSET S : IsFiniteSet(T) /\ \A k : IsFiniteSet({e \in T : f[e] = k}) /\ Cardinality({e \in T : f[e] = k}) \in Nat
  <2> SUFFICES ASSUME NEW T \in SUBSET S, NEW k
               PROVE  IsFiniteSet(T) /\ IsFiniteSet({e \in T : f[e] = k}) /\ Cardinality({e \in T : f[e] = k}) \in Nat
    OBVIOUS
  <2>1. {e \in T : f[e] = k} \in SUBSET S
    OBVIOUS
  <2> QED  BY <2>1, FS_Subset, FS_CardinalityType
<1>6. {} \in Q
  <2>1. \A k \in K : C[{}][k] = 0
    <3> SUFFICES ASSUME NEW k \in K PROVE C[{}][k] = 0
      OBVIOUS
    <3>1. {e \in {} : f[e] = k} = {}
      OBVIOUS
    <3> QED  BY <1>3, <3>1, FS_EmptySet
  <2>2. Sum(C[{}], K) = 0
    BY <1>1, <2>1, SumZero
  <2> QED  BY <1>4, <2>2, FS_EmptySet
<1>7. ASSUME NEW T \in SUBSET S, NEW x \in S, T \in Q /\ x \notin T PROVE T \cup {x} \in Q
  <2>1. PICK g, h : g = C[T] /\ h = C[T \cup {x}]
    OBVIOUS
  <2>2. f[x] \in K /\ T \cup {x} \in SUBSET S
    OBVIOUS
  <2>3. ASSUME NEW k \in K PROVE g[k] \in Int /\ h[k] = g[k] + (IF k = f[x] THEN 1 ELSE 0)
    <3>1. PICK A : A = {e \in T : f[e] = k}
      OBVIOUS
    <3>2. g[k] = Cardinality(A) /\ IsFiniteSet(A) /\ Cardinality(A) \in Nat
      BY <1>3, <1>5, <2>1, <3>1
    <3>3. CASE k = f[x]
      <4>1. {e \in T \cup {x} : f[e] = k} = A \cup {x} /\ x \notin A
        BY <1>7, <3>1, <3>3
      <4>2. Cardinality(A \cup {x}) = Cardinality(A) + 1
        BY <3>2, <4>1, FS_AddElement
      <4>3. h[k] = Cardinality({e \in T \cup {x} : f[e] = k})
        BY <1>3, <2>1, <2>2
      <4> QED  BY <3>2, <3>3, <4>1, <4>2, <4>3
    <3>4. CASE k # f[x]
      <4>1. {e \in T \cup {x} : f[e] = k} = A
        BY <3>1, <3>4
      <4>3. h[k] = Cardinality({e \in T \cup {x} : f[e] = k})
        BY <1>3, <2>1, <2>2
      <4> QED  BY <3>2, <3>4, <4>1, <4>3
    <3> QED  BY <3>3, <3>4
  <2>4. OneMoreAt(g, h, f[x], 1, K)
    BY <2>3 DEF OneMoreAt
  <2>5. Sum(h, K) = Sum(g, K) + 1
    BY <1>1, <2>2, <2>4, SumOne
  <2>6. Cardinality(T \cup {x}) = Cardinality(T) + 1
    BY <1>5, <1>7, FS_AddElement
  <2>7. Sum(g, K) = Cardinality(T)
    BY <1>4, <1>7, <2>1
  <2> QED  BY <1>4, <2>1, <2>2, <2>5, <2>6, <2>7
<1>8. S \in Q
  BY <1>6, <1>7, EverySet
<1>9. C[S] = [k \in K |-> Cardinality({e \in S : f[e] = k})]
  BY <1>2
<1> QED  BY <1>4, <1>8, <1>9

\* The clients of requests, and how many requests of one have the action a or
\* failed a challenge.
ClientsOf(S) == {e.client : e \in S} \ {""}
Acted(S, ip, a) == {e \in S : e.client = ip /\ e.action = a}
FailedBy(S, ip) == {e \in S : e.client = ip /\ e.challengeFailed}
\* The requests that exploits were found in, and those a rate rule limited.
ExploitsIn(S) == {e \in S : ExploitMatch(e) # ""}
ExploitsFrom(S, ip) == {e \in ExploitsIn(S) : e.client = ip}
LimitedBy(S, r) == {e \in S : e.rateRule = r /\ e.client # ""}
CountedIn(S, r) == {e \in S : r \in Range(e.countRules)}

\* What the clients' sums say.
LEMMA ClientsTold ==
  ASSUME NEW S, IsFiniteSet(S), NEW s, WafIsOf(s, S)
  PROVE  /\ DOMAIN s.IPs = ClientsOf(S)
         /\ \A ip \in ClientsOf(S) : /\ s.IPs[ip].Blocks = Cardinality(Acted(S, ip, "BLOCK"))
                                     /\ s.IPs[ip].Allows = Cardinality(Acted(S, ip, "ALLOW"))
                                     /\ s.IPs[ip].ChallengeFails = Cardinality(FailedBy(S, ip))
<1>1. DOMAIN s.IPs = ClientsOf(S)
  BY Zenon DEF WafIsOf, ClientsOf
<1>2. \A ip \in DOMAIN s.IPs, n \in DOMAIN NoIP : s.IPs[ip][n] = SumOf({e \in S : e.client = ip}, LAMBDA e : ipSums(e)[n])
  BY Zenon DEF WafIsOf
<1>3. DOMAIN NoIP = {"Blocks", "Allows", "RateLimited", "ChallengeFails"}
  BY DEF NoIP, NoSums
<1>4. ASSUME NEW ip \in ClientsOf(S)
      PROVE  /\ s.IPs[ip].Blocks = Cardinality(Acted(S, ip, "BLOCK"))
             /\ s.IPs[ip].Allows = Cardinality(Acted(S, ip, "ALLOW"))
             /\ s.IPs[ip].ChallengeFails = Cardinality(FailedBy(S, ip))
  <2>1. PICK T : T = {e \in S : e.client = ip}
    OBVIOUS
  <2>2. T \in SUBSET S /\ IsFiniteSet(T)
    BY <2>1, FS_Subset
  <2>3. \A n \in DOMAIN NoIP : s.IPs[ip][n] = Sum([e \in T |-> ipSums(e)[n]], T)
    BY <1>1, <1>2, <2>1 DEF SumOf
  <2>4. /\ Acted(S, ip, "BLOCK") \in SUBSET T /\ Acted(S, ip, "ALLOW") \in SUBSET T /\ FailedBy(S, ip) \in SUBSET T
        /\ \A e \in T : e \in Acted(S, ip, "BLOCK") <=> e.action = "BLOCK"
        /\ \A e \in T : e \in Acted(S, ip, "ALLOW") <=> e.action = "ALLOW"
        /\ \A e \in T : e \in FailedBy(S, ip) <=> e.challengeFailed
    BY <2>1 DEF Acted, FailedBy
  <2>5. \A e : ipSums(e).Blocks = One(e.action = "BLOCK") /\ ipSums(e).Allows = One(e.action = "ALLOW") /\ ipSums(e).ChallengeFails = One(e.challengeFailed)
    BY Zenon DEF ipSums
  <2>6. Sum([e \in T |-> ipSums(e)["Blocks"]], T) = Cardinality(Acted(S, ip, "BLOCK"))
    <3>1. PICK f : f = [e \in T |-> ipSums(e)["Blocks"]]
      OBVIOUS
    <3>2. \A e \in T : f[e] = IF e \in Acted(S, ip, "BLOCK") THEN 1 ELSE 0
      <4>1. \A e \in T : f[e] = One(e.action = "BLOCK")
        BY Zenon, <2>5, <3>1
      <4> QED  BY Zenon, <2>4, <4>1 DEF One
    <3> QED  BY <2>2, <2>4, <3>1, <3>2, OnesSum
  <2>7. Sum([e \in T |-> ipSums(e)["Allows"]], T) = Cardinality(Acted(S, ip, "ALLOW"))
    <3>1. PICK f : f = [e \in T |-> ipSums(e)["Allows"]]
      OBVIOUS
    <3>2. \A e \in T : f[e] = IF e \in Acted(S, ip, "ALLOW") THEN 1 ELSE 0
      <4>1. \A e \in T : f[e] = One(e.action = "ALLOW")
        BY Zenon, <2>5, <3>1
      <4> QED  BY Zenon, <2>4, <4>1 DEF One
    <3> QED  BY <2>2, <2>4, <3>1, <3>2, OnesSum
  <2>8. Sum([e \in T |-> ipSums(e)["ChallengeFails"]], T) = Cardinality(FailedBy(S, ip))
    <3>1. PICK f : f = [e \in T |-> ipSums(e)["ChallengeFails"]]
      OBVIOUS
    <3>2. \A e \in T : f[e] = IF e \in FailedBy(S, ip) THEN 1 ELSE 0
      <4>1. \A e \in T : f[e] = One(e.challengeFailed)
        BY Zenon, <2>5, <3>1
      <4> QED  BY Zenon, <2>4, <4>1 DEF One
    <3> QED  BY <2>2, <2>4, <3>1, <3>2, OnesSum
  <2>9. "Blocks" \in DOMAIN NoIP /\ "Allows" \in DOMAIN NoIP /\ "ChallengeFails" \in DOMAIN NoIP
    BY <1>3
  <2> QED  BY Zenon, <2>3, <2>6, <2>7, <2>8, <2>9
<1> QED  BY <1>1, <1>4

\* What the exploits say.
LEMMA ExploitsTold ==
  ASSUME NEW S, NEW s, WafIsOf(s, S)
  PROVE  /\ DOMAIN s.Exploits = {e.client : e \in ExploitsIn(S)}
         /\ \A ip \in DOMAIN s.Exploits : /\ s.Exploits[ip].count = Cardinality(ExploitsFrom(S, ip))
                                          /\ s.Exploits[ip].first = SpanOf(ExploitsFrom(S, ip)).first
<1>1. DOMAIN s.Exploits = {e.client : e \in ExploitsIn(S)}
  BY Zenon DEF WafIsOf, ExploitsIn
<1>2. \A ip \in DOMAIN s.Exploits :
         LET X == ExploitsIn(S) \cap {e \in S : e.client = ip} IN
           s.Exploits[ip].count = Cardinality(X) /\ s.Exploits[ip].first = SpanOf(X).first
  BY Zenon DEF WafIsOf, ExploitsIn
<1>3. \A ip : ExploitsIn(S) \cap {e \in S : e.client = ip} = ExploitsFrom(S, ip)
  BY DEF ExploitsIn, ExploitsFrom
<1> QED  BY <1>1, <1>2, <1>3, Zenon

\* What the rate rules say.
LEMMA RatesTold ==
  ASSUME NEW S, IsFiniteSet(S), NEW s, WafIsOf(s, S)
  PROVE  /\ DOMAIN s.RateByRule = {e.rateRule : e \in S} \ {""}
         /\ \A r \in DOMAIN s.RateByRule : Sum(s.RateByRule[r], DOMAIN s.RateByRule[r]) = Cardinality(LimitedBy(S, r))
<1>1. s.RateByRule = [r \in {e.rateRule : e \in S} \ {""} |-> CountKeys({e \in S : e.rateRule = r}, LAMBDA e : e.client)]
  BY Zenon DEF WafIsOf
<1>2. ASSUME NEW r \in DOMAIN s.RateByRule PROVE Sum(s.RateByRule[r], DOMAIN s.RateByRule[r]) = Cardinality(LimitedBy(S, r))
  <2>1. s.RateByRule[r] = CountKeys({e \in S : e.rateRule = r}, LAMBDA e : e.client)
    BY <1>1
  <2>2. {e \in {x \in S : x.rateRule = r} : e.client # ""} = LimitedBy(S, r)
    BY DEF LimitedBy
  <2>3. PICK L : L = LimitedBy(S, r)
    OBVIOUS
  <2>4. IsFiniteSet(L)
    <3>1. L \in SUBSET S
      BY <2>3 DEF LimitedBy
    <3> QED  BY <3>1, FS_Subset
  <2>5. s.RateByRule[r] = [k \in {e.client : e \in L} |-> Cardinality({e \in L : e.client = k})]
    BY <2>1, <2>2, <2>3 DEF CountKeys, CountAll
  <2>6. PICK f, K : f = [e \in L |-> e.client] /\ K = {f[e] : e \in L}
    OBVIOUS
  <2>7. K = {e.client : e \in L} /\ \A k : {e \in L : f[e] = k} = {e \in L : e.client = k}
    BY <2>6
  <2>8. PICK c : c = [k \in K |-> Cardinality({e \in L : f[e] = k})]
    OBVIOUS
  <2>9. s.RateByRule[r] = c /\ DOMAIN c = K
    BY <2>5, <2>7, <2>8
  <2>10. Sum(c, K) = Cardinality(L)
    BY <2>4, <2>6, <2>8, KeysTotal
  <2> QED  BY <2>3, <2>9, <2>10
<1> QED  BY <1>1, <1>2

\* What the counting rules say.
LEMMA CountRulesTold ==
  ASSUME NEW S, IsFiniteSet(S), NEW s, WafIsOf(s, S), "ByCountRule" \in DOMAIN s.lists,
         \A e \in S : IsList(e.countRules) /\ OneEach(e.countRules)
  PROVE  /\ DOMAIN s.lists.ByCountRule = (UNION {Range(e.countRules) : e \in S}) \ {""}
         /\ \A r \in DOMAIN s.lists.ByCountRule : s.lists.ByCountRule[r] = Cardinality(CountedIn(S, r))
<1>1. s.lists["ByCountRule"] =
        [r \in (UNION {Range(wafLists(e)["ByCountRule"]) : e \in S}) \ {""} |->
           SumOf(S, LAMBDA e : CountOf(Occurrences(wafLists(e)["ByCountRule"]), r))]
  BY Zenon DEF WafIsOf
<1>2. \A e : wafLists(e)["ByCountRule"] = e.countRules
  BY DEF wafLists
<1>3. DOMAIN s.lists["ByCountRule"] = (UNION {Range(e.countRules) : e \in S}) \ {""}
  <2>1. \A e : Range(wafLists(e)["ByCountRule"]) = Range(e.countRules)
    BY <1>2
  <2>2. {Range(wafLists(e)["ByCountRule"]) : e \in S} = {Range(e.countRules) : e \in S}
    BY Zenon, <2>1
  <2> QED  BY <1>1, <2>2
<1>4. ASSUME NEW r \in DOMAIN s.lists["ByCountRule"] PROVE s.lists["ByCountRule"][r] = Cardinality(CountedIn(S, r))
  <2>1. PICK f : f = [e \in S |-> CountOf(Occurrences(e.countRules), r)]
    OBVIOUS
  <2>2. s.lists["ByCountRule"][r] = Sum(f, S)
    BY <1>1, <1>2, <2>1 DEF SumOf
  <2>3. r # ""
    BY <1>3
  <2>4. ASSUME NEW e \in S PROVE f[e] = IF e \in CountedIn(S, r) THEN 1 ELSE 0
    <3>1. PICK o : o = Occurrences(e.countRules)
      OBVIOUS
    <3>2. /\ DOMAIN o = {e.countRules[i] : i \in DOMAIN e.countRules} \ {""}
          /\ \A x \in DOMAIN o : o[x] = 1
      BY <3>1, OccurrencesAre
    <3>3. f[e] = CountOf(o, r)
      BY <2>1, <3>1
    <3>4. e \in CountedIn(S, r) <=> r \in {e.countRules[i] : i \in DOMAIN e.countRules}
      BY DEF CountedIn, Range
    <3>5. r \in DOMAIN o <=> e \in CountedIn(S, r)
      BY <2>3, <3>2, <3>4
    <3> QED  BY <3>2, <3>3, <3>5 DEF CountOf
  <2>5. CountedIn(S, r) \in SUBSET S
    BY DEF CountedIn
  <2>6. Sum(f, S) = Cardinality(CountedIn(S, r))
    BY <2>4, <2>5, OnesSum
  <2> QED  BY <2>2, <2>6
<1> QED  BY <1>3, <1>4

\* What the total of oversize requests says.
LEMMA OversizeTold ==
  ASSUME NEW S, IsFiniteSet(S), NEW s, WafIsOf(s, S)
  PROVE  s.sums.Oversize = Cardinality({e \in S : e.oversize})
<1>1. \A n \in wafTotals : s.sums[n] = SumOf(S, LAMBDA e : wafSums(e)[n])
  BY Zenon DEF WafIsOf
<1>2. PICK f : f = [e \in S |-> wafSums(e)["Oversize"]]
  OBVIOUS
<1>3. s.sums.Oversize = Sum(f, S)
  <2>1. "Oversize" \in wafTotals
    BY DEF wafTotals
  <2>2. s.sums["Oversize"] = SumOf(S, LAMBDA e : wafSums(e)["Oversize"])
    BY <1>1, <2>1
  <2> QED  BY <1>2, <2>2 DEF SumOf
<1>4. PICK P : P = {e \in S : e.oversize}
  OBVIOUS
<1>5. \A e \in S : f[e] = IF e \in P THEN 1 ELSE 0
  <2>1. \A e : wafSums(e)["Oversize"] = One(e.oversize)
    BY Zenon DEF wafSums
  <2>2. \A e \in S : f[e] = One(e.oversize)
    BY Zenon, <1>2, <2>1
  <2>3. \A e \in S : e \in P <=> e.oversize
    BY <1>4
  <2> QED  BY Zenon, <2>2, <2>3 DEF One
<1>6. P \in SUBSET S
  BY <1>4
<1>7. Sum(f, S) = Cardinality(P)
  BY <1>5, <1>6, OnesSum
<1> QED  BY <1>3, <1>4, <1>7

\* The findings of a summary of requests are those of the requests.
LEMMA WafHitsAre ==
  ASSUME NEW S, IsFiniteSet(S), NEW s, WafIsOf(s, S), "ByCountRule" \in DOMAIN s.lists,
         \A e \in S : IsList(e.countRules) /\ OneEach(e.countRules), NEW t \in Nat
  PROVE  wafHits(s, t) = WafHitsOf(S, t)
<1>1. PICK f : f = SpanOf(S).first
  OBVIOUS
<1>2. s.span.first = f
  BY <1>1, Zenon DEF WafIsOf
<1>3. PICK B, A, C : /\ B = [ip \in ClientsOf(S) |-> Cardinality(Acted(S, ip, "BLOCK"))]
                     /\ A = [ip \in ClientsOf(S) |-> Cardinality(Acted(S, ip, "ALLOW"))]
                     /\ C = [ip \in ClientsOf(S) |-> Cardinality(FailedBy(S, ip))]
  OBVIOUS
<1>4. PICK D : D = ClientsOf(S)
  OBVIOUS
<1>5. /\ DOMAIN s.IPs = D
      /\ \A ip \in D : s.IPs[ip].Blocks = B[ip] /\ s.IPs[ip].Allows = A[ip] /\ s.IPs[ip].ChallengeFails = C[ip]
      /\ \A ip \in D : B[ip] = Cardinality(Acted(S, ip, "BLOCK")) /\ A[ip] = Cardinality(Acted(S, ip, "ALLOW")) /\ C[ip] = Cardinality(FailedBy(S, ip))
  BY <1>3, <1>4, ClientsTold
<1>6. \A ip \in D : B[ip] \in Nat /\ A[ip] \in Nat /\ C[ip] \in Nat
  <2> SUFFICES ASSUME NEW ip \in D PROVE B[ip] \in Nat /\ A[ip] \in Nat /\ C[ip] \in Nat
    OBVIOUS
  <2>1. Acted(S, ip, "BLOCK") \in SUBSET S /\ Acted(S, ip, "ALLOW") \in SUBSET S /\ FailedBy(S, ip) \in SUBSET S
    BY DEF Acted, FailedBy
  <2> QED  BY <1>5, <2>1, FS_Subset, FS_CardinalityType
<1>10. {Hit("waf-exploit-allowed", CRITICAL, ip, s.Exploits[ip].count, s.Exploits[ip].first) : ip \in DOMAIN s.Exploits}
       = {Hit("waf-exploit-allowed", CRITICAL, ip, Cardinality(ExploitsFrom(S, ip)), SpanOf(ExploitsFrom(S, ip)).first) :
            ip \in {e.client : e \in ExploitsIn(S)}}
  <2>1. PICK X : X = {e.client : e \in ExploitsIn(S)}
    OBVIOUS
  <2>2. /\ DOMAIN s.Exploits = X
        /\ \A ip \in X : /\ s.Exploits[ip].count = Cardinality(ExploitsFrom(S, ip))
                         /\ s.Exploits[ip].first = SpanOf(ExploitsFrom(S, ip)).first
    BY <2>1, ExploitsTold
  <2> QED  BY Zenon, <2>1, <2>2
<1>11. PICK P : P = {ip \in D : B[ip] >= t}
  OBVIOUS
<1>12. {ip \in DOMAIN s.IPs : s.IPs[ip].Blocks >= t} = P
  BY <1>5, <1>11
<1>13. PICK Q : Q = {ip \in P : A[ip] > 0}
  OBVIOUS
<1>14. {ip \in P : s.IPs[ip].Allows > 0} = Q
  BY <1>5, <1>11, <1>13
<1>15. {Hit("waf-attacker-allowed", HIGH, ip, s.IPs[ip].Blocks, f) : ip \in Q}
       \cup {Hit("waf-persistent-blocked-ip", MEDIUM, ip, s.IPs[ip].Blocks, f) : ip \in P \ Q}
       = {Hit(IF A[ip] > 0 THEN "waf-attacker-allowed" ELSE "waf-persistent-blocked-ip", IF A[ip] > 0 THEN HIGH ELSE MEDIUM, ip, B[ip], f) :
            ip \in P}
  <2>1. \A ip \in P : s.IPs[ip].Blocks = B[ip] /\ (ip \in Q <=> A[ip] > 0)
    BY <1>5, <1>11, <1>13
  <2>2. Q \subseteq P
    BY <1>13
  <2> QED  BY Zenon, <2>1, <2>2
<1>16. PICK F : F = {ip \in D : C[ip] > 0 /\ C[ip] >= t \div 10}
  OBVIOUS
<1>17. {ip \in DOMAIN s.IPs : s.IPs[ip].ChallengeFails >= Max({t \div 10, 1})} = F
  <2>1. PICK q : q = t \div 10
    OBVIOUS
  <2>2. q \in Int
    BY <2>1
  <2>3. Max({q, 1}) = IF q <= 1 THEN 1 ELSE q
    BY <2>2, GreaterIs
  <2>4. \A ip \in D : C[ip] >= Max({q, 1}) <=> C[ip] > 0 /\ C[ip] >= q
    BY <1>6, <2>2, <2>3
  <2>5. \A ip : ip \in {i \in DOMAIN s.IPs : s.IPs[i].ChallengeFails >= Max({t \div 10, 1})} <=> ip \in D /\ C[ip] >= Max({q, 1})
    BY Zenon, <1>5, <2>1
  <2>6. \A ip : ip \in F <=> ip \in D /\ C[ip] > 0 /\ C[ip] >= q
    BY Zenon, <1>16, <2>1
  <2> QED  BY Zenon, <2>4, <2>5, <2>6
<1>18. {Hit("waf-challenge-failures", LOW, ip, s.IPs[ip].ChallengeFails, f) : ip \in F}
       = {Hit("waf-challenge-failures", LOW, ip, C[ip], f) : ip \in F}
  <2>1. \A ip \in F : s.IPs[ip].ChallengeFails = C[ip]
    BY <1>5, <1>16
  <2> QED  BY Zenon, <2>1
<1>19. {Hit("waf-rate-limited", HIGH, r, Sum(s.RateByRule[r], DOMAIN s.RateByRule[r]), f) : r \in DOMAIN s.RateByRule}
       = {Hit("waf-rate-limited", HIGH, r, Cardinality(LimitedBy(S, r)), f) : r \in {e.rateRule : e \in S} \ {""}}
  BY Zenon, RatesTold
<1>20. {Hit("waf-count-rule", MEDIUM, r, s.lists.ByCountRule[r], f) : r \in DOMAIN s.lists.ByCountRule}
       = {Hit("waf-count-rule", MEDIUM, r, Cardinality(CountedIn(S, r)), f) : r \in (UNION {Range(e.countRules) : e \in S}) \ {""}}
  <2>1. PICK X, c : X = (UNION {Range(e.countRules) : e \in S}) \ {""} /\ c = s.lists.ByCountRule
    OBVIOUS
  <2>2. DOMAIN c = X /\ \A r \in X : c[r] = Cardinality(CountedIn(S, r))
    BY <2>1, CountRulesTold
  <2> QED  BY Zenon, <2>1, <2>2
<1>21. PICK o : o = Cardinality({e \in S : e.oversize})
  OBVIOUS
<1>22. {Hit("waf-oversize", MEDIUM, "", s.sums.Oversize, f) : x \in {1} \cap 1..s.sums.Oversize}
       = {Hit("waf-oversize", MEDIUM, "", n, f) : n \in {o} \ {0}}
  <2>1. s.sums.Oversize = o
    BY <1>21, OversizeTold
  <2>2. o \in Nat
    <3>1. {e \in S : e.oversize} \in SUBSET S
      OBVIOUS
    <3> QED  BY <1>21, <3>1, FS_Subset, FS_CardinalityType
  <2>3. CASE o = 0
    <3>1. {1} \cap 1..s.sums.Oversize = {} /\ {o} \ {0} = {}
      BY <2>1, <2>3
    <3> QED  BY Zenon, <3>1
  <2>4. CASE o # 0
    <3>1. {1} \cap 1..s.sums.Oversize = {1} /\ {o} \ {0} = {o}
      BY <2>1, <2>2, <2>4
    <3> QED  BY Zenon, <2>1, <3>1
  <2> QED  BY <2>3, <2>4
<1>30. wafHits(s, t)
       = {Hit("waf-exploit-allowed", CRITICAL, ip, s.Exploits[ip].count, s.Exploits[ip].first) : ip \in DOMAIN s.Exploits}
         \cup {Hit("waf-attacker-allowed", HIGH, ip, s.IPs[ip].Blocks, f) : ip \in Q}
         \cup {Hit("waf-persistent-blocked-ip", MEDIUM, ip, s.IPs[ip].Blocks, f) : ip \in P \ Q}
         \cup {Hit("waf-challenge-failures", LOW, ip, s.IPs[ip].ChallengeFails, f) : ip \in F}
         \cup {Hit("waf-rate-limited", HIGH, r, Sum(s.RateByRule[r], DOMAIN s.RateByRule[r]), f) : r \in DOMAIN s.RateByRule}
         \cup {Hit("waf-count-rule", MEDIUM, r, s.lists.ByCountRule[r], f) : r \in DOMAIN s.lists.ByCountRule}
         \cup {Hit("waf-oversize", MEDIUM, "", s.sums.Oversize, f) : x \in {1} \cap 1..s.sums.Oversize}
  <2> DEFINE g == s.span.first
             Ps == {ip \in DOMAIN s.IPs : s.IPs[ip].Blocks >= t}
             Qs == {ip \in Ps : s.IPs[ip].Allows > 0}
             Fs == {ip \in DOMAIN s.IPs : s.IPs[ip].ChallengeFails >= Max({t \div 10, 1})}
  <2>1. wafHits(s, t)
         = {Hit("waf-exploit-allowed", CRITICAL, ip, s.Exploits[ip].count, s.Exploits[ip].first) : ip \in DOMAIN s.Exploits}
           \cup {Hit("waf-attacker-allowed", HIGH, ip, s.IPs[ip].Blocks, g) : ip \in Qs}
           \cup {Hit("waf-persistent-blocked-ip", MEDIUM, ip, s.IPs[ip].Blocks, g) : ip \in Ps \ Qs}
           \cup {Hit("waf-challenge-failures", LOW, ip, s.IPs[ip].ChallengeFails, g) : ip \in Fs}
           \cup {Hit("waf-rate-limited", HIGH, r, Sum(s.RateByRule[r], DOMAIN s.RateByRule[r]), g) : r \in DOMAIN s.RateByRule}
           \cup {Hit("waf-count-rule", MEDIUM, r, s.lists.ByCountRule[r], g) : r \in DOMAIN s.lists.ByCountRule}
           \cup {Hit("waf-oversize", MEDIUM, "", s.sums.Oversize, g) : x \in {1} \cap 1..s.sums.Oversize}
    BY Zenon DEF wafHits
  <2>2. Ps = P
    BY Zenon, <1>12
  <2>3. Qs = Q
    BY Zenon, <2>2, <1>14
  <2>4. Fs = F
    BY Zenon, <1>17
  <2>5. g = f
    BY <1>2
  <2> HIDE DEF g, Ps, Qs, Fs
  <2> QED  BY ZenonT(60), <2>1, <2>2, <2>3, <2>4, <2>5
<1>31. WafHitsOf(S, t)
       = {Hit("waf-exploit-allowed", CRITICAL, ip, Cardinality(ExploitsFrom(S, ip)), SpanOf(ExploitsFrom(S, ip)).first) :
            ip \in {e.client : e \in ExploitsIn(S)}}
         \cup {Hit(IF A[ip] > 0 THEN "waf-attacker-allowed" ELSE "waf-persistent-blocked-ip", IF A[ip] > 0 THEN HIGH ELSE MEDIUM, ip, B[ip], f) :
                 ip \in P}
         \cup {Hit("waf-challenge-failures", LOW, ip, C[ip], f) : ip \in F}
         \cup {Hit("waf-rate-limited", HIGH, r, Cardinality(LimitedBy(S, r)), f) : r \in {e.rateRule : e \in S} \ {""}}
         \cup {Hit("waf-count-rule", MEDIUM, r, Cardinality(CountedIn(S, r)), f) : r \in (UNION {Range(e.countRules) : e \in S}) \ {""}}
         \cup {Hit("waf-oversize", MEDIUM, "", n, f) : n \in {o} \ {0}}
  <2>1. WafHitsOf(S, t)
        = {Hit("waf-exploit-allowed", CRITICAL, ip, Cardinality({e \in S : e \in ExploitsIn(S) /\ e.client = ip}),
               SpanOf(ExploitsFrom(S, ip)).first) : ip \in {e.client : e \in ExploitsIn(S)}}
          \cup {Hit(IF Cardinality(Acted(S, ip, "ALLOW")) > 0 THEN "waf-attacker-allowed" ELSE "waf-persistent-blocked-ip",
                    IF Cardinality(Acted(S, ip, "ALLOW")) > 0 THEN HIGH ELSE MEDIUM, ip, Cardinality(Acted(S, ip, "BLOCK")), f) :
                  ip \in {c \in ClientsOf(S) : Cardinality(Acted(S, c, "BLOCK")) >= t}}
          \cup {Hit("waf-challenge-failures", LOW, ip, Cardinality(FailedBy(S, ip)), f) :
                  ip \in {c \in ClientsOf(S) : Cardinality(FailedBy(S, c)) > 0 /\ Cardinality(FailedBy(S, c)) >= t \div 10}}
          \cup {Hit("waf-rate-limited", HIGH, r, Cardinality(LimitedBy(S, r)), f) : r \in {e.rateRule : e \in S} \ {""}}
          \cup {Hit("waf-count-rule", MEDIUM, r, Cardinality(CountedIn(S, r)), f) : r \in (UNION {Range(e.countRules) : e \in S}) \ {""}}
          \cup {Hit("waf-oversize", MEDIUM, "", n, f) : n \in {Cardinality({e \in S : e.oversize})} \ {0}}
    BY ZenonT(60), <1>1 DEF WafHitsOf, ExploitsIn, ExploitsFrom, Acted, ClientsOf, FailedBy, LimitedBy, CountedIn
  <2>2. \A ip : {e \in S : e \in ExploitsIn(S) /\ e.client = ip} = ExploitsFrom(S, ip)
    BY DEF ExploitsIn, ExploitsFrom
  <2>3. {c \in ClientsOf(S) : Cardinality(Acted(S, c, "BLOCK")) >= t} = P
    BY Zenon, <1>4, <1>5, <1>11
  <2>4. {c \in ClientsOf(S) : Cardinality(FailedBy(S, c)) > 0 /\ Cardinality(FailedBy(S, c)) >= t \div 10} = F
    BY Zenon, <1>4, <1>5, <1>16
  <2>5. {Hit("waf-exploit-allowed", CRITICAL, ip, Cardinality({e \in S : e \in ExploitsIn(S) /\ e.client = ip}),
             SpanOf(ExploitsFrom(S, ip)).first) : ip \in {e.client : e \in ExploitsIn(S)}}
        = {Hit("waf-exploit-allowed", CRITICAL, ip, Cardinality(ExploitsFrom(S, ip)), SpanOf(ExploitsFrom(S, ip)).first) :
             ip \in {e.client : e \in ExploitsIn(S)}}
    BY Zenon, <2>2
  <2>6. {Hit(IF Cardinality(Acted(S, ip, "ALLOW")) > 0 THEN "waf-attacker-allowed" ELSE "waf-persistent-blocked-ip",
             IF Cardinality(Acted(S, ip, "ALLOW")) > 0 THEN HIGH ELSE MEDIUM, ip, Cardinality(Acted(S, ip, "BLOCK")), f) : ip \in P}
        = {Hit(IF A[ip] > 0 THEN "waf-attacker-allowed" ELSE "waf-persistent-blocked-ip", IF A[ip] > 0 THEN HIGH ELSE MEDIUM, ip, B[ip], f) :
             ip \in P}
    <3>1. \A ip \in P : Cardinality(Acted(S, ip, "ALLOW")) = A[ip] /\ Cardinality(Acted(S, ip, "BLOCK")) = B[ip]
      BY <1>5, <1>11
    <3> QED  BY Zenon, <3>1
  <2>7. {Hit("waf-challenge-failures", LOW, ip, Cardinality(FailedBy(S, ip)), f) : ip \in F}
        = {Hit("waf-challenge-failures", LOW, ip, C[ip], f) : ip \in F}
    <3>1. \A ip \in F : Cardinality(FailedBy(S, ip)) = C[ip]
      BY <1>5, <1>16
    <3> QED  BY Zenon, <3>1
  <2> QED  BY Zenon, <1>21, <2>1, <2>3, <2>4, <2>5, <2>6, <2>7
<1> QED  BY <1>10, <1>15, <1>18, <1>19, <1>20, <1>22, <1>30, <1>31, Zenon

\* What finitely many entries are made into is finitely many.
LEMMA ImageFinite ==
  ASSUME NEW S, IsFiniteSet(S), NEW h, NEW T \in SUBSET {h[e] : e \in S}
  PROVE  IsFiniteSet(T)
<1>1. IsFiniteSet({h[e] : e \in S})
  BY KeysFinite
<1> QED  BY <1>1, FS_Subset

\* The findings of a summary of requests are finitely many.
LEMMA WafHitsFinite ==
  ASSUME NEW S, IsFiniteSet(S), NEW s, WafIsOf(s, S), "ByCountRule" \in DOMAIN s.lists,
         \A e \in S : IsList(e.countRules) /\ OneEach(e.countRules), NEW t
  PROVE  IsFiniteSet(wafHits(s, t))
<1>1. PICK f : f = s.span.first
  OBVIOUS
<1>2. PICK D : D = DOMAIN s.IPs
  OBVIOUS
<1>3. PICK P, Q, F : /\ P = {ip \in D : s.IPs[ip].Blocks >= t} /\ Q = {ip \in P : s.IPs[ip].Allows > 0}
                     /\ F = {ip \in D : s.IPs[ip].ChallengeFails >= Max({t \div 10, 1})}
  OBVIOUS
<1>4. P \in SUBSET D /\ Q \in SUBSET D /\ P \ Q \in SUBSET D /\ F \in SUBSET D
  BY <1>3
<1>5. IsFiniteSet(D)
  <2>1. D = ClientsOf(S)
    BY <1>2, ClientsTold
  <2>2. PICK g : g = [e \in S |-> e.client]
    OBVIOUS
  <2>3. D \in SUBSET {g[e] : e \in S}
    BY <2>1, <2>2 DEF ClientsOf
  <2> QED  BY <2>3, ImageFinite
<1>6. PICK X, R, C, O : /\ X = DOMAIN s.Exploits /\ R = DOMAIN s.RateByRule /\ C = DOMAIN s.lists.ByCountRule
                        /\ O = {1} \cap 1..s.sums.Oversize
  OBVIOUS
<1>7. IsFiniteSet(X)
  <2>1. X = {e.client : e \in ExploitsIn(S)}
    BY <1>6, ExploitsTold
  <2>2. PICK g : g = [e \in S |-> e.client]
    OBVIOUS
  <2>3. X \in SUBSET {g[e] : e \in S}
    BY <2>1, <2>2 DEF ExploitsIn
  <2> QED  BY <2>3, ImageFinite
<1>8. IsFiniteSet(R)
  <2>1. R = {e.rateRule : e \in S} \ {""}
    BY <1>6, RatesTold
  <2>2. PICK g : g = [e \in S |-> e.rateRule]
    OBVIOUS
  <2>3. R \in SUBSET {g[e] : e \in S}
    BY <2>1, <2>2
  <2> QED  BY <2>3, ImageFinite
<1>9. IsFiniteSet(C)
  <2>1. PICK V : V = {Range(e.countRules) : e \in S}
    OBVIOUS
  <2>2. C = (UNION V) \ {""}
    BY <1>6, <2>1, CountRulesTold
  <2>3. IsFiniteSet(V)
    <3>1. PICK g : g = [e \in S |-> Range(e.countRules)]
      OBVIOUS
    <3>2. V = {g[e] : e \in S}
      BY <2>1, <3>1
    <3> QED  BY <3>2, KeysFinite
  <2>4. ASSUME NEW v \in V PROVE IsFiniteSet(v)
    <3>1. PICK e \in S : v = Range(e.countRules)
      BY <2>1
    <3>2. PICK r : r = e.countRules
      OBVIOUS
    <3>3. IsFiniteSet(DOMAIN r)
      BY <3>1, <3>2, ListFacts
    <3>4. v = {r[i] : i \in DOMAIN r}
      BY <3>1, <3>2 DEF Range
    <3> QED  BY <3>3, <3>4, KeysFinite
  <2>5. IsFiniteSet(UNION V)
    BY <2>3, <2>4, FS_UNION
  <2>6. C \in SUBSET UNION V
    BY <2>2
  <2> QED  BY <2>5, <2>6, FS_Subset
<1>10. IsFiniteSet(O)
  <2>1. O \in SUBSET {1} /\ IsFiniteSet({1})
    BY <1>6, FS_Singleton
  <2> QED  BY <2>1, FS_Subset
<1>7a. IsFiniteSet(Q) /\ IsFiniteSet(P \ Q) /\ IsFiniteSet(F)
  BY <1>4, <1>5, FS_Subset
<1>13. wafHits(s, t)
       = {Hit("waf-exploit-allowed", CRITICAL, ip, s.Exploits[ip].count, s.Exploits[ip].first) : ip \in DOMAIN s.Exploits}
         \cup {Hit("waf-attacker-allowed", HIGH, ip, s.IPs[ip].Blocks, f) : ip \in Q}
         \cup {Hit("waf-persistent-blocked-ip", MEDIUM, ip, s.IPs[ip].Blocks, f) : ip \in P \ Q}
         \cup {Hit("waf-challenge-failures", LOW, ip, s.IPs[ip].ChallengeFails, f) : ip \in F}
         \cup {Hit("waf-rate-limited", HIGH, r, Sum(s.RateByRule[r], DOMAIN s.RateByRule[r]), f) : r \in DOMAIN s.RateByRule}
         \cup {Hit("waf-count-rule", MEDIUM, r, s.lists.ByCountRule[r], f) : r \in DOMAIN s.lists.ByCountRule}
         \cup {Hit("waf-oversize", MEDIUM, "", s.sums.Oversize, f) : x \in {1} \cap 1..s.sums.Oversize}
  <2>1. {ip \in DOMAIN s.IPs : s.IPs[ip].Blocks >= t} = P /\ {ip \in P : s.IPs[ip].Allows > 0} = Q
    BY <1>2, <1>3
  <2>2. {ip \in DOMAIN s.IPs : s.IPs[ip].ChallengeFails >= Max({t \div 10, 1})} = F
    BY Zenon, <1>2, <1>3
  <2> QED  BY ZenonT(60), <1>1, <2>1, <2>2 DEF wafHits
<1>20. IsFiniteSet({Hit("waf-exploit-allowed", CRITICAL, x, s.Exploits[x].count, s.Exploits[x].first) : x \in DOMAIN s.Exploits})
  <2>1. PICK h : h = [x \in DOMAIN s.Exploits |-> Hit("waf-exploit-allowed", CRITICAL, x, s.Exploits[x].count, s.Exploits[x].first)]
    BY Zenon
  <2>2. {Hit("waf-exploit-allowed", CRITICAL, x, s.Exploits[x].count, s.Exploits[x].first) : x \in DOMAIN s.Exploits} = {h[x] : x \in DOMAIN s.Exploits}
    <3>1. \A x \in DOMAIN s.Exploits : h[x] = Hit("waf-exploit-allowed", CRITICAL, x, s.Exploits[x].count, s.Exploits[x].first)
      BY Zenon, <2>1
    <3> QED  BY Zenon, <3>1
  <2>3. IsFiniteSet({h[x] : x \in DOMAIN s.Exploits})
    BY <1>5, <1>6, <1>7, <1>7a, <1>8, <1>9, <1>10, KeysFinite
  <2> QED  BY <2>2, <2>3
<1>21. IsFiniteSet({Hit("waf-attacker-allowed", HIGH, x, s.IPs[x].Blocks, f) : x \in Q})
  <2>1. PICK h : h = [x \in Q |-> Hit("waf-attacker-allowed", HIGH, x, s.IPs[x].Blocks, f)]
    BY Zenon
  <2>2. {Hit("waf-attacker-allowed", HIGH, x, s.IPs[x].Blocks, f) : x \in Q} = {h[x] : x \in Q}
    <3>1. \A x \in Q : h[x] = Hit("waf-attacker-allowed", HIGH, x, s.IPs[x].Blocks, f)
      BY Zenon, <2>1
    <3> QED  BY Zenon, <3>1
  <2>3. IsFiniteSet({h[x] : x \in Q})
    BY <1>5, <1>6, <1>7, <1>7a, <1>8, <1>9, <1>10, KeysFinite
  <2> QED  BY <2>2, <2>3
<1>22. IsFiniteSet({Hit("waf-persistent-blocked-ip", MEDIUM, x, s.IPs[x].Blocks, f) : x \in P \ Q})
  <2>1. PICK h : h = [x \in P \ Q |-> Hit("waf-persistent-blocked-ip", MEDIUM, x, s.IPs[x].Blocks, f)]
    BY Zenon
  <2>2. {Hit("waf-persistent-blocked-ip", MEDIUM, x, s.IPs[x].Blocks, f) : x \in P \ Q} = {h[x] : x \in P \ Q}
    <3>1. \A x \in P \ Q : h[x] = Hit("waf-persistent-blocked-ip", MEDIUM, x, s.IPs[x].Blocks, f)
      BY Zenon, <2>1
    <3> QED  BY Zenon, <3>1
  <2>3. IsFiniteSet({h[x] : x \in P \ Q})
    BY <1>5, <1>6, <1>7, <1>7a, <1>8, <1>9, <1>10, KeysFinite
  <2> QED  BY <2>2, <2>3
<1>23. IsFiniteSet({Hit("waf-challenge-failures", LOW, x, s.IPs[x].ChallengeFails, f) : x \in F})
  <2>1. PICK h : h = [x \in F |-> Hit("waf-challenge-failures", LOW, x, s.IPs[x].ChallengeFails, f)]
    BY Zenon
  <2>2. {Hit("waf-challenge-failures", LOW, x, s.IPs[x].ChallengeFails, f) : x \in F} = {h[x] : x \in F}
    <3>1. \A x \in F : h[x] = Hit("waf-challenge-failures", LOW, x, s.IPs[x].ChallengeFails, f)
      BY Zenon, <2>1
    <3> QED  BY Zenon, <3>1
  <2>3. IsFiniteSet({h[x] : x \in F})
    BY <1>5, <1>6, <1>7, <1>7a, <1>8, <1>9, <1>10, KeysFinite
  <2> QED  BY <2>2, <2>3
<1>24. IsFiniteSet({Hit("waf-rate-limited", HIGH, x, Sum(s.RateByRule[x], DOMAIN s.RateByRule[x]), f) : x \in DOMAIN s.RateByRule})
  <2>1. PICK h : h = [x \in DOMAIN s.RateByRule |-> Hit("waf-rate-limited", HIGH, x, Sum(s.RateByRule[x], DOMAIN s.RateByRule[x]), f)]
    BY Zenon
  <2>2. {Hit("waf-rate-limited", HIGH, x, Sum(s.RateByRule[x], DOMAIN s.RateByRule[x]), f) : x \in DOMAIN s.RateByRule} = {h[x] : x \in DOMAIN s.RateByRule}
    <3>1. \A x \in DOMAIN s.RateByRule : h[x] = Hit("waf-rate-limited", HIGH, x, Sum(s.RateByRule[x], DOMAIN s.RateByRule[x]), f)
      BY Zenon, <2>1
    <3> QED  BY Zenon, <3>1
  <2>3. IsFiniteSet({h[x] : x \in DOMAIN s.RateByRule})
    BY <1>5, <1>6, <1>7, <1>7a, <1>8, <1>9, <1>10, KeysFinite
  <2> QED  BY <2>2, <2>3
<1>25. IsFiniteSet({Hit("waf-count-rule", MEDIUM, x, s.lists.ByCountRule[x], f) : x \in DOMAIN s.lists.ByCountRule})
  <2>1. PICK h : h = [x \in DOMAIN s.lists.ByCountRule |-> Hit("waf-count-rule", MEDIUM, x, s.lists.ByCountRule[x], f)]
    BY Zenon
  <2>2. {Hit("waf-count-rule", MEDIUM, x, s.lists.ByCountRule[x], f) : x \in DOMAIN s.lists.ByCountRule} = {h[x] : x \in DOMAIN s.lists.ByCountRule}
    <3>1. \A x \in DOMAIN s.lists.ByCountRule : h[x] = Hit("waf-count-rule", MEDIUM, x, s.lists.ByCountRule[x], f)
      BY Zenon, <2>1
    <3> QED  BY Zenon, <3>1
  <2>3. IsFiniteSet({h[x] : x \in DOMAIN s.lists.ByCountRule})
    BY <1>5, <1>6, <1>7, <1>7a, <1>8, <1>9, <1>10, KeysFinite
  <2> QED  BY <2>2, <2>3
<1>26. IsFiniteSet({Hit("waf-oversize", MEDIUM, "", s.sums.Oversize, f) : x \in {1} \cap 1..s.sums.Oversize})
  <2>1. PICK h : h = [x \in {1} \cap 1..s.sums.Oversize |-> Hit("waf-oversize", MEDIUM, "", s.sums.Oversize, f)]
    BY Zenon
  <2>2. {Hit("waf-oversize", MEDIUM, "", s.sums.Oversize, f) : x \in {1} \cap 1..s.sums.Oversize} = {h[x] : x \in {1} \cap 1..s.sums.Oversize}
    <3>1. \A x \in {1} \cap 1..s.sums.Oversize : h[x] = Hit("waf-oversize", MEDIUM, "", s.sums.Oversize, f)
      BY Zenon, <2>1
    <3> QED  BY Zenon, <3>1
  <2>3. IsFiniteSet({h[x] : x \in {1} \cap 1..s.sums.Oversize})
    BY <1>5, <1>6, <1>7, <1>7a, <1>8, <1>9, <1>10, KeysFinite
  <2> QED  BY <2>2, <2>3
<1>30. PICK y1, y2, y3, y4, y5, y6, y7 : 
         /\ y1 = {Hit("waf-exploit-allowed", CRITICAL, x, s.Exploits[x].count, s.Exploits[x].first) : x \in DOMAIN s.Exploits}
         /\ y2 = {Hit("waf-attacker-allowed", HIGH, x, s.IPs[x].Blocks, f) : x \in Q}
         /\ y3 = {Hit("waf-persistent-blocked-ip", MEDIUM, x, s.IPs[x].Blocks, f) : x \in P \ Q}
         /\ y4 = {Hit("waf-challenge-failures", LOW, x, s.IPs[x].ChallengeFails, f) : x \in F}
         /\ y5 = {Hit("waf-rate-limited", HIGH, x, Sum(s.RateByRule[x], DOMAIN s.RateByRule[x]), f) : x \in DOMAIN s.RateByRule}
         /\ y6 = {Hit("waf-count-rule", MEDIUM, x, s.lists.ByCountRule[x], f) : x \in DOMAIN s.lists.ByCountRule}
         /\ y7 = {Hit("waf-oversize", MEDIUM, "", s.sums.Oversize, f) : x \in {1} \cap 1..s.sums.Oversize}
  BY Zenon
<1>31. IsFiniteSet(y1) /\ IsFiniteSet(y2) /\ IsFiniteSet(y3) /\ IsFiniteSet(y4) /\ IsFiniteSet(y5) /\ IsFiniteSet(y6) /\ IsFiniteSet(y7)
  BY Zenon, <1>20, <1>21, <1>22, <1>23, <1>24, <1>25, <1>26, <1>30
<1>32. wafHits(s, t) = y1 \cup y2 \cup y3 \cup y4 \cup y5 \cup y6 \cup y7
  BY Zenon, <1>13, <1>30
<1> QED  BY <1>31, <1>32, FS_Union
=============================================================================
