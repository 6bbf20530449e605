---------------------------- MODULE OneShotProofs ---------------------------
(***************************************************************************)
(* The proofs about the one-shot commands, for every number of records,    *)
(* workers, severities and retained findings and every size of a buffer.   *)
(* A written line is in exactly one of the buffer of a writer, the         *)
(* buffered file and the file, unless the file failed; and what a run did  *)
(* can be read off the place it has reached.                               *)
(***************************************************************************)
EXTENDS OneShot, FiniteSetTheorems, SequenceTheorems, WellFoundedInduction, TLAPS

Place == {"setup", "store", "scan", "terminal", "html", "pdf", "finish", "close", "push",
          "verdict", "abort", "aborting", "exit"}
Outcome == {"open", "nil", "error"}

JsonlTypes == /\ buf \in [JWriter -> Seq(Line)] /\ out \in Seq(Line) /\ file \in Seq(Line)
              /\ jerr \in BOOLEAN

Types == /\ cfg \in Config /\ pc \in Place /\ code \in 0 .. 2
         /\ unwritten \subseteq Record /\ errors \in {0, 1}
         /\ hits \subseteq Severity /\ todo \subseteq Lines(Retained)
         /\ sinks \subseteq Sinks /\ toClose \subseteq sinks /\ closed \in BOOLEAN
         /\ closes \in [Sinks -> Nat]
         /\ reports \in [{"html", "pdf"} -> {"none", "part", "whole"}]
         /\ JsonlTypes
         /\ lokiOutcome \in Outcome /\ jsonlOutcome \in Outcome /\ sinkOutcome \in Outcome
         /\ gateway \in {"none", "run", "success"}

\* A report that was asked for has been written.
Shown(f) == f \in cfg.asked => reports[f] = "whole"

\* What has been done at each place on the way through the command.
Control == /\ pc = "setup" => sinks = {}
           /\ pc \notin {"setup", "exit"} => sinks = cfg.sinks
           /\ pc \in {"setup", "store", "scan"} => hits = {} /\ errors = 0 /\ todo = {}
           /\ pc \in {"setup", "store"} => unwritten = Record
           /\ pc \in {"terminal", "html", "pdf", "finish", "close", "push", "verdict"} /\ errors = 0 =>
                unwritten = {}
           /\ pc \in {"pdf", "finish", "close", "push", "verdict"} => Shown("html")
           /\ pc \in {"finish", "close", "push", "verdict"} => Shown("pdf")
           /\ pc \in {"close", "push", "verdict"} /\ sinks # {} => todo = {}

\* What has been closed there, and with which result.
Closing == /\ pc \in {"setup", "store", "scan", "terminal", "html", "pdf", "finish"} => ~closed
           /\ pc \in {"close", "aborting"} => closed
           /\ pc \in {"push", "verdict", "exit"} /\ sinks # {} => closed
           /\ toClose # {} => pc \in {"close", "aborting"}
           /\ \A s \in Sinks : closes[s] = IF closed /\ s \in sinks \ toClose THEN 1 ELSE 0
           /\ lokiOutcome = "open" <=> closes["loki"] = 0
           /\ jsonlOutcome = "open" <=> closes["jsonl"] = 0
           /\ sinkOutcome = IF closed /\ pc \notin {"close", "aborting"} THEN Joined ELSE "open"

\* The run has come to the end of finish.
Finished == /\ sinks = cfg.sinks
            /\ errors = 0 => unwritten = {}
            /\ Shown("html") /\ Shown("pdf")
            /\ sinks # {} => closed /\ todo = {}

\* What a push, and an exit code other than 2, say.
Ending == /\ gateway # "none" => pc \in {"verdict", "abort", "exit"} /\ Finished
          /\ gateway = "success" => errors = 0 /\ SinkOK
          /\ pc = "verdict" => SinkOK /\ (cfg.push => gateway = IF errors = 0 THEN "success" ELSE "run")
          /\ pc = "aborting" => code = 2
          /\ pc \in {"abort", "exit"} /\ code # 2 =>
               /\ Finished /\ errors = 0 /\ SinkOK
               /\ (cfg.push => gateway = "success") /\ (code = 1 <=> Gate)

\* The Loki sink was given every written line.
LokiLines == /\ lokiTaken = IF "loki" \in sinks THEN Written ELSE {}
             /\ lokiAnswered \subseteq lokiTaken
             /\ lokiOutcome = "nil" => lokiTaken = lokiAnswered

\* A written line is in one place on its way to the file, and there once.
Through == file \o out

JsonlLines == /\ IsInjective(Through) /\ ToSet(Through) \subseteq Written
              /\ \A w \in JWriter : /\ IsInjective(buf[w]) /\ ToSet(buf[w]) \subseteq Written
                                    /\ ToSet(buf[w]) \cap ToSet(Through) = {}
              /\ \A v, w \in JWriter : v # w => ToSet(buf[v]) \cap ToSet(buf[w]) = {}
              /\ "jsonl" \in sinks /\ ~jerr => \A x \in Written :
                   x \in ToSet(Through) \/ \E w \in JWriter : x \in ToSet(buf[w])
              /\ jerr => out = <<>>
              /\ jsonlOutcome = "nil" => ~jerr
              /\ jsonlOutcome # "open" => out = <<>> /\ \A w \in JWriter : buf[w] = <<>>

IInv == Types /\ Control /\ Closing /\ Ending /\ LokiLines /\ JsonlLines
-----------------------------------------------------------------------------
\* A set of numbers has a least one: of the intervals up to its members, one does
\* not contain another.
LEMMA LeastFacts ==
  ASSUME NEW S \in SUBSET Nat, S # {}
  PROVE  \E n \in S : \A m \in S : n <= m
<1> DEFINE T == {0 .. n : n \in S}
           R == StrictSubsetOrdering(Nat)
<1>1. T \subseteq FiniteSubsetsOf(Nat) /\ T # {}
  <2>1. \A n \in S : 0 .. n \subseteq Nat /\ IsFiniteSet(0 .. n)
    BY FS_Interval
  <2> QED  BY <2>1 DEF FiniteSubsetsOf
<1>2. IsWellFoundedOn(R, FiniteSubsetsOf(Nat))
  BY FS_StrictSubsetOrderingWellFounded
<1>3. \E X \in T : \A Y \in T : <<Y, X>> \notin R
  <2> HIDE DEF T, R
  <2> QED  BY <1>1, <1>2, WFMin
<1>4. PICK n \in S : \A m \in S : <<0 .. m, 0 .. n>> \notin R
  BY <1>3
<1>5. ASSUME NEW m \in S, m < n PROVE FALSE
  <2>1. 0 .. m \in SUBSET Nat /\ 0 .. n \in SUBSET Nat /\ 0 .. m \subseteq 0 .. n
    BY <1>5
  <2>2. n \in 0 .. n /\ n \notin 0 .. m
    BY <1>5
  <2>3. <<0 .. m, 0 .. n>> \in R
    BY <2>1, <2>2 DEF StrictSubsetOrdering
  <2> QED  BY <1>4, <2>3
<1>6. \A m \in S : n <= m
  BY <1>5
<1> QED  BY <1>6

\* A finite set of severities that is not empty has a greatest one: the one above
\* which there are fewest.
LEMMA MaxFacts ==
  ASSUME NEW H \in SUBSET Severity, H # {}
  PROVE  Max(H) \in H /\ \A y \in H : Max(H) >= y
<1> DEFINE Above(x) == {y \in H : y > x}
           Sizes == {n \in Nat : \E x \in H : n = Cardinality(Above(x))}
<1>1. H \subseteq Nat /\ IsFiniteSet(H)
  BY OneShotAssumption, FS_Subset
<1>2. \A x \in H : IsFiniteSet(Above(x)) /\ Cardinality(Above(x)) \in Nat
  <2> SUFFICES ASSUME NEW x \in H PROVE IsFiniteSet(Above(x)) /\ Cardinality(Above(x)) \in Nat
    OBVIOUS
  <2>1. Above(x) \in SUBSET H
    OBVIOUS
  <2> HIDE DEF Above
  <2> QED  BY <1>1, <2>1, FS_Subset, FS_CardinalityType
<1>3. PICK n \in Sizes : \A m \in Sizes : n <= m
  <2>1. Sizes \in SUBSET Nat
    OBVIOUS
  <2>2. Sizes # {}
    BY <1>2
  <2> HIDE DEF Sizes
  <2> QED  BY <2>1, <2>2, LeastFacts
<1>4. PICK x \in H : n = Cardinality(Above(x))
  OBVIOUS
<1>5. \A y \in H : x >= y
  <2> SUFFICES ASSUME NEW y \in H, y > x PROVE FALSE
    BY <1>1
  <2>1. Above(y) \subseteq Above(x) \ {y} /\ y \in Above(x)
    <3>1. \A z \in Above(y) : z \in Above(x) /\ z # y
      BY <1>1
    <3> QED  BY <3>1
  <2>2. Cardinality(Above(y)) \in Sizes
    BY <1>2
  <2>3. n <= Cardinality(Above(y))
    BY <1>3, <2>2
  <2> HIDE DEF Above, Sizes
  <2>4. IsFiniteSet(Above(x) \ {y}) /\ Cardinality(Above(x) \ {y}) = Cardinality(Above(x)) - 1
    BY <1>2, <2>1, FS_RemoveElement
  <2>5. Cardinality(Above(y)) <= Cardinality(Above(x) \ {y})
    BY <2>1, <2>4, FS_Subset
  <2> QED  BY <1>2, <1>4, <2>3, <2>4, <2>5
<1> QED
  BY <1>5 DEF Max

\* The smaller one of two numbers.
LEMMA MinFacts ==
  ASSUME NEW a \in Nat, NEW b \in Nat
  PROVE  Min({a, b}) = IF a <= b THEN a ELSE b
<1>1. CASE a <= b
  <2>1. \A x \in {a, b} : (\A y \in {a, b} : x <= y) <=> x = a
    BY <1>1
  <2> QED  BY <1>1, <2>1 DEF Min
<1>2. CASE ~(a <= b)
  <2>1. \A x \in {a, b} : (\A y \in {a, b} : x <= y) <=> x = b
    BY <1>2
  <2> QED  BY <1>2, <2>1 DEF Min
<1> QED  BY <1>1, <1>2

\* The findings retained exist: of the sets of the most severe ones that are not
\* too large, the one with least room left.
LEMMA TopFacts ==
  ASSUME NEW H \in SUBSET Severity
  PROVE  /\ Top(H) \subseteq H
         /\ Cardinality(Top(H)) = IF MaxFindings <= Cardinality(H) THEN MaxFindings ELSE Cardinality(H)
         /\ \A x \in Top(H), y \in H \ Top(H) : x > y
<1> DEFINE c == Cardinality(H)
           k == IF MaxFindings <= c THEN MaxFindings ELSE c
           Leads(R) == \A x \in R, y \in H \ R : x > y
           Room == {n \in Nat : \E R \in SUBSET H : Leads(R) /\ n = k - Cardinality(R)}
<1>1. H \subseteq Nat /\ IsFiniteSet(H) /\ c \in Nat /\ MaxFindings \in Nat
  BY OneShotAssumption, FS_Subset, FS_CardinalityType
<1>2. k \in Nat /\ k <= c /\ Min({MaxFindings, c}) = k
  BY <1>1, MinFacts
<1> HIDE DEF k
<1>3. \A R \in SUBSET H : IsFiniteSet(R) /\ Cardinality(R) \in Nat
  BY <1>1, FS_Subset, FS_CardinalityType
<1>4. PICK n \in Room : \A m \in Room : n <= m
  <2>1. Room \in SUBSET Nat
    OBVIOUS
  <2>2. k \in Room
    <3>1. {} \in SUBSET H /\ Leads({}) /\ Cardinality({}) = 0
      BY FS_EmptySet
    <3>2. k = k - Cardinality({})
      BY <1>2, <3>1
    <3> QED  BY <1>2, <3>1, <3>2
  <2> HIDE DEF Room
  <2> QED  BY <2>1, <2>2, LeastFacts
<1>5. PICK R \in SUBSET H : Leads(R) /\ n = k - Cardinality(R)
  OBVIOUS
<1>6. n = 0
  <2> SUFFICES ASSUME n # 0 PROVE FALSE
    OBVIOUS
  <2>1. H \ R # {}
    <3> SUFFICES ASSUME H = R PROVE FALSE
      OBVIOUS
    <3> HIDE DEF Room, Leads
    <3> QED  BY <1>1, <1>2, <1>4, <1>5 DEF Room
  <2> DEFINE x == Max(H \ R)
             Q == R \cup {x}
  <2>2. x \in H \ R /\ \A y \in H \ R : x >= y
    BY <2>1, MaxFacts
  <2> HIDE DEF x
  <2>3. Q \in SUBSET H /\ Leads(Q)
    BY <1>1, <1>5, <2>2
  <2>4. Cardinality(Q) = Cardinality(R) + 1
    BY <1>3, <2>2, FS_AddElement
  <2>5. n - 1 \in Nat /\ n - 1 = k - Cardinality(Q)
    <3> HIDE DEF Q, Leads
    <3> QED  BY <1>2, <1>3, <1>5, <2>4 DEF Room
  <2>6. n - 1 \in Room
    BY <2>3, <2>5
  <2>7. n <= n - 1 /\ n \in Nat
    BY <1>4, <2>6
  <2> QED  BY <2>7
<1>7. Cardinality(R) = k
  BY <1>2, <1>3, <1>5, <1>6
<1>8. /\ Top(H) \in SUBSET H /\ Cardinality(Top(H)) = k
      /\ \A x \in Top(H), y \in H \ Top(H) : x > y
  BY <1>2, <1>5, <1>7 DEF Top
<1> QED
  BY <1>8 DEF k

\* With --fail-on, the exit code tells of every hit, also of one not retained: the
\* greatest one always is.
LEMMA GateFacts ==
  ASSUME hits \subseteq Severity, cfg \in Config
  PROVE  Gate <=> \E s \in hits : cfg.failOn > 0 /\ s >= cfg.failOn
<1>1. CASE hits = {}
  BY <1>1 DEF Gate
<1>2. CASE hits # {}
  <2> DEFINE R == Retained
             m == Max(hits)
  <2>1. /\ R \subseteq hits /\ \A x \in R, y \in hits \ R : x > y
        /\ Cardinality(R) = IF MaxFindings <= Cardinality(hits) THEN MaxFindings ELSE Cardinality(hits)
    BY TopFacts DEF Retained
  <2>2. m \in hits /\ \A y \in hits : m >= y
    BY <1>2, MaxFacts
  <2>3. hits \subseteq Nat /\ cfg.failOn \in Nat /\ MaxFindings \in Nat \ {0}
    BY OneShotAssumption DEF Config
  <2> HIDE DEF R, m
  <2>4. R # {}
    <3>1. IsFiniteSet(hits) /\ Cardinality(hits) \in Nat /\ Cardinality(hits) # 0
      BY <1>2, OneShotAssumption, FS_Subset, FS_CardinalityType, FS_EmptySet
    <3>2. Cardinality(R) # 0
      BY <2>1, <2>3, <3>1
    <3> QED  BY <3>2, FS_EmptySet
  <2>5. m \in R
    <3>1. PICK x \in R : TRUE
      BY <2>4
    <3>2. m \notin R => x > m
      BY <2>1, <2>2
    <3> QED  BY <2>1, <2>2, <2>3, <3>1, <3>2
  <2>6. Max(R) = m
    <3>1. R \in SUBSET Severity
      BY <2>1
    <3>2. Max(R) \in R /\ Max(R) >= m
      BY <2>4, <2>5, <3>1, MaxFacts
    <3>3. Max(R) \in Nat /\ m \in Nat /\ m >= Max(R)
      BY <2>1, <2>2, <2>3, <3>2
    <3> QED  BY <3>2, <3>3
  <2>7. Gate <=> cfg.failOn > 0 /\ m >= cfg.failOn
    BY <1>2, <2>6 DEF Gate, R, m
  <2> QED  BY <2>2, <2>3, <2>7
<1> QED  BY <1>1, <1>2

-----------------------------------------------------------------------------
\* The elements of two lists put together, and when none occurs twice.
LEMMA JoinFacts ==
  ASSUME NEW s \in Seq(Line), NEW t \in Seq(Line)
  PROVE  /\ s \o t \in Seq(Line)
         /\ ToSet(s \o t) = ToSet(s) \cup ToSet(t)
         /\ IsInjective(s \o t) <=>
              IsInjective(s) /\ IsInjective(t) /\ ToSet(s) \cap ToSet(t) = {}
<1> DEFINE u == s \o t
<1>1. /\ u \in Seq(Line) /\ Len(u) = Len(s) + Len(t) /\ Len(s) \in Nat /\ Len(t) \in Nat
      /\ \A i \in 1 .. Len(u) : u[i] = IF i <= Len(s) THEN s[i] ELSE t[i - Len(s)]
  BY ConcatProperties
<1>2. DOMAIN u = 1 .. Len(u) /\ DOMAIN s = 1 .. Len(s) /\ DOMAIN t = 1 .. Len(t)
  BY <1>1
<1> HIDE DEF u
<1>3. /\ \A i \in 1 .. Len(s) : i \in 1 .. Len(u) /\ u[i] = s[i]
      /\ \A j \in 1 .. Len(t) : Len(s) + j \in 1 .. Len(u) /\ u[Len(s) + j] = t[j]
      /\ \A k \in 1 .. Len(u) : \/ k \in 1 .. Len(s)
                                \/ \E j \in 1 .. Len(t) : k = Len(s) + j
  <2>1. \A i \in 1 .. Len(s) : i \in 1 .. Len(u) /\ u[i] = s[i]
    BY <1>1
  <2>2. ASSUME NEW j \in 1 .. Len(t)
        PROVE  Len(s) + j \in 1 .. Len(u) /\ u[Len(s) + j] = t[j]
    <3>1. Len(s) + j \in 1 .. Len(u) /\ ~(Len(s) + j <= Len(s)) /\ (Len(s) + j) - Len(s) = j
      BY <1>1
    <3> QED  BY <1>1, <3>1
  <2>3. ASSUME NEW k \in 1 .. Len(u), k \notin 1 .. Len(s)
        PROVE  \E j \in 1 .. Len(t) : k = Len(s) + j
    <3>1. k - Len(s) \in 1 .. Len(t) /\ k = Len(s) + (k - Len(s))
      BY <1>1, <2>3
    <3> QED  BY <3>1
  <2> QED  BY <2>1, <2>2, <2>3
<1>4. ToSet(u) = ToSet(s) \cup ToSet(t)
  <2>1. /\ \A x : x \in ToSet(u) <=> \E k \in 1 .. Len(u) : u[k] = x
        /\ \A x : x \in ToSet(s) <=> \E i \in 1 .. Len(s) : s[i] = x
        /\ \A x : x \in ToSet(t) <=> \E j \in 1 .. Len(t) : t[j] = x
    BY <1>2 DEF ToSet
  <2>2. ASSUME NEW x \in ToSet(u) PROVE x \in ToSet(s) \cup ToSet(t)
    <3>1. PICK k \in 1 .. Len(u) : u[k] = x
      BY <2>1
    <3>2. CASE k \in 1 .. Len(s)
      <4>1. s[k] = x
        BY <1>3, <3>1, <3>2
      <4> QED  BY <2>1, <3>2, <4>1
    <3>3. CASE \E j \in 1 .. Len(t) : k = Len(s) + j
      <4>1. PICK j \in 1 .. Len(t) : k = Len(s) + j
        BY <3>3
      <4>2. t[j] = x
        BY <1>3, <3>1, <4>1
      <4> QED  BY <2>1, <4>2
    <3> QED  BY <1>3, <3>2, <3>3
  <2>3. ASSUME NEW x \in ToSet(s) PROVE x \in ToSet(u)
    BY <1>3, <2>1
  <2>4. ASSUME NEW x \in ToSet(t) PROVE x \in ToSet(u)
    BY <1>3, <2>1
  <2> QED  BY <2>2, <2>3, <2>4
<1>5. ASSUME IsInjective(u)
      PROVE  IsInjective(s) /\ IsInjective(t) /\ ToSet(s) \cap ToSet(t) = {}
  <2>1. IsInjective(s)
    BY <1>2, <1>3, <1>5 DEF IsInjective
  <2>2. IsInjective(t)
    <3> SUFFICES ASSUME NEW i \in 1 .. Len(t), NEW j \in 1 .. Len(t), t[i] = t[j]
                 PROVE  i = j
      BY <1>2 DEF IsInjective
    <3>1. /\ Len(s) + i \in DOMAIN u /\ Len(s) + j \in DOMAIN u
          /\ u[Len(s) + i] = t[i] /\ u[Len(s) + j] = t[j]
      BY <1>2, <1>3
    <3>2. Len(s) + i = Len(s) + j
      BY <1>5, <3>1 DEF IsInjective
    <3> QED  BY <1>1, <3>2
  <2>3. ASSUME NEW i \in 1 .. Len(s), NEW j \in 1 .. Len(t), s[i] = t[j]
        PROVE  FALSE
    <3>1. i = Len(s) + j
      BY <1>2, <1>3, <1>5, <2>3 DEF IsInjective
    <3> QED  BY <1>1, <3>1
  <2> QED  BY <1>2, <2>1, <2>2, <2>3 DEF ToSet
<1>6. ASSUME IsInjective(s), IsInjective(t), ToSet(s) \cap ToSet(t) = {}
      PROVE  IsInjective(u)
  <2> SUFFICES ASSUME NEW a \in 1 .. Len(u), NEW b \in 1 .. Len(u), u[a] = u[b]
               PROVE  a = b
    BY <1>2 DEF IsInjective
  <2>1. \A i \in 1 .. Len(s), j \in 1 .. Len(t) : s[i] # t[j]
    BY <1>2, <1>6 DEF ToSet
  <2>2. CASE a \in 1 .. Len(s) /\ b \in 1 .. Len(s)
    BY <1>2, <1>3, <1>6, <2>2 DEF IsInjective
  <2>3. CASE a \notin 1 .. Len(s) /\ b \notin 1 .. Len(s)
    <3>1. PICK i \in 1 .. Len(t), j \in 1 .. Len(t) : a = Len(s) + i /\ b = Len(s) + j
      BY <1>3, <2>3
    <3>2. t[i] = t[j]
      BY <1>3, <3>1
    <3>3. i = j
      BY <1>2, <1>6, <3>2 DEF IsInjective
    <3> QED  BY <3>1, <3>3
  <2>4. CASE a \in 1 .. Len(s) /\ b \notin 1 .. Len(s)
    <3>1. PICK j \in 1 .. Len(t) : b = Len(s) + j
      BY <1>3, <2>4
    <3>2. u[a] = s[a] /\ u[b] = t[j]
      BY <1>3, <2>4, <3>1
    <3> QED  BY <2>1, <2>4, <3>2
  <2>5. CASE a \notin 1 .. Len(s) /\ b \in 1 .. Len(s)
    <3>1. PICK i \in 1 .. Len(t) : a = Len(s) + i
      BY <1>3, <2>5
    <3>2. u[b] = s[b] /\ u[a] = t[i]
      BY <1>3, <2>5, <3>1
    <3> QED  BY <2>1, <2>5, <3>2
  <2> QED  BY <2>2, <2>3, <2>4, <2>5
<1> QED  BY <1>1, <1>4, <1>5, <1>6 DEF u

\* A list cut in two.
LEMMA CutFacts ==
  ASSUME NEW s \in Seq(Line), NEW n \in 0 .. Len(s)
  PROVE  /\ SubSeq(s, 1, n) \in Seq(Line) /\ SubSeq(s, n + 1, Len(s)) \in Seq(Line)
         /\ SubSeq(s, 1, n) \o SubSeq(s, n + 1, Len(s)) = s
<1>1. SubSeq(s, 1, n) \in Seq(Line) /\ SubSeq(s, n + 1, Len(s)) \in Seq(Line)
  BY SubSeqProperties
<1>2. SubSeq(s, 1, n) \o SubSeq(s, n + 1, Len(s)) = SubSeq(s, 1, Len(s))
  <2>1. 1 \in 1 .. Len(s) + 1 /\ n \in 1 - 1 .. Len(s) /\ Len(s) \in n .. Len(s)
    OBVIOUS
  <2> QED  BY <2>1, ConcatAdjacentSubSeq
<1>3. SubSeq(s, 1, Len(s)) = s
  BY SubSeqFull, Zenon
<1> QED  BY <1>1, <1>2, <1>3

\* One line more at the end.
LEMMA AppendFacts ==
  ASSUME NEW s \in Seq(Line), NEW l \in Line
  PROVE  /\ Append(s, l) \in Seq(Line)
         /\ ToSet(Append(s, l)) = ToSet(s) \cup {l}
         /\ IsInjective(s) /\ l \notin ToSet(s) => IsInjective(Append(s, l))
<1>1. Append(s, l) = s \o <<l>> /\ <<l>> \in Seq(Line)
  OBVIOUS
<1>2. ToSet(<<l>>) = {l} /\ IsInjective(<<l>>)
  BY DEF ToSet, IsInjective
<1>3. /\ ToSet(s \o <<l>>) = ToSet(s) \cup ToSet(<<l>>)
      /\ IsInjective(s \o <<l>>) <=>
           IsInjective(s) /\ IsInjective(<<l>>) /\ ToSet(s) \cap ToSet(<<l>>) = {}
  BY <1>1, JoinFacts
<1> QED  BY <1>1, <1>2, <1>3

\* Three lists put together.
LEMMA JoinAssociates ==
  ASSUME NEW s \in Seq(Line), NEW t \in Seq(Line), NEW u \in Seq(Line)
  PROVE  (s \o t) \o u = s \o (t \o u)
  BY SMT

\* The empty list.
LEMMA EmptyFacts == <<>> \in Seq(Line) /\ ToSet(<<>>) = {} /\ IsInjective(<<>>)
  BY DEF ToSet, IsInjective

\* Lines given to the buffered file are through, in it or in the file, or the
\* error is set. What was in the file stays, and nothing is there twice.
LEMMA TakesFacts ==
  ASSUME out \in Seq(Line), file \in Seq(Line), NEW s \in Seq(Line), Takes(s),
         IsInjective(Through), IsInjective(s), ToSet(s) \cap ToSet(Through) = {}
  PROVE  /\ out' \in Seq(Line) /\ file' \in Seq(Line) /\ jerr' \in BOOLEAN
         /\ IsInjective(Through') /\ ToSet(file) \subseteq ToSet(file')
         /\ ToSet(Through') \subseteq ToSet(Through) \cup ToSet(s)
         /\ jerr' => out' = <<>>
         /\ ~jerr' => ToSet(Through') = ToSet(Through) \cup ToSet(s)
<1> DEFINE t == out \o s
<1>1. t \in Seq(Line) /\ Len(t) \in Nat
  BY JoinFacts
<1>2. PICK n \in 0 .. Len(t) :
        /\ file' = file \o SubSeq(t, 1, n)
        /\ \/ out' = SubSeq(t, n + 1, Len(t)) /\ jerr' = FALSE
           \/ out' = <<>> /\ jerr' = TRUE
  BY DEF Takes
<1> HIDE DEF t
<1> DEFINE p == SubSeq(t, 1, n)
           q == SubSeq(t, n + 1, Len(t))
<1>3. p \in Seq(Line) /\ q \in Seq(Line) /\ p \o q = t
  BY <1>1, CutFacts
<1>4. /\ file' = file \o p
      /\ \/ out' = q /\ jerr' = FALSE
         \/ out' = <<>> /\ jerr' = TRUE
  BY <1>2
<1> HIDE DEF p, q
<1>5. /\ Through \in Seq(Line) /\ Through \o s = (file \o p) \o q
      /\ file \o p \in Seq(Line)
  <2>1. Through \o s = file \o t
    BY JoinAssociates DEF Through, t
  <2>2. file \o t = (file \o p) \o q
    BY <1>3, JoinAssociates
  <2> QED  BY <1>3, <2>1, <2>2, JoinFacts DEF Through
<1> HIDE DEF Through
<1>6. IsInjective(Through \o s) /\ ToSet(Through \o s) = ToSet(Through) \cup ToSet(s)
  <2>1. /\ ToSet(Through \o s) = ToSet(Through) \cup ToSet(s)
        /\ IsInjective(Through \o s) <=>
             IsInjective(Through) /\ IsInjective(s) /\ ToSet(Through) \cap ToSet(s) = {}
    BY <1>5, JoinFacts
  <2> QED  BY <2>1
<1>7. /\ IsInjective(file \o p)
      /\ ToSet((file \o p) \o q) = ToSet(file \o p) \cup ToSet(q)
      /\ ToSet(file \o p) = ToSet(file) \cup ToSet(p)
  BY <1>3, <1>5, <1>6, JoinFacts
<1>8. CASE out' = q /\ jerr' = FALSE
  <2>1. Through' = Through \o s
    BY <1>4, <1>5, <1>8 DEF Through
  <2> QED  BY <1>3, <1>4, <1>5, <1>6, <1>7, <1>8, <2>1
<1>9. CASE out' = <<>> /\ jerr' = TRUE
  <2>1. Through' = file \o p
    <3>1. Through' = (file \o p) \o <<>>
      BY <1>4, <1>9 DEF Through
    <3> QED  BY <1>5, <3>1, ConcatEmptySeq
  <2> QED  BY <1>3, <1>4, <1>5, <1>6, <1>7, <1>9, <2>1, EmptyFacts
<1> QED  BY <1>4, <1>8, <1>9

\* A flush: what a writer holds, and perhaps a line more, goes through.
LEMMA FlushKeeps ==
  ASSUME JsonlTypes, JsonlLines, jsonlOutcome = "open", NEW w \in JWriter, NEW b \in Seq(Line),
         IsInjective(b), ToSet(b) \cap ToSet(Through) = {}, ToSet(buf[w]) \subseteq ToSet(b),
         \A v \in JWriter \ {w} : ToSet(b) \cap ToSet(buf[v]) = {},
         Written' = Written \cup ToSet(b),
         Flush(b), buf' = [buf EXCEPT ![w] = <<>>], UNCHANGED <<sinks, jsonlOutcome>>
  PROVE  JsonlTypes' /\ JsonlLines' /\ ToSet(file) \subseteq ToSet(file')
<1>1. /\ buf \in [JWriter -> Seq(Line)] /\ out \in Seq(Line) /\ file \in Seq(Line) /\ jerr \in BOOLEAN
      /\ IsInjective(Through) /\ ToSet(Through) \subseteq Written /\ (jerr => out = <<>>)
  BY DEF JsonlTypes, JsonlLines
<1>2. /\ out' \in Seq(Line) /\ file' \in Seq(Line) /\ jerr' \in BOOLEAN
      /\ IsInjective(Through') /\ ToSet(file) \subseteq ToSet(file')
      /\ ToSet(Through') \subseteq ToSet(Through) \cup ToSet(b)
      /\ jerr' => out' = <<>>
      /\ ~jerr' => ~jerr /\ ToSet(Through') = ToSet(Through) \cup ToSet(b)
  <2>1. CASE jerr
    <3>1. out' = out /\ file' = file /\ jerr' = jerr
      BY <2>1 DEF Flush
    <3>2. Through' = Through
      BY <3>1 DEF Through
    <3> QED  BY <1>1, <2>1, <3>1, <3>2
  <2>2. CASE ~jerr
    <3>1. Takes(b)
      BY <2>2 DEF Flush
    <3> QED  BY <1>1, <2>2, <3>1, TakesFacts
  <2> QED  BY <2>1, <2>2
<1> HIDE DEF Through
<1>3. /\ buf' \in [JWriter -> Seq(Line)] /\ buf'[w] = <<>>
      /\ \A v \in JWriter \ {w} : buf'[v] = buf[v]
  BY <1>1, EmptyFacts
<1>4. \A v \in JWriter : /\ IsInjective(buf'[v]) /\ ToSet(buf'[v]) \subseteq Written'
                         /\ ToSet(buf'[v]) \cap ToSet(Through') = {}
  <2> SUFFICES ASSUME NEW v \in JWriter
               PROVE  /\ IsInjective(buf'[v]) /\ ToSet(buf'[v]) \subseteq Written'
                      /\ ToSet(buf'[v]) \cap ToSet(Through') = {}
    OBVIOUS
  <2>1. CASE v = w
    BY <1>3, <2>1, EmptyFacts
  <2>2. CASE v # w
    <3>1. /\ buf'[v] = buf[v] /\ IsInjective(buf[v]) /\ ToSet(buf[v]) \subseteq Written
          /\ ToSet(buf[v]) \cap ToSet(Through) = {}
      BY <1>3, <2>2 DEF JsonlLines
    <3>2. ToSet(b) \cap ToSet(buf[v]) = {}
      BY <2>2
    <3> QED  BY <1>2, <3>1, <3>2
  <2> QED  BY <2>1, <2>2
<1>5. \A u, v \in JWriter : u # v => ToSet(buf'[u]) \cap ToSet(buf'[v]) = {}
  <2> SUFFICES ASSUME NEW u \in JWriter, NEW v \in JWriter, u # v
               PROVE  ToSet(buf'[u]) \cap ToSet(buf'[v]) = {}
    OBVIOUS
  <2>1. CASE u = w \/ v = w
    BY <1>3, <2>1, EmptyFacts
  <2>2. CASE u # w /\ v # w
    BY <1>3, <2>2 DEF JsonlLines
  <2> QED  BY <2>1, <2>2
<1>6. ASSUME "jsonl" \in sinks, ~jerr', NEW x \in Written'
      PROVE  x \in ToSet(Through') \/ \E v \in JWriter : x \in ToSet(buf'[v])
  <2>1. ToSet(Through') = ToSet(Through) \cup ToSet(b) /\ ~jerr
    BY <1>2, <1>6
  <2>2. CASE x \in ToSet(b)
    BY <2>1, <2>2
  <2>3. CASE x \notin ToSet(b)
    <3>1. x \in Written
      BY <1>6, <2>3
    <3>2. x \in ToSet(Through) \/ \E v \in JWriter : x \in ToSet(buf[v])
      BY <1>6, <2>1, <3>1 DEF JsonlLines
    <3>3. ASSUME NEW v \in JWriter, x \in ToSet(buf[v]) PROVE x \in ToSet(buf'[v])
      <4>1. v # w
        BY <2>3, <3>3
      <4> QED  BY <1>3, <3>3, <4>1
    <3> QED  BY <2>1, <3>2, <3>3
  <2> QED  BY <2>2, <2>3
<1>7. JsonlTypes'
  BY <1>2, <1>3 DEF JsonlTypes
<1>8. JsonlLines'
  <2>1. ToSet(Through') \subseteq Written'
    BY <1>1, <1>2
  <2> QED  BY <1>2, <1>4, <1>5, <1>6, <2>1 DEF JsonlLines
<1> QED  BY <1>2, <1>7, <1>8

\* A line is written: into the buffer of its writer, and through if that is full.
LEMMA WriteJsonlKeeps ==
  ASSUME JsonlTypes, JsonlLines, jsonlOutcome = "open", NEW w \in JWriter,
         NEW l \in Line, l \notin Written, Written' = Written \cup {l},
         WriteJsonl(w, l), UNCHANGED <<sinks, jsonlOutcome>>
  PROVE  JsonlTypes' /\ JsonlLines' /\ ToSet(file) \subseteq ToSet(file')
<1> DEFINE b == Append(buf[w], l)
<1>1. buf \in [JWriter -> Seq(Line)] /\ buf[w] \in Seq(Line)
  BY DEF JsonlTypes
<1>2. /\ IsInjective(buf[w]) /\ ToSet(buf[w]) \subseteq Written /\ ToSet(buf[w]) \cap ToSet(Through) = {}
      /\ ToSet(Through) \subseteq Written
      /\ \A v \in JWriter \ {w} : ToSet(buf[v]) \subseteq Written /\ ToSet(buf[w]) \cap ToSet(buf[v]) = {}
  BY DEF JsonlLines
<1>3. /\ b \in Seq(Line) /\ ToSet(b) = ToSet(buf[w]) \cup {l} /\ IsInjective(b)
  BY <1>1, <1>2, AppendFacts
<1>4. \/ Full(b) /\ buf' = [buf EXCEPT ![w] = <<>>] /\ Flush(b)
      \/ ~Full(b) /\ buf' = [buf EXCEPT ![w] = b] /\ UNCHANGED <<out, file, jerr>>
  BY DEF WriteJsonl
<1> HIDE DEF b
<1>5. /\ ToSet(b) \cap ToSet(Through) = {} /\ Written' = Written \cup ToSet(b)
      /\ \A v \in JWriter \ {w} : ToSet(b) \cap ToSet(buf[v]) = {}
  BY <1>2, <1>3
<1>6. CASE Full(b) /\ buf' = [buf EXCEPT ![w] = <<>>] /\ Flush(b)
  BY <1>3, <1>5, <1>6, FlushKeeps
<1>7. CASE buf' = [buf EXCEPT ![w] = b] /\ UNCHANGED <<out, file, jerr>>
  <2>1. /\ buf' \in [JWriter -> Seq(Line)] /\ buf'[w] = b
        /\ \A v \in JWriter \ {w} : buf'[v] = buf[v]
    BY <1>1, <1>3, <1>7
  <2>2. Through' = Through
    BY <1>7 DEF Through
  <2> HIDE DEF Through
  <2>3. \A v \in JWriter : /\ IsInjective(buf'[v]) /\ ToSet(buf'[v]) \subseteq Written'
                           /\ ToSet(buf'[v]) \cap ToSet(Through') = {}
    <3> SUFFICES ASSUME NEW v \in JWriter
                 PROVE  /\ IsInjective(buf'[v]) /\ ToSet(buf'[v]) \subseteq Written'
                        /\ ToSet(buf'[v]) \cap ToSet(Through') = {}
      OBVIOUS
    <3>1. CASE v = w
      BY <1>3, <1>5, <2>1, <2>2, <3>1
    <3>2. CASE v # w
      BY <2>1, <2>2, <3>2 DEF JsonlLines
    <3> QED  BY <3>1, <3>2
  <2>4. \A u, v \in JWriter : u # v => ToSet(buf'[u]) \cap ToSet(buf'[v]) = {}
    <3> SUFFICES ASSUME NEW u \in JWriter, NEW v \in JWriter, u # v
                 PROVE  ToSet(buf'[u]) \cap ToSet(buf'[v]) = {}
      OBVIOUS
    <3>1. CASE u = w
      BY <1>5, <2>1, <3>1
    <3>2. CASE v = w
      BY <1>5, <2>1, <3>2
    <3>3. CASE u # w /\ v # w
      BY <2>1, <3>3 DEF JsonlLines
    <3> QED  BY <3>1, <3>2, <3>3
  <2>5. ASSUME "jsonl" \in sinks, ~jerr', NEW x \in Written'
        PROVE  x \in ToSet(Through') \/ \E v \in JWriter : x \in ToSet(buf'[v])
    <3>1. CASE x \in ToSet(b)
      BY <2>1, <3>1
    <3>2. CASE x \notin ToSet(b)
      <4>1. x \in Written /\ ~jerr
        BY <1>5, <1>7, <2>5, <3>2
      <4>2. x \in ToSet(Through) \/ \E v \in JWriter : x \in ToSet(buf[v])
        BY <2>5, <4>1 DEF JsonlLines
      <4>3. ASSUME NEW v \in JWriter, x \in ToSet(buf[v]) PROVE x \in ToSet(buf'[v])
        <5>1. v # w
          BY <1>3, <3>2, <4>3
        <5> QED  BY <2>1, <4>3, <5>1
      <4> QED  BY <2>2, <4>2, <4>3
    <3> QED  BY <3>1, <3>2
  <2>6. JsonlTypes'
    BY <1>7, <2>1 DEF JsonlTypes
  <2>7. /\ IsInjective(Through') /\ ToSet(Through') \subseteq Written'
        /\ (jerr' => out' = <<>>) /\ jsonlOutcome' = "open" /\ ToSet(file) \subseteq ToSet(file')
    BY <1>7, <2>2 DEF JsonlLines
  <2>8. JsonlLines'
    BY <2>3, <2>4, <2>5, <2>7 DEF JsonlLines
  <2> QED  BY <2>6, <2>7, <2>8
<1> QED  BY <1>4, <1>6, <1>7

\* The end of Close: what the buffered file holds goes into the file.
LEMMA CloseFileKeeps ==
  ASSUME JsonlTypes, JsonlLines, CloseFile, Written' = Written, UNCHANGED sinks,
         jsonlOutcome' = IF jerr' THEN "error" ELSE "nil"
  PROVE  JsonlTypes' /\ JsonlLines' /\ ToSet(file) \subseteq ToSet(file')
<1>1. /\ buf \in [JWriter -> Seq(Line)] /\ out \in Seq(Line) /\ file \in Seq(Line) /\ jerr \in BOOLEAN
      /\ IsInjective(Through) /\ ToSet(Through) \subseteq Written /\ (jerr => out = <<>>)
      /\ "jsonl" \in sinks /\ ~jerr => \A x \in Written :
           x \in ToSet(Through) \/ \E w \in JWriter : x \in ToSet(buf[w])
  BY DEF JsonlTypes, JsonlLines
<1>2. buf' = buf /\ \A w \in JWriter : buf[w] = <<>>
  BY DEF CloseFile
<1>3. /\ out' = <<>> /\ file' \in Seq(Line) /\ jerr' \in BOOLEAN
      /\ IsInjective(Through') /\ ToSet(file) \subseteq ToSet(file')
      /\ ToSet(Through') \subseteq ToSet(Through)
      /\ ~jerr' => ~jerr /\ ToSet(Through') = ToSet(Through)
  <2>1. CASE jerr /\ UNCHANGED <<out, file, jerr>>
    BY <1>1, <2>1 DEF Through
  <2>2. CASE ~jerr /\ file' = file \o out /\ out' = <<>> /\ jerr' \in BOOLEAN
    <3>1. Through' = file' \o <<>> /\ file' = Through
      BY <2>2 DEF Through
    <3>2. Through \in Seq(Line) /\ ToSet(Through) = ToSet(file) \cup ToSet(out)
      BY <1>1, JoinFacts DEF Through
    <3>3. Through' = Through
      BY <3>1, <3>2, ConcatEmptySeq
    <3> QED  BY <1>1, <2>2, <3>1, <3>2, <3>3
  <2>3. CASE ~jerr /\ Takes(<<>>) /\ jerr'
    BY <1>1, <2>3, EmptyFacts, TakesFacts
  <2> QED  BY <2>1, <2>2, <2>3 DEF CloseFile
<1> HIDE DEF Through
<1>4. JsonlTypes'
  BY <1>1, <1>2, <1>3, EmptyFacts DEF JsonlTypes
<1>5. \A w \in JWriter : /\ IsInjective(buf'[w]) /\ ToSet(buf'[w]) \subseteq Written'
                         /\ ToSet(buf'[w]) \cap ToSet(Through') = {}
  BY <1>2, EmptyFacts
<1>6. \A v, w \in JWriter : v # w => ToSet(buf'[v]) \cap ToSet(buf'[w]) = {}
  BY <1>2, EmptyFacts
<1>7. "jsonl" \in sinks' /\ ~jerr' => \A x \in Written' : x \in ToSet(Through')
  BY <1>1, <1>2, <1>3, EmptyFacts
<1>8. jsonlOutcome' = "nil" => ~jerr'
  OBVIOUS
<1>9. JsonlLines'
  <2>1. IsInjective(Through') /\ ToSet(Through') \subseteq Written'
    BY <1>1, <1>3
  <2> QED  BY <1>2, <1>3, <1>5, <1>6, <1>7, <1>8, <2>1 DEF JsonlLines
<1> QED  BY <1>3, <1>4, <1>9

\* A line of a record is not one of a finding; before the scan returns there are
\* no findings.
LEMMA LineFacts ==
  ASSUME Types
  PROVE  /\ Lines(Retained) \subseteq Line /\ Lines(Retained) \cap Record = {} /\ Record \subseteq Line
         /\ hits = {} => Lines(Retained) = {}
         /\ Written \subseteq Line
<1>1. Retained \subseteq hits /\ hits \subseteq Severity
  BY TopFacts DEF Types, Retained
<1>2. /\ Lines(Retained) \subseteq Line /\ Lines(Retained) \cap Record = {} /\ Record \subseteq Line
      /\ hits = {} => Lines(Retained) = {}
  BY <1>1, OneShotAssumption DEF Lines
<1> QED  BY <1>2 DEF Written

\* What the lines say does not change if neither they nor the sinks do.
LEMMA LinesStay ==
  ASSUME JsonlTypes, LokiLines, JsonlLines, Written' = Written,
         UNCHANGED <<jsonlVars, lokiVars, jsonlOutcome, sinks>>
  PROVE  JsonlTypes' /\ LokiLines' /\ JsonlLines'
<1>1. UNCHANGED <<buf, out, file, jerr, lokiTaken, lokiAnswered, lokiOutcome>>
  BY DEF jsonlVars, lokiVars
<1>2. JsonlTypes'
  BY <1>1 DEF JsonlTypes
<1>3. LokiLines'
  BY <1>1 DEF LokiLines
<1>4. Through' = Through
  BY <1>1 DEF Through
<1>5. JsonlLines'
  BY <1>1, <1>4 DEF JsonlLines
<1> QED  BY <1>2, <1>3, <1>5

\* A line is written to every sink, if there are any.
LEMMA WriteLineKeeps ==
  ASSUME JsonlTypes, LokiLines, JsonlLines, NEW w \in JWriter, NEW l \in Line, WriteLine(w, l),
         lokiOutcome = "open", jsonlOutcome = "open", sinks \subseteq Sinks,
         sinks = {} => Written' = Written,
         sinks # {} => l \notin Written /\ Written' = Written \cup {l}
  PROVE  JsonlTypes' /\ LokiLines' /\ JsonlLines' /\ ToSet(file) \subseteq ToSet(file')
<1>1. /\ lokiTaken' = IF "loki" \in sinks THEN lokiTaken \cup {l} ELSE lokiTaken
      /\ IF "jsonl" \in sinks THEN WriteJsonl(w, l) ELSE UNCHANGED jsonlVars
      /\ UNCHANGED <<lokiAnswered, lokiOutcome, sinks, jsonlOutcome>>
  BY DEF WriteLine, closeVars
<1>2. LokiLines'
  BY <1>1 DEF LokiLines
<1>3. CASE "jsonl" \in sinks
  BY <1>1, <1>2, <1>3, WriteJsonlKeeps
<1>4. CASE "jsonl" \notin sinks
  <2>1. UNCHANGED <<buf, out, file, jerr>>
    BY <1>1, <1>4 DEF jsonlVars
  <2>2. Through' = Through
    BY <2>1 DEF Through
  <2>3. Written \subseteq Written'
    OBVIOUS
  <2>4. JsonlTypes' /\ ToSet(file) \subseteq ToSet(file')
    BY <2>1 DEF JsonlTypes
  <2>5. JsonlLines'
    BY <1>1, <1>4, <2>1, <2>2, <2>3 DEF JsonlLines
  <2> QED  BY <1>2, <2>4, <2>5
<1> QED  BY <1>3, <1>4

-----------------------------------------------------------------------------
\* Nothing is written at the start.
LEMMA Opening == Init => IInv
<1> SUFFICES ASSUME Init PROVE IInv
  OBVIOUS
<1>1. Types
  <2>1. code = 0 /\ pc = "setup" /\ cfg \in Config /\ hits = {} /\ todo = {}
    BY DEF Init
  <2>2. JsonlTypes
    BY EmptyFacts DEF Init, InitJsonl, JsonlTypes
  <2>3. /\ unwritten = Record /\ errors = 0 /\ sinks = {} /\ toClose = {} /\ closed = FALSE
        /\ closes \in [Sinks -> Nat] /\ reports \in [{"html", "pdf"} -> {"none", "part", "whole"}]
        /\ lokiOutcome = "open" /\ jsonlOutcome = "open" /\ sinkOutcome = "open" /\ gateway = "none"
    BY DEF Init
  <2>4. code \in 0 .. 2 /\ pc \in Place /\ hits \subseteq Severity /\ todo \subseteq Lines(Retained)
    BY <2>1 DEF Place
  <2> QED  BY <2>1, <2>2, <2>3, <2>4 DEF Types, Outcome
<1>2. Control
  BY DEF Init, Control
<1>3. Closing
  BY DEF Init, Closing, Sinks
<1>4. Ending
  BY DEF Init, Ending
<1>5. Written = {} /\ LokiLines
  BY DEF Init, Written, LokiLines
<1>6. Through = <<>>
  BY EmptyFacts, ConcatEmptySeq DEF Init, InitJsonl, Through
<1>7. JsonlLines
  BY <1>5, <1>6, EmptyFacts DEF Init, InitJsonl, JsonlLines
<1> QED  BY <1>1, <1>2, <1>3, <1>4, <1>5, <1>7 DEF IInv

\* The observer is made, with or without sinks, or it is not.
LEMMA NewObserverKeeps ==
  ASSUME IInv, NewObserver
  PROVE  IInv' /\ Written' = {} /\ Written = {}
<1>1. /\ pc = "setup" /\ sinks = {} /\ hits = {} /\ errors = 0 /\ todo = {} /\ unwritten = Record
      /\ ~closed /\ toClose = {}
  BY DEF NewObserver, IInv, Control, Closing
<1>2. /\ \/ pc' = "store" /\ code' = code /\ sinks' = cfg.sinks
         \/ pc' = "exit" /\ code' = 2 /\ sinks' = sinks
      /\ UNCHANGED <<cfg, unwritten, errors, hits, todo, reports, buf, out, file, jerr, lokiTaken,
                     lokiAnswered, lokiOutcome, jsonlOutcome, closed, toClose, closes, sinkOutcome, gateway>>
  BY DEF NewObserver, Goto, scanVars, jsonlVars, lokiVars
<1>3. Written = {} /\ Written' = {}
  <2>1. Lines(Retained) = {}
    BY <1>1, LineFacts DEF IInv
  <2>2. Lines(Retained)' = {}
    BY <1>2, <2>1 DEF Retained, Lines
  <2> QED  BY <1>1, <1>2, <2>1, <2>2 DEF Written
<1>4. Types'
  <2>1. cfg.sinks \subseteq Sinks
    BY DEF IInv, Types, Config
  <2>2. JsonlTypes'
    BY <1>2 DEF IInv, Types, JsonlTypes
  <2> QED  BY <1>1, <1>2, <2>1, <2>2 DEF IInv, Types, Place
<1>5. Control'
  BY <1>1, <1>2 DEF Control
<1>6. Closing'
  BY <1>1, <1>2 DEF IInv, Closing, Joined
<1>7. Ending'
  BY <1>1, <1>2 DEF IInv, Ending, SinkOK
<1>8. LokiLines'
  BY <1>1, <1>2, <1>3 DEF IInv, LokiLines
<1>9. JsonlLines'
  <2>1. Through' = Through
    BY <1>2 DEF Through
  <2> QED  BY <1>2, <1>3, <2>1 DEF IInv, JsonlLines
<1> QED  BY <1>3, <1>4, <1>5, <1>6, <1>7, <1>8, <1>9 DEF IInv

\* The steps that only move on, or return with 2.
LEMMA MoveKeeps ==
  ASSUME IInv, NewStore \/ ScanFails \/ Terminal
  PROVE  IInv' /\ Written' = Written
<1>1. /\ \/ pc = "store" /\ pc' = "scan" /\ code' = code
         \/ pc = "terminal" /\ pc' = "html" /\ code' = code
         \/ pc \in {"store", "scan", "terminal"} /\ pc' = "abort" /\ code' = 2
      /\ UNCHANGED <<cfg, unwritten, errors, hits, todo, reports, jsonlVars, lokiVars, sinks, jsonlOutcome,
                     closed, toClose, closes, sinkOutcome, gateway>>
  BY DEF NewStore, ScanFails, Terminal, Goto, Return, scanVars, sinkVars, closeVars
<1>2. Written' = Written /\ Lines(Retained)' = Lines(Retained)
  BY <1>1 DEF Written, Retained, Lines
<1>3. JsonlTypes' /\ LokiLines' /\ JsonlLines'
  BY <1>1, <1>2, LinesStay DEF IInv, Types
<1>4. Types'
  BY <1>1, <1>2, <1>3 DEF IInv, Types, Place, lokiVars
<1>5. Control'
  BY <1>1 DEF IInv, Control
<1>6. Closing'
  BY <1>1 DEF IInv, Closing, Joined, lokiVars
<1>7. Ending'
  BY <1>1 DEF IInv, Ending, Finished
<1> QED  BY <1>2, <1>3, <1>4, <1>5, <1>6, <1>7 DEF IInv

\* A record is emitted: it is written, to the sinks there are.
LEMMA EmitKeeps ==
  ASSUME IInv, NEW w \in Worker, NEW l \in Record, Emit(w, l)
  PROVE  /\ IInv' /\ ToSet(file) \subseteq ToSet(file')
         /\ IF sinks = {} THEN Written' = Written
                          ELSE l \in Line \ Written /\ Written' = Written \cup {l}
<1>1. /\ pc = "scan" /\ hits = {} /\ errors = 0 /\ todo = {} /\ ~closed /\ toClose = {}
      /\ l \in unwritten /\ unwritten' = unwritten \ {l} /\ WriteLine(w, l)
      /\ UNCHANGED <<cfg, pc, code, errors, hits, todo, reports, gateway>>
  BY DEF Emit, IInv, Control, Closing
<1>2. UNCHANGED <<lokiAnswered, lokiOutcome, sinks, jsonlOutcome, closed, toClose, closes, sinkOutcome>>
  BY <1>1 DEF WriteLine, closeVars
<1>3. lokiOutcome = "open" /\ jsonlOutcome = "open"
  BY <1>1 DEF IInv, Closing, Sinks
<1>4. /\ unwritten \subseteq Record /\ l \in Line /\ w \in JWriter
      /\ Lines(Retained) \cap Record = {} /\ Lines(Retained)' = Lines(Retained)
  BY <1>1, LineFacts, OneShotAssumption DEF IInv, Types, Retained, Lines
<1>5. IF sinks = {} THEN Written' = Written
                    ELSE l \in Line \ Written /\ Written' = Written \cup {l}
  BY <1>1, <1>2, <1>4 DEF Written
<1>6. JsonlTypes' /\ LokiLines' /\ JsonlLines' /\ ToSet(file) \subseteq ToSet(file')
  BY <1>1, <1>3, <1>4, <1>5, WriteLineKeeps DEF IInv, Types
<1>7. Types'
  BY <1>1, <1>2, <1>4, <1>6 DEF IInv, Types
<1>8. Control'
  BY <1>1, <1>2 DEF IInv, Control
<1>9. Closing'
  BY <1>1, <1>2 DEF IInv, Closing, Joined
<1>10. Ending'
  BY <1>1, <1>2 DEF IInv, Ending, Finished
<1> QED  BY <1>5, <1>6, <1>7, <1>8, <1>9, <1>10 DEF IInv

\* Loki answers.
LEMMA AnswerKeeps ==
  ASSUME IInv, LokiAnswers
  PROVE  /\ IInv' /\ Written' = Written /\ lokiAnswered \subseteq lokiAnswered'
         /\ lokiOutcome = "open" /\ lokiAnswered' \subseteq lokiTaken
<1>1. /\ lokiOutcome = "open" /\ lokiAnswered \subseteq lokiAnswered'
      /\ lokiAnswered' \subseteq lokiAnswered \cup lokiTaken
      /\ UNCHANGED <<lokiTaken, lokiOutcome>>
      /\ UNCHANGED <<cfg, pc, code, unwritten, errors, hits, todo, reports, jsonlVars, sinks, jsonlOutcome,
                     closed, toClose, closes, sinkOutcome, gateway>>
  BY DEF LokiAnswers, LokiSink!Answer, scanVars, closeVars
<1>2. Written' = Written /\ Lines(Retained)' = Lines(Retained)
  BY <1>1 DEF Written, Retained, Lines
<1>3. LokiLines' /\ lokiAnswered' \subseteq lokiTaken
  BY <1>1, <1>2 DEF IInv, LokiLines
<1>4. JsonlTypes' /\ JsonlLines'
  <2>1. UNCHANGED <<buf, out, file, jerr>>
    BY <1>1 DEF jsonlVars
  <2>2. Through' = Through
    BY <2>1 DEF Through
  <2>3. JsonlTypes'
    BY <2>1 DEF IInv, Types, JsonlTypes
  <2> QED  BY <1>1, <1>2, <2>1, <2>2, <2>3 DEF IInv, JsonlLines
<1>5. Types'
  BY <1>1, <1>2, <1>4 DEF IInv, Types
<1>6. Control'
  BY <1>1 DEF IInv, Control, Shown
<1>7. Closing'
  BY <1>1 DEF IInv, Closing, Joined
<1>8. Ending'
  <2>1. Gate' = Gate /\ Finished' = Finished /\ SinkOK' = SinkOK
    BY <1>1 DEF Gate, Retained, Finished, Shown, SinkOK
  <2> QED  BY <1>1, <2>1 DEF IInv, Ending
<1> QED  BY <1>1, <1>2, <1>3, <1>4, <1>5, <1>6, <1>7, <1>8 DEF IInv

\* The scan returns: no finding has been written yet.
LEMMA ScanReturnsKeeps ==
  ASSUME IInv, ScanReturns
  PROVE  IInv' /\ Written' = Written
<1>1. /\ pc = "scan" /\ hits = {} /\ todo = {}
      /\ errors' \in {0, 1} /\ (errors' = 0 => unwritten = {})
      /\ todo' = Lines(Top(hits')) /\ pc' = "terminal" /\ code' = code
      /\ UNCHANGED <<cfg, unwritten, reports, jsonlVars, lokiVars, sinks, jsonlOutcome, closed, toClose,
                     closes, sinkOutcome, gateway>>
  BY DEF ScanReturns, IInv, Control, Goto, sinkVars, closeVars
<1>2. hits' \subseteq Severity
  BY DEF ScanReturns
<1>3. Lines(Retained) = {} /\ Lines(Retained)' = todo'
  BY <1>1, LineFacts DEF IInv, Retained, Lines
<1>4. Written' = Written
  BY <1>1, <1>3 DEF Written
<1>5. JsonlTypes' /\ LokiLines' /\ JsonlLines'
  BY <1>1, <1>4, LinesStay DEF IInv, Types
<1>6. Types'
  BY <1>1, <1>2, <1>3, <1>5 DEF IInv, Types, Place, lokiVars
<1>7. Control'
  BY <1>1 DEF IInv, Control
<1>8. Closing'
  BY <1>1 DEF IInv, Closing, Joined, lokiVars
<1>9. Ending'
  BY <1>1 DEF IInv, Ending
<1> QED  BY <1>4, <1>5, <1>6, <1>7, <1>8, <1>9 DEF IInv

\* A report is written, or not.
LEMMA WriteReportKeeps ==
  ASSUME IInv, WriteReport("html", "pdf") \/ WriteReport("pdf", "finish")
  PROVE  IInv' /\ Written' = Written
<1> DEFINE To(f, then) ==
      /\ pc = f
      /\ \/ f \notin cfg.asked /\ pc' = then /\ code' = code /\ reports' = reports
         \/ f \in cfg.asked /\ pc' = then /\ code' = code /\ reports' = [reports EXCEPT ![f] = "whole"]
         \/ /\ pc' = "abort" /\ code' = 2
            /\ \E r \in {"none", "part"} : reports' = [reports EXCEPT ![f] = r]
<1>1. /\ To("html", "pdf") \/ To("pdf", "finish")
      /\ UNCHANGED <<cfg, unwritten, errors, hits, todo, jsonlVars, lokiVars, sinks, jsonlOutcome, closed,
                     toClose, closes, sinkOutcome, gateway>>
  BY DEF WriteReport, Goto, Return, scanVars, sinkVars, closeVars
<1>2. reports \in [{"html", "pdf"} -> {"none", "part", "whole"}]
  BY DEF IInv, Types
<1>3. /\ reports' \in [{"html", "pdf"} -> {"none", "part", "whole"}]
      /\ \/ pc = "html" /\ pc' = "pdf" /\ code' = code /\ Shown("html")'
         \/ pc = "pdf" /\ pc' = "finish" /\ code' = code /\ Shown("pdf")' /\ (Shown("html") => Shown("html")')
         \/ pc \in {"html", "pdf"} /\ pc' = "abort" /\ code' = 2
  BY <1>1, <1>2 DEF Shown
<1> HIDE DEF To
<1>4. Written' = Written /\ Lines(Retained)' = Lines(Retained)
  BY <1>1 DEF Written, Retained, Lines
<1>5. JsonlTypes' /\ LokiLines' /\ JsonlLines'
  BY <1>1, <1>4, LinesStay DEF IInv, Types
<1>6. Types'
  BY <1>1, <1>3, <1>4, <1>5 DEF IInv, Types, Place, lokiVars
<1>7. Control'
  BY <1>1, <1>3 DEF IInv, Control
<1>8. Closing'
  BY <1>1, <1>3 DEF IInv, Closing, Joined, lokiVars
<1>9. Ending'
  BY <1>1, <1>3 DEF IInv, Ending
<1> QED  BY <1>4, <1>5, <1>6, <1>7, <1>8, <1>9 DEF IInv

\* A finding is written.
LEMMA WriteFindingKeeps ==
  ASSUME IInv, NEW l \in Line, WriteFinding(l)
  PROVE  /\ IInv' /\ ToSet(file) \subseteq ToSet(file') /\ sinks # {}
         /\ l \in Line \ Written /\ Written' = Written \cup {l}
<1>1. /\ pc = "finish" /\ sinks # {} /\ ~closed /\ toClose = {}
      /\ l \in todo /\ todo' = todo \ {l} /\ WriteLine(Main, l)
      /\ UNCHANGED <<cfg, pc, code, unwritten, errors, hits, reports, gateway>>
  BY DEF WriteFinding, IInv, Control, Closing, scanVars
<1>2. UNCHANGED <<lokiAnswered, lokiOutcome, sinks, jsonlOutcome, closed, toClose, closes, sinkOutcome>>
  BY <1>1 DEF WriteLine, closeVars
<1>3. lokiOutcome = "open" /\ jsonlOutcome = "open" /\ Main \in JWriter /\ sinks \subseteq Sinks
  BY <1>1, OneShotAssumption DEF IInv, Types, Closing, Sinks
<1>4. /\ todo \subseteq Lines(Retained)
      /\ Lines(Retained) \cap Record = {} /\ Lines(Retained)' = Lines(Retained)
  BY <1>1, LineFacts DEF IInv, Types, Retained, Lines
<1>5. l \in Line \ Written /\ Written' = Written \cup {l}
  BY <1>1, <1>2, <1>4 DEF Written
<1>6. JsonlTypes' /\ LokiLines' /\ JsonlLines' /\ ToSet(file) \subseteq ToSet(file')
  BY <1>1, <1>3, <1>5, WriteLineKeeps DEF IInv, Types
<1>7. Types'
  BY <1>1, <1>2, <1>4, <1>6 DEF IInv, Types
<1>8. Control'
  BY <1>1, <1>2 DEF IInv, Control, Shown
<1>9. Closing'
  BY <1>1, <1>2 DEF IInv, Closing, Joined
<1>10. Ending'
  BY <1>1, <1>2 DEF IInv, Ending
<1> QED  BY <1>1, <1>5, <1>6, <1>7, <1>8, <1>9, <1>10 DEF IInv

\* Close begins, or there is nothing to close.
LEMMA BeginCloseKeeps ==
  ASSUME IInv, BeginClose
  PROVE  IInv' /\ Written' = Written
<1>1. /\ pc = "finish" /\ ~closed /\ toClose = {} /\ gateway = "none"
      /\ \/ sinks = {} /\ pc' = "push" /\ closed' = closed /\ toClose' = toClose
         \/ sinks # {} /\ todo = {} /\ pc' = "close" /\ closed' = TRUE /\ toClose' = sinks
      /\ UNCHANGED <<cfg, code, unwritten, errors, hits, todo, reports, jsonlVars, lokiVars, sinks,
                     jsonlOutcome, closes, sinkOutcome, gateway>>
  BY DEF BeginClose, IInv, Closing, Ending, Goto, scanVars
<1>2. Written' = Written /\ Lines(Retained)' = Lines(Retained)
  BY <1>1 DEF Written, Retained, Lines
<1>3. JsonlTypes' /\ LokiLines' /\ JsonlLines'
  BY <1>1, <1>2, LinesStay DEF IInv, Types
<1>4. Types'
  BY <1>1, <1>2, <1>3 DEF IInv, Types, Place, lokiVars
<1>5. Control'
  BY <1>1 DEF IInv, Control, Shown
<1>6. Closing'
  BY <1>1 DEF IInv, Closing, Joined, lokiVars
<1>7. Ending'
  BY <1>1 DEF IInv, Ending
<1> QED  BY <1>2, <1>3, <1>4, <1>5, <1>6, <1>7 DEF IInv

\* While Close runs, a sink is closed: a step of one of the two.
LEMMA ClosingKeeps ==
  ASSUME IInv, NEW s \in Sinks, Closes(s), JsonlTypes', LokiLines', JsonlLines', Written' = Written,
         lokiOutcome' \in Outcome, jsonlOutcome' \in Outcome,
         IF s = "loki" THEN lokiOutcome' # "open" /\ jsonlOutcome' = jsonlOutcome
                       ELSE jsonlOutcome' # "open" /\ lokiOutcome' = lokiOutcome
  PROVE  IInv' /\ sinkOutcome = "open" /\ sinkOutcome' = "open"
<1>1. /\ pc \in {"close", "aborting"} /\ s \in toClose /\ toClose \subseteq sinks /\ sinks \subseteq Sinks
      /\ closed /\ closes \in [Sinks -> Nat] /\ closes[s] = 0 /\ gateway = "none" /\ sinkOutcome = "open"
      /\ toClose' = toClose \ {s} /\ closes' = [closes EXCEPT ![s] = 0 + 1]
      /\ UNCHANGED <<cfg, pc, code, unwritten, errors, hits, todo, reports, sinks, closed, sinkOutcome, gateway>>
  BY DEF Closes, IInv, Types, Closing, Ending, scanVars
<1>2. Lines(Retained)' = Lines(Retained)
  BY <1>1 DEF Retained, Lines
<1>3. /\ closes' \in [Sinks -> Nat] /\ closes'[s] = 1
      /\ \A t \in Sinks \ {s} : closes'[t] = closes[t]
  BY <1>1
<1>4. Types'
  BY <1>1, <1>2, <1>3 DEF IInv, Types
<1>5. Control'
  BY <1>1 DEF IInv, Control, Shown
<1>6. Closing'
  <2>1. \A t \in Sinks : closes'[t] = IF closed' /\ t \in sinks' \ toClose' THEN 1 ELSE 0
    BY <1>1, <1>3 DEF IInv, Closing
  <2>2. (lokiOutcome' = "open" <=> closes'["loki"] = 0) /\ (jsonlOutcome' = "open" <=> closes'["jsonl"] = 0)
    <3>1. (lokiOutcome = "open" <=> closes["loki"] = 0) /\ (jsonlOutcome = "open" <=> closes["jsonl"] = 0)
      BY DEF IInv, Closing
    <3>2. CASE s = "loki"
      BY <1>3, <3>1, <3>2 DEF Sinks
    <3>3. CASE s = "jsonl"
      BY <1>3, <3>1, <3>3 DEF Sinks
    <3> QED  BY <3>2, <3>3 DEF Sinks
  <2> QED  BY <1>1, <2>1, <2>2 DEF Closing
<1>7. Ending'
  BY <1>1 DEF IInv, Ending
<1> QED  BY <1>1, <1>4, <1>5, <1>6, <1>7 DEF IInv

\* The Loki sink is closed.
LEMMA CloseLokiKeeps ==
  ASSUME IInv, CloseLokiSink
  PROVE  /\ IInv' /\ Written' = Written /\ sinkOutcome = "open" /\ sinkOutcome' = "open"
         /\ UNCHANGED <<lokiAnswered, file>>
<1>1. /\ Closes("loki") /\ lokiOutcome = "open"
      /\ \/ lokiOutcome' = "nil" /\ lokiTaken = lokiAnswered
         \/ lokiOutcome' = "error"
      /\ UNCHANGED <<lokiTaken, lokiAnswered, buf, out, file, jerr, jsonlOutcome>>
  BY DEF CloseLokiSink, LokiSink!Close, jsonlVars
<1>2. UNCHANGED <<sinks, unwritten, hits, todo>>
  BY <1>1 DEF Closes, scanVars
<1>3. Written' = Written
  BY <1>2 DEF Written, Retained, Lines
<1>4. LokiLines'
  BY <1>1, <1>2, <1>3 DEF IInv, LokiLines
<1>5. Through' = Through
  BY <1>1 DEF Through
<1>6. JsonlTypes' /\ JsonlLines'
  BY <1>1, <1>2, <1>3, <1>5 DEF IInv, Types, JsonlTypes, JsonlLines
<1>7. jsonlOutcome' \in Outcome /\ lokiOutcome' \in Outcome
  BY <1>1 DEF IInv, Types, Outcome
<1> QED  BY <1>1, <1>3, <1>4, <1>6, <1>7, ClosingKeeps DEF Sinks

\* The JSON Lines sink is closed, at last.
LEMMA CloseJsonlKeeps ==
  ASSUME IInv, CloseJsonlSink
  PROVE  /\ IInv' /\ Written' = Written /\ sinkOutcome = "open" /\ sinkOutcome' = "open"
         /\ ToSet(file) \subseteq ToSet(file') /\ UNCHANGED lokiAnswered
<1>1. /\ Closes("jsonl") /\ CloseFile /\ jsonlOutcome' = IF jerr' THEN "error" ELSE "nil"
      /\ UNCHANGED <<lokiTaken, lokiAnswered, lokiOutcome>>
  BY DEF CloseJsonlSink, lokiVars
<1>2. UNCHANGED <<sinks, unwritten, hits, todo>>
  BY <1>1 DEF Closes, scanVars
<1>3. Written' = Written
  BY <1>2 DEF Written, Retained, Lines
<1>4. LokiLines'
  BY <1>1, <1>2, <1>3 DEF IInv, LokiLines
<1>5. JsonlTypes' /\ JsonlLines' /\ ToSet(file) \subseteq ToSet(file')
  BY <1>1, <1>2, <1>3, CloseFileKeeps DEF IInv, Types
<1>6. jsonlOutcome' \in Outcome /\ lokiOutcome' \in Outcome /\ jsonlOutcome' # "open"
  BY <1>1 DEF IInv, Types, Outcome
<1> QED  BY <1>1, <1>3, <1>4, <1>5, <1>6, ClosingKeeps DEF Sinks

\* Before that, one writer after the other is flushed.
LEMMA FlushJsonlKeeps ==
  ASSUME IInv, NEW w \in JWriter, FlushJsonl(w)
  PROVE  /\ IInv' /\ Written' = Written /\ sinkOutcome = "open"
         /\ ToSet(file) \subseteq ToSet(file') /\ UNCHANGED <<lokiAnswered, sinkOutcome, sinks>>
<1>1. /\ "jsonl" \in toClose /\ buf' = [buf EXCEPT ![w] = <<>>] /\ Flush(buf[w])
      /\ UNCHANGED <<cfg, pc, code, unwritten, errors, hits, todo, reports, lokiTaken, lokiAnswered,
                     lokiOutcome, sinks, jsonlOutcome, closed, toClose, closes, sinkOutcome, gateway>>
  BY DEF FlushJsonl, FlushWriter, scanVars, lokiVars, closeVars
<1>2. jsonlOutcome = "open" /\ sinkOutcome = "open"
  BY <1>1 DEF IInv, Types, Closing, Sinks
<1>3. Written' = Written /\ Lines(Retained)' = Lines(Retained)
  BY <1>1 DEF Written, Retained, Lines
<1>4. /\ buf[w] \in Seq(Line) /\ IsInjective(buf[w]) /\ ToSet(buf[w]) \subseteq Written
      /\ ToSet(buf[w]) \cap ToSet(Through) = {}
      /\ \A v \in JWriter \ {w} : ToSet(buf[w]) \cap ToSet(buf[v]) = {}
  BY DEF IInv, Types, JsonlTypes, JsonlLines
<1>5. Written' = Written \cup ToSet(buf[w])
  BY <1>3, <1>4
<1>6. JsonlTypes' /\ JsonlLines' /\ ToSet(file) \subseteq ToSet(file')
  BY <1>1, <1>2, <1>4, <1>5, FlushKeeps DEF IInv, Types
<1>7. LokiLines'
  BY <1>1, <1>3 DEF IInv, LokiLines
<1>8. Types'
  BY <1>1, <1>3, <1>6 DEF IInv, Types
<1>9. Control'
  BY <1>1 DEF IInv, Control, Shown
<1>10. Closing'
  BY <1>1 DEF IInv, Closing, Joined
<1>11. Ending'
  <2>1. Gate' = Gate /\ Finished' = Finished /\ SinkOK' = SinkOK
    BY <1>1 DEF Gate, Retained, Finished, Shown, SinkOK
  <2> QED  BY <1>1, <2>1 DEF IInv, Ending
<1> QED  BY <1>1, <1>2, <1>3, <1>6, <1>7, <1>8, <1>9, <1>10, <1>11 DEF IInv

\* Close ends.
LEMMA EndCloseKeeps ==
  ASSUME IInv, EndClose
  PROVE  /\ IInv' /\ Written' = Written /\ sinkOutcome = "open" /\ sinkOutcome' = Joined
         /\ closed /\ toClose = {} /\ UNCHANGED <<lokiAnswered, file, sinks>>
<1>1. /\ pc \in {"close", "aborting"} /\ toClose = {} /\ closed /\ gateway = "none" /\ sinkOutcome = "open"
      /\ sinkOutcome' = Joined /\ code' = code
      /\ \/ pc = "close" /\ pc' = "push"
         \/ pc = "aborting" /\ pc' = "exit" /\ code = 2
      /\ UNCHANGED <<cfg, unwritten, errors, hits, todo, reports, jsonlVars, lokiVars, sinks,
                     jsonlOutcome, closed, toClose, closes, gateway>>
  BY DEF EndClose, IInv, Closing, Ending, Goto, scanVars
<1>2. Written' = Written /\ Lines(Retained)' = Lines(Retained) /\ Joined' = Joined
  BY <1>1 DEF Written, Retained, Lines, Joined, lokiVars
<1>3. JsonlTypes' /\ LokiLines' /\ JsonlLines'
  BY <1>1, <1>2, LinesStay DEF IInv, Types
<1>4. Types'
  BY <1>1, <1>2, <1>3 DEF IInv, Types, Place, Outcome, Joined, lokiVars
<1>5. Control'
  BY <1>1 DEF IInv, Control, Shown
<1>6. Closing'
  BY <1>1, <1>2 DEF IInv, Closing, lokiVars
<1>7. Ending'
  BY <1>1 DEF IInv, Ending
<1> QED  BY <1>1, <1>2, <1>3, <1>4, <1>5, <1>6, <1>7 DEF IInv, lokiVars, jsonlVars

\* The push.
LEMMA PushKeeps ==
  ASSUME IInv, Push
  PROVE  IInv' /\ Written' = Written
<1> DEFINE told == IF Successful THEN "success" ELSE "run"
<1>1. /\ pc = "push" /\ toClose = {} /\ gateway = "none"
      /\ \/ pc' = "verdict" /\ code' = code /\ SinkOK /\ gateway' = IF cfg.push THEN told ELSE "none"
         \/ pc' = "abort" /\ code' = 2 /\ gateway' \in {"none", told}
      /\ UNCHANGED <<cfg, unwritten, errors, hits, todo, reports, jsonlVars, lokiVars, sinks,
                     jsonlOutcome, closed, toClose, closes, sinkOutcome>>
  BY DEF Push, IInv, Closing, Ending, Goto, Return, scanVars, sinkVars, closeVars
<1>2. Written' = Written /\ Lines(Retained)' = Lines(Retained) /\ Joined' = Joined
  BY <1>1 DEF Written, Retained, Lines, Joined, lokiVars
<1>3. JsonlTypes' /\ LokiLines' /\ JsonlLines'
  BY <1>1, <1>2, LinesStay DEF IInv, Types
<1>4. gateway' \in {"none", "run", "success"}
  BY <1>1
<1>5. Types'
  BY <1>1, <1>2, <1>3, <1>4 DEF IInv, Types, Place, lokiVars
<1>6. Control'
  BY <1>1 DEF IInv, Control, Shown
<1>7. Closing'
  BY <1>1, <1>2 DEF IInv, Closing, lokiVars
<1>8. Finished /\ Finished' /\ SinkOK' = SinkOK
  BY <1>1 DEF IInv, Control, Closing, Finished, Shown, SinkOK
<1>9. Ending'
  BY <1>1, <1>8 DEF Ending, Successful
<1> QED  BY <1>2, <1>3, <1>5, <1>6, <1>7, <1>9 DEF IInv

\* The exit code is made.
LEMMA VerdictKeeps ==
  ASSUME IInv, Verdict
  PROVE  IInv' /\ Written' = Written
<1>1. /\ pc = "verdict" /\ toClose = {} /\ pc' = "abort" /\ code' = ExitCode
      /\ UNCHANGED <<cfg, unwritten, errors, hits, todo, reports, jsonlVars, lokiVars, sinks,
                     jsonlOutcome, closed, toClose, closes, sinkOutcome, gateway>>
  BY DEF Verdict, IInv, Closing, Return, scanVars, sinkVars, closeVars
<1>2. Written' = Written /\ Lines(Retained)' = Lines(Retained) /\ Joined' = Joined
  BY <1>1 DEF Written, Retained, Lines, Joined, lokiVars
<1>3. JsonlTypes' /\ LokiLines' /\ JsonlLines'
  BY <1>1, <1>2, LinesStay DEF IInv, Types
<1>4. /\ errors \in {0, 1} /\ ExitCode \in {0, 1, 2}
      /\ ExitCode # 2 => errors = 0 /\ (ExitCode = 1 <=> Gate)
  BY DEF ExitCode, IInv, Types
<1>5. code' \in 0 .. 2
  BY <1>1, <1>4
<1>6. Types'
  BY <1>1, <1>2, <1>3, <1>5 DEF IInv, Types, Place, lokiVars
<1>7. Control'
  BY <1>1 DEF IInv, Control
<1>8. Closing'
  BY <1>1, <1>2 DEF IInv, Closing, lokiVars
<1>9. Finished /\ Finished' /\ SinkOK /\ SinkOK' /\ Gate' = Gate
  BY <1>1 DEF IInv, Control, Closing, Ending, Finished, Shown, SinkOK, Gate, Retained
<1>10. cfg.push /\ errors = 0 => gateway = "success"
  BY <1>1 DEF IInv, Ending
<1>11. gateway = "success" => errors = 0
  BY DEF IInv, Ending
<1>12. Ending'
  BY <1>1, <1>4, <1>9, <1>10, <1>11 DEF Ending
<1> QED  BY <1>2, <1>3, <1>6, <1>7, <1>8, <1>12 DEF IInv

\* The deferred abort: what is still open is closed.
LEMMA AbortKeeps ==
  ASSUME IInv, Abort
  PROVE  IInv' /\ Written' = Written
<1>1. /\ pc = "abort" /\ toClose = {} /\ code' = code
      /\ \/ /\ sinks # {} /\ ~closed /\ code = 2 /\ gateway = "none"
            /\ pc' = "aborting" /\ closed' = TRUE /\ toClose' = sinks
         \/ (sinks = {} \/ closed) /\ pc' = "exit" /\ closed' = closed /\ toClose' = toClose
      /\ UNCHANGED <<cfg, unwritten, errors, hits, todo, reports, jsonlVars, lokiVars, sinks,
                     jsonlOutcome, closes, sinkOutcome, gateway>>
  BY DEF Abort, StillOpen, IInv, Closing, Ending, Finished, Goto, scanVars, sinkVars, closeVars
<1>2. Written' = Written /\ Lines(Retained)' = Lines(Retained) /\ Joined' = Joined
  BY <1>1 DEF Written, Retained, Lines, Joined, lokiVars
<1>3. JsonlTypes' /\ LokiLines' /\ JsonlLines'
  BY <1>1, <1>2, LinesStay DEF IInv, Types
<1>4. Types'
  BY <1>1, <1>2, <1>3 DEF IInv, Types, Place, lokiVars
<1>5. Control'
  BY <1>1 DEF IInv, Control
<1>6. Closing'
  BY <1>1, <1>2 DEF IInv, Closing, lokiVars
<1>7. Gate' = Gate /\ SinkOK' = SinkOK
  BY <1>1 DEF Gate, Retained, SinkOK
<1>8. Ending'
  <2>1. CASE pc' = "aborting"
    BY <1>1, <1>7, <2>1 DEF IInv, Ending
  <2>2. CASE pc' = "exit"
    <3>1. Finished' = Finished
      BY <1>1, <2>2 DEF Finished, Shown
    <3> QED  BY <1>1, <1>7, <2>2, <3>1 DEF IInv, Ending
  <2> QED  BY <1>1, <2>1, <2>2
<1> QED  BY <1>2, <1>3, <1>4, <1>5, <1>6, <1>8 DEF IInv

\* Nothing happens.
LEMMA StutterKeeps ==
  ASSUME IInv, UNCHANGED vars
  PROVE  IInv' /\ Written' = Written /\ UNCHANGED <<lokiAnswered, file, sinks, sinkOutcome>>
<1>1. UNCHANGED <<cfg, pc, code, unwritten, errors, hits, todo, reports, jsonlVars, lokiVars, sinks,
                  jsonlOutcome, closed, toClose, closes, sinkOutcome, gateway>>
  BY DEF vars, scanVars, sinkVars, closeVars
<1>2. Written' = Written /\ Lines(Retained)' = Lines(Retained) /\ Joined' = Joined
  BY <1>1 DEF Written, Retained, Lines, Joined, lokiVars
<1>3. JsonlTypes' /\ LokiLines' /\ JsonlLines'
  BY <1>1, <1>2, LinesStay DEF IInv, Types
<1>4. Types'
  BY <1>1, <1>2, <1>3 DEF IInv, Types, lokiVars
<1>5. Control'
  BY <1>1 DEF IInv, Control, Shown
<1>6. Closing'
  BY <1>1, <1>2 DEF IInv, Closing, lokiVars
<1>7. Gate' = Gate /\ Finished' = Finished /\ SinkOK' = SinkOK
  BY <1>1 DEF Gate, Retained, Finished, Shown, SinkOK
<1>8. Ending'
  BY <1>1, <1>7 DEF IInv, Ending
<1> QED  BY <1>1, <1>2, <1>3, <1>4, <1>5, <1>6, <1>8 DEF IInv, lokiVars, jsonlVars

\* Every step keeps the invariant.
LEMMA StepKeeps == IInv /\ [Next]_vars => IInv'
<1> SUFFICES ASSUME IInv, [Next]_vars PROVE IInv'
  OBVIOUS
<1>1. CASE NewObserver
  BY <1>1, NewObserverKeeps
<1>2. CASE NewStore \/ ScanFails \/ Terminal
  BY <1>2, MoveKeeps
<1>3. CASE ScanReturns
  BY <1>3, ScanReturnsKeeps
<1>4. CASE \E w \in Worker, l \in Record : Emit(w, l)
  BY <1>4, EmitKeeps
<1>5. CASE LokiAnswers
  BY <1>5, AnswerKeeps
<1>6. CASE WriteReport("html", "pdf") \/ WriteReport("pdf", "finish")
  BY <1>6, WriteReportKeeps
<1>7. CASE \E l \in Line : WriteFinding(l)
  BY <1>7, WriteFindingKeeps
<1>8. CASE BeginClose
  BY <1>8, BeginCloseKeeps
<1>9. CASE CloseLokiSink
  BY <1>9, CloseLokiKeeps
<1>10. CASE CloseJsonlSink
  BY <1>10, CloseJsonlKeeps
<1>11. CASE \E w \in JWriter : FlushJsonl(w)
  BY <1>11, FlushJsonlKeeps
<1>12. CASE EndClose
  BY <1>12, EndCloseKeeps
<1>13. CASE Push
  BY <1>13, PushKeeps
<1>14. CASE Verdict
  BY <1>14, VerdictKeeps
<1>15. CASE Abort
  BY <1>15, AbortKeeps
<1>16. CASE UNCHANGED vars
  BY <1>16, StutterKeeps
<1> QED
  BY <1>1, <1>2, <1>3, <1>4, <1>5, <1>6, <1>7, <1>8, <1>9, <1>10, <1>11, <1>12, <1>13, <1>14, <1>15,
     <1>16 DEF Next, Stop

\* The inductive invariant of a run.
LEMMA Invariance == Spec => []IInv
<1>1. Init => IInv
  BY Opening
<1>2. IInv /\ [Next]_vars => IInv'
  BY StepKeeps
<1> QED  BY <1>1, <1>2, PTL DEF Spec
-----------------------------------------------------------------------------
\* When every sink was closed without an error, every written line is in each of
\* them, in the file once.
LEMMA AllThere ==
  ASSUME IInv, closed, toClose = {}, Joined = "nil"
  PROVE  /\ "loki" \in sinks => lokiAnswered = Written
         /\ "jsonl" \in sinks => ToSet(file) = Written /\ IsInjective(file)
<1>1. lokiOutcome # "error" /\ jsonlOutcome # "error"
  BY DEF Joined
<1>2. ASSUME "loki" \in sinks PROVE lokiAnswered = Written
  <2>1. closes["loki"] = 1 /\ lokiOutcome \in Outcome
    BY <1>2 DEF IInv, Types, Closing, Sinks
  <2>2. lokiOutcome = "nil"
    BY <1>1, <2>1 DEF IInv, Closing, Outcome
  <2> QED  BY <1>2, <2>2 DEF IInv, LokiLines
<1>3. ASSUME "jsonl" \in sinks PROVE ToSet(file) = Written /\ IsInjective(file)
  <2>1. closes["jsonl"] = 1 /\ jsonlOutcome \in Outcome
    BY <1>3 DEF IInv, Types, Closing, Sinks
  <2>2. jsonlOutcome = "nil"
    BY <1>1, <2>1 DEF IInv, Closing, Outcome
  <2>3. ~jerr /\ out = <<>> /\ \A w \in JWriter : buf[w] = <<>>
    BY <2>2 DEF IInv, JsonlLines
  <2>4. Through = file
    BY <2>3, ConcatEmptySeq DEF IInv, Types, JsonlTypes, Through
  <2>5. /\ IsInjective(Through) /\ ToSet(Through) \subseteq Written
        /\ \A x \in Written : x \in ToSet(Through) \/ \E w \in JWriter : x \in ToSet(buf[w])
    BY <1>3, <2>3 DEF IInv, JsonlLines
  <2> QED  BY <2>3, <2>4, <2>5, EmptyFacts
<1> QED  BY <1>2, <1>3

\* A run at the end of finish, without a scan error and with its sinks closed
\* without one, is complete.
LEMMA FinishedIsComplete ==
  ASSUME IInv, Finished, errors = 0, SinkOK, pc \notin {"close", "aborting"}
  PROVE  Complete
<1>1. /\ unwritten = {} /\ \A f \in cfg.asked : reports[f] = "whole"
      /\ sinks = cfg.sinks
  BY DEF Finished, Shown, IInv, Types, Config
<1>2. CASE sinks = {}
  BY <1>1, <1>2 DEF Complete
<1>3. CASE sinks # {}
  <2>1. closed /\ toClose = {} /\ todo = {} /\ Joined = "nil"
    BY <1>3 DEF Finished, IInv, Closing, SinkOK, Joined
  <2>2. Written = Wanted
    BY <1>1, <1>3, <2>1 DEF Written, Wanted
  <2> QED  BY <1>1, <2>1, <2>2, AllThere DEF Complete
<1> QED  BY <1>2, <1>3

\* Every sink that newObserver made is closed before the exit, once, whichever return the
\* command took: finish and the deferred abort never both close it, and never neither.
THEOREM EachClosedOnce == Spec => []ClosedOnce
<1>1. IInv => ClosedOnce
  <2> SUFFICES ASSUME IInv, NEW s \in Sinks
               PROVE  closes[s] <= 1 /\ (Exited /\ s \in sinks => closes[s] = 1)
    BY DEF ClosedOnce
  <2>1. closes[s] = IF closed /\ s \in sinks \ toClose THEN 1 ELSE 0
    BY DEF IInv, Closing
  <2>2. Exited /\ s \in sinks => closed /\ toClose = {}
    BY DEF IInv, Closing, Exited
  <2> QED  BY <2>1, <2>2
<1> QED  BY <1>1, Invariance, PTL

\* The success time that commonMetrics.add puts among the metrics is never pushed for a run that
\* left a record, a retained finding or a report out.
THEOREM SuccessComplete == Spec => []SuccessIsComplete
<1>1. IInv => SuccessIsComplete
  BY FinishedIsComplete DEF SuccessIsComplete, IInv, Ending
<1> QED  BY <1>1, Invariance, PTL

\* An exit code other than 2 means that the run did all it was asked for and that the
\* Pushgateway knows; it is 1 if and only if a rule found something at or above --fail-on, even
\* if that finding is not among those retained.
THEOREM ExitCodeIsHonest == Spec => []CompleteUnlessFailed
<1>1. IInv => CompleteUnlessFailed
  <2> SUFFICES ASSUME IInv, Exited, code # 2
               PROVE  /\ Complete /\ (cfg.push => gateway = "success")
                      /\ code = 1 <=> \E s \in hits : cfg.failOn > 0 /\ s >= cfg.failOn
    BY DEF CompleteUnlessFailed
  <2>1. /\ Finished /\ errors = 0 /\ SinkOK /\ (cfg.push => gateway = "success")
        /\ (code = 1 <=> Gate) /\ pc = "exit"
    BY DEF IInv, Ending, Exited
  <2>2. Gate <=> \E s \in hits : cfg.failOn > 0 /\ s >= cfg.failOn
    BY GateFacts DEF IInv, Types
  <2> QED  BY <2>1, <2>2, FinishedIsComplete
<1> QED  BY <1>1, Invariance, PTL
-----------------------------------------------------------------------------
\* What is in every sink grows.
LEMMA InAllGrows ==
  ASSUME UNCHANGED sinks, Written \subseteq Written', lokiAnswered \subseteq lokiAnswered',
         ToSet(file) \subseteq ToSet(file')
  PROVE  InAll \subseteq InAll' /\ InAll' \subseteq Written'
  BY DEF InAll

\* A step in which nothing is written and no sink ends is an answer of the sinks.
LEMMA AnswerOfAll ==
  ASSUME sinkOutcome = "open", UNCHANGED <<sinks, sinkOutcome>>, Written' = Written,
         lokiAnswered \subseteq lokiAnswered', ToSet(file) \subseteq ToSet(file')
  PROVE  MultiOf!Next
<1>1. InAll' \in SUBSET Written /\ InAll' = InAll \cup InAll'
  BY InAllGrows
<1>2. MultiOf!Answer
  BY <1>1 DEF MultiOf!Answer
<1> QED  BY <1>2 DEF MultiOf!Next

\* A step in which a line is written is a write to them.
LEMMA TakeOfAll ==
  ASSUME sinkOutcome = "open", UNCHANGED <<sinks, sinkOutcome, lokiAnswered>>,
         NEW l \in Line \ Written, Written' = Written \cup {l}, ToSet(file) \subseteq ToSet(file')
  PROVE  MultiOf!Next
<1>1. InAll' \in SUBSET Written' /\ InAll' = InAll \cup InAll'
  BY InAllGrows
<1>2. MultiOf!Take
  BY <1>1 DEF MultiOf!Take
<1> QED  BY <1>2 DEF MultiOf!Next

\* A step that touches neither lines nor sinks is none of theirs.
LEMMA NoneOfTheirs ==
  ASSUME UNCHANGED <<sinks, sinkOutcome, lokiAnswered, file>>, Written' = Written
  PROVE  UNCHANGED MultiOf!deliveryVars
<1>1. InAll' = InAll
  BY DEF InAll
<1> QED  BY <1>1 DEF MultiOf!deliveryVars

\* Every step is a write, an answer, the Close or nothing to the sinks together.
LEMMA StepDelivers == IInv /\ [Next]_vars => [MultiOf!Next]_(MultiOf!deliveryVars)
<1> SUFFICES ASSUME IInv, [Next]_vars PROVE MultiOf!Next \/ UNCHANGED MultiOf!deliveryVars
  OBVIOUS
<1>1. CASE NewObserver
  <2>1. InAll = {} /\ InAll' = {} /\ Written' = Written
    BY <1>1, NewObserverKeeps DEF InAll
  <2> QED  BY <1>1, <2>1 DEF NewObserver, MultiOf!deliveryVars
<1>2. CASE NewStore \/ ScanFails \/ Terminal
  <2>1. UNCHANGED <<sinks, sinkOutcome, lokiAnswered, file>>
    BY <1>2 DEF NewStore, ScanFails, Terminal, sinkVars, closeVars, lokiVars, jsonlVars
  <2> QED  BY <1>2, <2>1, MoveKeeps, NoneOfTheirs
<1>3. CASE ScanReturns
  <2>1. UNCHANGED <<sinks, sinkOutcome, lokiAnswered, file>>
    BY <1>3 DEF ScanReturns, sinkVars, closeVars, lokiVars, jsonlVars
  <2> QED  BY <1>3, <2>1, ScanReturnsKeeps, NoneOfTheirs
<1>4. ASSUME NEW w \in Worker, NEW l \in Record, Emit(w, l)
      PROVE  MultiOf!Next \/ UNCHANGED MultiOf!deliveryVars
  <2>1. /\ UNCHANGED <<sinks, sinkOutcome, lokiAnswered>> /\ pc = "scan" /\ sinkOutcome = "open"
        /\ "jsonl" \notin sinks => UNCHANGED file
    BY <1>4 DEF Emit, WriteLine, closeVars, jsonlVars, IInv, Closing
  <2>2. CASE sinks = {}
    BY <1>4, <2>1, <2>2, EmitKeeps, NoneOfTheirs
  <2>3. CASE sinks # {}
    BY <1>4, <2>1, <2>3, EmitKeeps, TakeOfAll
  <2> QED  BY <2>2, <2>3
<1>5. CASE LokiAnswers
  <2>1. UNCHANGED <<sinks, sinkOutcome, file>>
    BY <1>5 DEF LokiAnswers, jsonlVars, closeVars
  <2>2. CASE sinkOutcome = "open"
    BY <1>5, <2>1, <2>2, AnswerKeeps, AnswerOfAll
  <2>3. CASE sinkOutcome # "open"
    <3>1. "loki" \notin sinks
      BY <1>5, <2>3, AnswerKeeps DEF IInv, Closing, Sinks
    <3>2. InAll' = InAll
      BY <1>5, <2>1, <3>1, AnswerKeeps DEF InAll
    <3> QED  BY <1>5, <2>1, <3>2, AnswerKeeps DEF MultiOf!deliveryVars
  <2> QED  BY <2>2, <2>3
<1>6. CASE WriteReport("html", "pdf") \/ WriteReport("pdf", "finish")
  <2>1. UNCHANGED <<sinks, sinkOutcome, lokiAnswered, file>>
    BY <1>6 DEF WriteReport, sinkVars, closeVars, lokiVars, jsonlVars
  <2> QED  BY <1>6, <2>1, WriteReportKeeps, NoneOfTheirs
<1>7. ASSUME NEW l \in Line, WriteFinding(l)
      PROVE  MultiOf!Next \/ UNCHANGED MultiOf!deliveryVars
  <2>1. UNCHANGED <<sinks, sinkOutcome, lokiAnswered>> /\ sinkOutcome = "open"
    BY <1>7 DEF WriteFinding, WriteLine, closeVars, IInv, Closing
  <2> QED  BY <1>7, <2>1, WriteFindingKeeps, TakeOfAll
<1>8. CASE BeginClose
  <2>1. UNCHANGED <<sinks, sinkOutcome, lokiAnswered, file>>
    BY <1>8 DEF BeginClose, lokiVars, jsonlVars
  <2> QED  BY <1>8, <2>1, BeginCloseKeeps, NoneOfTheirs
<1>9. CASE CloseLokiSink \/ CloseJsonlSink
  <2>1. UNCHANGED sinks
    BY <1>9 DEF CloseLokiSink, CloseJsonlSink, Closes
  <2> QED  BY <1>9, <2>1, CloseLokiKeeps, CloseJsonlKeeps, AnswerOfAll
<1>10. CASE \E w \in JWriter : FlushJsonl(w)
  BY <1>10, FlushJsonlKeeps, AnswerOfAll
<1>11. CASE EndClose
  <2>1. /\ Written' = Written /\ sinkOutcome = "open" /\ sinkOutcome' = Joined
        /\ closed /\ toClose = {} /\ UNCHANGED <<lokiAnswered, file, sinks>>
    BY <1>11, EndCloseKeeps
  <2>2. InAll' = InAll
    BY <2>1 DEF InAll
  <2>3. Joined = "nil" => Written = InAll
    BY <2>1, AllThere DEF InAll
  <2>4. MultiOf!Close
    BY <2>1, <2>2, <2>3 DEF MultiOf!Close, Joined
  <2> QED  BY <2>4 DEF MultiOf!Next
<1>12. CASE Push \/ Verdict
  <2>1. UNCHANGED <<sinks, sinkOutcome, lokiAnswered, file>>
    BY <1>12 DEF Push, Verdict, sinkVars, closeVars, lokiVars, jsonlVars
  <2> QED  BY <1>12, <2>1, PushKeeps, VerdictKeeps, NoneOfTheirs
<1>13. CASE Abort
  <2>1. UNCHANGED <<sinks, sinkOutcome, lokiAnswered, file>>
    BY <1>13 DEF Abort, sinkVars, closeVars, lokiVars, jsonlVars
  <2> QED  BY <1>13, <2>1, AbortKeeps, NoneOfTheirs
<1>14. CASE UNCHANGED vars
  BY <1>14, StutterKeeps, NoneOfTheirs
<1> QED
  BY <1>1, <1>2, <1>3, <1>4, <1>5, <1>6, <1>7, <1>8, <1>9, <1>10, <1>11, <1>12, <1>13, <1>14
  DEF Next, Stop

\* Multi, with the sinks it was made of, keeps the promise of a sink: its Close returns nil
\* only if every line written to it is in all of them.
THEOREM MultiIsDelivery == Spec => MultiDelivers
<1>1. Init => MultiOf!Init
  <2> SUFFICES ASSUME Init PROVE MultiOf!Init
    OBVIOUS
  <2>1. Written = {} /\ InAll = {}
    BY DEF Init, Written, InAll
  <2> QED  BY <2>1 DEF Init, MultiOf!Init
<1>2. IInv /\ [Next]_vars => [MultiOf!Next]_(MultiOf!deliveryVars)
  BY StepDelivers
<1> QED  BY <1>1, <1>2, Invariance, PTL DEF Spec, MultiDelivers, MultiOf!Spec
=============================================================================
