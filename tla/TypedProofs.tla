---------------------------- MODULE TypedProofs -----------------------------
(*****************************************************************************)
(* The proofs about the typed runs, for every log type, set of objects,      *)
(* options and number of workers, after those about the summary of flow      *)
(* logs and the findings over it. Who took which object decides nothing:     *)
(* whatever it was, the shards together hold every line of every object      *)
(* that was taken, and the result holds those of the shards that are         *)
(* merged.                                                                   *)
(*****************************************************************************)
EXTENDS Typed, SummaryProofs

(*****************************************************************************)
(* The summary of flow logs: trackers of distinct values, hours, exposed     *)
(* services, then the whole.                                                 *)
(*****************************************************************************)

-----------------------------------------------------------------------------
\* What a tracker of up to n values g of each source f knows of the entries S.
FoundIn(f, S) == {f[e] : e \in S}
ShownBy(f, g, S, a) == {g[e] : e \in {x \in S : f[x] = a}}
DistinctIs(d, f, g, S, n) ==
  /\ d = [sets |-> d.sets, truncated |-> d.truncated] /\ d.truncated \in BOOLEAN
  /\ DOMAIN d.sets \subseteq FoundIn(f, S) /\ IsFiniteSet(DOMAIN d.sets) /\ Cardinality(DOMAIN d.sets) <= MaxSources
  /\ d.truncated => Cardinality(DOMAIN d.sets) = MaxSources /\ DOMAIN d.sets # FoundIn(f, S)
  /\ ~d.truncated => DOMAIN d.sets = FoundIn(f, S)
  /\ \A a \in DOMAIN d.sets : /\ Filled(d.sets[a], ShownBy(f, g, S, a), n)
                              /\ d.truncated \/ Full(d.sets[a], ShownBy(f, g, S, a), n)

\* A tracker that has seen nothing.
LEMMA DistinctStart ==
  ASSUME NEW f, NEW g, NEW n
  PROVE  DistinctIs(NoDistinct, f, g, {}, n)
<1>1. NoDistinct = [sets |-> <<>>, truncated |-> FALSE]
  BY DEF NoDistinct
<1>2. DOMAIN NoDistinct.sets = {} /\ NoDistinct.truncated = FALSE
  BY <1>1
<1>3. IsFiniteSet({}) /\ Cardinality({}) = 0 /\ MaxSources \in Nat
  BY FS_EmptySet, VpcLimitsAssumption
<1>4. FoundIn(f, {}) = {}
  BY DEF FoundIn
<1> QED  BY <1>1, <1>2, <1>3, <1>4 DEF DistinctIs

\* What is known of no source: nothing.
LEMMA DistinctValue ==
  ASSUME NEW f, NEW g, NEW S, NEW n \in Nat, NEW d, DistinctIs(d, f, g, S, n), NEW a
  PROVE  /\ Filled(ValueAt(d.sets, a, {}), ShownBy(f, g, S, a), n)
         /\ ~d.truncated => Full(ValueAt(d.sets, a, {}), ShownBy(f, g, S, a), n)
<1>1. CASE a \in DOMAIN d.sets
  BY <1>1 DEF DistinctIs, ValueAt
<1>2. CASE a \notin DOMAIN d.sets
  <2>1. ValueAt(d.sets, a, {}) = {}
    BY <1>2 DEF ValueAt
  <2>2. Filled({}, ShownBy(f, g, S, a), n)
    BY FS_EmptySet DEF Filled
  <2>3. ASSUME ~d.truncated PROVE ShownBy(f, g, S, a) = {}
    <3>1. a \notin FoundIn(f, S)
      BY <1>2, <2>3 DEF DistinctIs
    <3> QED  BY <3>1 DEF FoundIn, ShownBy
  <2> QED  BY <2>1, <2>2, <2>3 DEF Full
<1> QED  BY <1>1, <1>2

\* DistinctAdd: a tracker with a flow more.
LEMMA DistinctMore ==
  ASSUME NEW f, NEW g, NEW S, NEW e, NEW n \in Nat, NEW d, DistinctIs(d, f, g, S, n)
  PROVE  DistinctIs(DistinctAdd(d, f[e], g[e], n), f, g, S \cup {e}, n)
<1>1. PICK a, D, r : a = f[e] /\ D = DOMAIN d.sets /\ r = DistinctAdd(d, a, g[e], n)
  OBVIOUS
<1>2. FoundIn(f, S \cup {e}) = FoundIn(f, S) \cup {a}
  BY <1>1 DEF FoundIn
<1>3. \A k : ShownBy(f, g, S \cup {e}, k) = ShownBy(f, g, S, k) \cup (IF k = a THEN {g[e]} ELSE {})
  BY <1>1 DEF ShownBy
<1>4. /\ d = [sets |-> d.sets, truncated |-> d.truncated] /\ d.truncated \in BOOLEAN
      /\ D \subseteq FoundIn(f, S) /\ IsFiniteSet(D) /\ Cardinality(D) <= MaxSources
      /\ d.truncated => Cardinality(D) = MaxSources /\ D # FoundIn(f, S)
      /\ ~d.truncated => D = FoundIn(f, S)
  BY <1>1 DEF DistinctIs
<1>5. PICK x \in Nat : x = Cardinality(D)
  BY <1>4, FS_CardinalityType
<1>6. MaxSources \in Nat
  BY VpcLimitsAssumption
<1>7. CASE a \notin D /\ x >= MaxSources
  <2>1. r = [d EXCEPT !.truncated = TRUE]
    BY <1>1, <1>5, <1>7 DEF DistinctAdd
  <2>2. r = [sets |-> d.sets, truncated |-> TRUE]
    BY <1>4, <2>1
  <2>3. \A k \in D : Filled(d.sets[k], ShownBy(f, g, S, k), n) /\ k # a
    BY <1>1, <1>7 DEF DistinctIs
  <2>4. \A k \in D : Filled(d.sets[k], ShownBy(f, g, S \cup {e}, k), n)
    BY <1>3, <2>3
  <2>5. x = MaxSources /\ D # FoundIn(f, S \cup {e}) /\ D \subseteq FoundIn(f, S \cup {e})
    BY <1>2, <1>4, <1>5, <1>6, <1>7
  <2>6. DistinctIs(r, f, g, S \cup {e}, n)
    BY SMTT(40), <1>1, <1>4, <1>5, <2>2, <2>4, <2>5 DEF DistinctIs
  <2> QED  BY <1>1, <2>6
<1>8. CASE ~(a \notin D /\ x >= MaxSources)
  <2>1. PICK X : X = ValueAt(d.sets, a, {})
    OBVIOUS
  <2>2. PICK Y : Y = IF Cardinality(X) < n THEN X \cup {g[e]} ELSE X
    OBVIOUS
  <2>3. r = [d EXCEPT !.sets = [k \in D \cup {a} |-> IF k \in {a} THEN IF Cardinality(ValueAt(d.sets, k, {})) < n
                                                       THEN ValueAt(d.sets, k, {}) \cup {g[e]} ELSE ValueAt(d.sets, k, {})
                                                     ELSE d.sets[k]]]
    BY <1>1, <1>5, <1>8 DEF DistinctAdd, into
  <2>4. PICK m : m = [k \in D \cup {a} |-> IF k \in {a} THEN IF Cardinality(ValueAt(d.sets, k, {})) < n
                                               THEN ValueAt(d.sets, k, {}) \cup {g[e]} ELSE ValueAt(d.sets, k, {})
                                             ELSE d.sets[k]]
    OBVIOUS
  <2>5. r = [sets |-> m, truncated |-> d.truncated]
    BY <1>4, <2>3, <2>4
  <2>6. DOMAIN m = D \cup {a} /\ m[a] = Y /\ \A k \in D : k # a => m[k] = d.sets[k]
    BY <2>1, <2>2, <2>4
  <2>7. Filled(X, ShownBy(f, g, S, a), n) /\ (~d.truncated => Full(X, ShownBy(f, g, S, a), n))
    BY <2>1, DistinctValue
  <2>8. PICK V : V = ShownBy(f, g, S, a)
    OBVIOUS
  <2>9. ShownBy(f, g, S \cup {e}, a) = V \cup {g[e]}
    BY <1>3, <2>8
  <2>10. X \subseteq V /\ IsFiniteSet(X)
    BY <2>7, <2>8 DEF Filled
  <2>11. PICK c \in Nat : c = Cardinality(X)
    BY <2>10, FS_CardinalityType
  <2>12. c <= n
    BY <2>7, <2>11 DEF Filled
  <2>13. Filled(Y, V \cup {g[e]}, n) /\ (Full(X, V, n) => Full(Y, V \cup {g[e]}, n))
    <3>1. CASE c < n
      <4>1. Y = X \cup {g[e]}
        BY <2>2, <2>11, <3>1
      <4>2. IsFiniteSet(Y) /\ Cardinality(Y) = IF g[e] \in X THEN c ELSE c + 1
        BY <2>10, <2>11, <4>1, FS_AddElement
      <4>3. Y \subseteq V \cup {g[e]} /\ Cardinality(Y) <= n
        BY <2>10, <2>12, <3>1, <4>1, <4>2
      <4>4. Full(X, V, n) => Y = V \cup {g[e]}
        BY <2>11, <3>1, <4>1 DEF Full
      <4> QED  BY <4>2, <4>3, <4>4 DEF Filled, Full
    <3>2. CASE ~(c < n)
      <4>1. Y = X /\ c = n
        BY <2>2, <2>11, <2>12, <3>2
      <4> QED  BY <2>10, <2>11, <2>12, <4>1 DEF Filled, Full
    <3> QED  BY <3>1, <3>2
  <2>14. ASSUME NEW k \in D \cup {a}
         PROVE  Filled(m[k], ShownBy(f, g, S \cup {e}, k), n) /\ (d.truncated \/ Full(m[k], ShownBy(f, g, S \cup {e}, k), n))
    <3>1. CASE k = a
      BY <2>6, <2>7, <2>8, <2>9, <2>13, <3>1
    <3>2. CASE k # a
      <4>1. k \in D /\ m[k] = d.sets[k] /\ ShownBy(f, g, S \cup {e}, k) = ShownBy(f, g, S, k)
        BY <1>3, <2>6, <3>2
      <4> QED  BY <1>1, <4>1 DEF DistinctIs
    <3> QED  BY <3>1, <3>2
  <2>15. IsFiniteSet(D \cup {a}) /\ Cardinality(D \cup {a}) = IF a \in D THEN x ELSE x + 1
    BY <1>4, <1>5, FS_AddElement
  <2>16. Cardinality(D \cup {a}) <= MaxSources
    BY <1>4, <1>5, <1>6, <1>8, <2>15
  <2>17. D \cup {a} \subseteq FoundIn(f, S \cup {e})
    BY <1>2, <1>4
  <2>18. d.truncated => Cardinality(D \cup {a}) = MaxSources /\ D \cup {a} # FoundIn(f, S \cup {e})
    BY <1>2, <1>4, <1>5, <1>6, <1>8, <2>15
  <2>19. ~d.truncated => D \cup {a} = FoundIn(f, S \cup {e})
    BY <1>2, <1>4
  <2>20. r.sets = m /\ r.truncated = d.truncated /\ r = [sets |-> r.sets, truncated |-> r.truncated]
    BY <2>5
  <2>21. DistinctIs(r, f, g, S \cup {e}, n)
    BY <1>4, <2>6, <2>14, <2>15, <2>16, <2>17, <2>18, <2>19, <2>20 DEF DistinctIs
  <2> QED  BY <1>1, <2>21
<1> QED  BY <1>7, <1>8

\* What a merge of trackers may come to.
Fills(X, Y, n) == {X \cup Z : Z \in kSubset(Min({n - Cardinality(X), Cardinality(Y \ X)}), Y \ X)}
DistinctOut(r, d, o, n, D, O, fit, m) ==
  /\ fit \in SUBSET (O \ D) /\ Cardinality(fit) = Min({Max({MaxSources - Cardinality(D), 0}), Cardinality(O \ D)})
  /\ DOMAIN m = D \cup fit
  /\ \A k \in DOMAIN m : IF k \in O THEN m[k] \in Fills(ValueAt(d.sets, k, {}), o.sets[k], n) ELSE m[k] = d.sets[k]
  /\ r = [sets |-> m, truncated |-> d.truncated \/ o.truncated \/ fit # O \ D]

\* Every outcome of a merge of trackers is of this form.
LEMMA DistinctMergeIs ==
  ASSUME NEW d, NEW o, IsFiniteSet(DOMAIN o.sets), NEW n, NEW r \in DistinctMerge(d, o, n)
  PROVE  \E fit, m : DistinctOut(r, d, o, n, DOMAIN d.sets, DOMAIN o.sets, fit, m)
<1>1. PICK D, O, new : D = DOMAIN d.sets /\ O = DOMAIN o.sets /\ new = O \ D
  OBVIOUS
<1> DEFINE fill(set, more) == {set \cup X : X \in kSubset(Min({n - Cardinality(set), Cardinality(more \ set)}), more \ set)}
           size == Min({Max({MaxSources - Cardinality(D), 0}), Cardinality(new)})
           outs(fit) == {[sets |-> over(sets, d.sets), truncated |-> d.truncated \/ o.truncated \/ fit # new] :
               sets \in EveryPick([s \in fit \cup (O \ new) |-> fill(ValueAt(d.sets, s, {}), o.sets[s])])}
<1>2. DistinctMerge(d, o, n) = UNION {outs(fit) : fit \in kSubset(size, new)}
  BY <1>1 DEF DistinctMerge
<1>3. \A X, Y : fill(X, Y) = Fills(X, Y, n)
  BY DEF Fills
<1> HIDE DEF fill, outs, size
<1>4. PICK fit \in kSubset(size, new) : r \in outs(fit)
  BY <1>2
<1>5. fit \in SUBSET new /\ Cardinality(fit) = size
  BY <1>4 DEF kSubset
<1>6. PICK N : N = fit \cup (O \ new)
  OBVIOUS
<1>7. PICK c : c = [s \in N |-> fill(ValueAt(d.sets, s, {}), o.sets[s])]
  OBVIOUS
<1>8. outs(fit) = {[sets |-> over(sets, d.sets), truncated |-> d.truncated \/ o.truncated \/ fit # new] : sets \in EveryPick(c)}
  BY <1>6, <1>7 DEF outs
<1>9. PICK p \in EveryPick(c) : r = [sets |-> over(p, d.sets), truncated |-> d.truncated \/ o.truncated \/ fit # new]
  BY <1>4, <1>8
<1>10. DOMAIN c = N /\ IsFiniteSet(N) /\ N \subseteq O
  <2>1. N \in SUBSET O
    BY <1>1, <1>5, <1>6
  <2>2. IsFiniteSet(N)
    BY <1>1, <2>1, FS_Subset
  <2> QED  BY <1>7, <2>1, <2>2
<1>11. DOMAIN p = N /\ \A s \in N : p[s] \in c[s]
  BY <1>9, <1>10, PickIs
<1>12. PICK m : m = over(p, d.sets)
  OBVIOUS
<1>13. DOMAIN m = N \cup D /\ \A k \in DOMAIN m : m[k] = IF k \in N THEN p[k] ELSE d.sets[k]
  BY <1>1, <1>11, <1>12 DEF over
<1>14. DOMAIN m = D \cup fit
  BY <1>1, <1>5, <1>6, <1>13
<1>15. ASSUME NEW k \in DOMAIN m
       PROVE  IF k \in O THEN m[k] \in Fills(ValueAt(d.sets, k, {}), o.sets[k], n) ELSE m[k] = d.sets[k]
  <2>1. CASE k \in O
    <3>1. k \in N
      BY <1>1, <1>5, <1>6, <1>14, <2>1
    <3>2. m[k] \in fill(ValueAt(d.sets, k, {}), o.sets[k])
      BY <1>7, <1>11, <1>13, <3>1
    <3> QED  BY <1>3, <2>1, <3>2
  <2>2. CASE k \notin O
    <3>1. k \notin N
      BY <1>10, <2>2
    <3> QED  BY <1>13, <2>2, <3>1
  <2> QED  BY <2>1, <2>2
<1>16. r = [sets |-> m, truncated |-> d.truncated \/ o.truncated \/ fit # new]
  BY <1>9, <1>12
<1>17. Cardinality(fit) = Min({Max({MaxSources - Cardinality(D), 0}), Cardinality(new)})
  BY <1>5 DEF size
<1>18. DistinctOut(r, d, o, n, D, O, fit, m)
  BY <1>1, <1>5, <1>14, <1>15, <1>16, <1>17 DEF DistinctOut
<1> QED  BY <1>1, <1>18

\* DistinctMerge: a tracker of two sets of flows.
LEMMA DistinctJoin ==
  ASSUME NEW f, NEW g, NEW S, NEW T, NEW n \in Nat, NEW d, DistinctIs(d, f, g, S, n),
         NEW o, DistinctIs(o, f, g, T, n), NEW r \in DistinctMerge(d, o, n)
  PROVE  DistinctIs(r, f, g, S \cup T, n)
<1>1. PICK D, O, new : D = DOMAIN d.sets /\ O = DOMAIN o.sets /\ new = O \ D
  OBVIOUS
<1>2. PICK F, G : F = FoundIn(f, S) /\ G = FoundIn(f, T)
  OBVIOUS
<1>3. /\ d.truncated \in BOOLEAN /\ D \subseteq F /\ IsFiniteSet(D) /\ Cardinality(D) <= MaxSources
      /\ d.truncated => Cardinality(D) = MaxSources /\ D # F
      /\ ~d.truncated => D = F
  BY <1>1, <1>2 DEF DistinctIs
<1>4. /\ o.truncated \in BOOLEAN /\ O \subseteq G /\ IsFiniteSet(O) /\ Cardinality(O) <= MaxSources
      /\ o.truncated => Cardinality(O) = MaxSources /\ O # G
      /\ ~o.truncated => O = G
  BY <1>1, <1>2 DEF DistinctIs
<1>0. PICK fit, m : DistinctOut(r, d, o, n, D, O, fit, m)
  BY <1>1, <1>4, DistinctMergeIs
<1>5. /\ fit \in SUBSET new /\ Cardinality(fit) = Min({Max({MaxSources - Cardinality(D), 0}), Cardinality(new)})
      /\ DOMAIN m = D \cup fit
      /\ \A k \in DOMAIN m : IF k \in O THEN m[k] \in Fills(ValueAt(d.sets, k, {}), o.sets[k], n) ELSE m[k] = d.sets[k]
      /\ r = [sets |-> m, truncated |-> d.truncated \/ o.truncated \/ fit # new]
  BY <1>0, <1>1 DEF DistinctOut
<1>6. IsFiniteSet(new) /\ IsFiniteSet(fit) /\ D \cap fit = {}
  BY <1>1, <1>4, <1>5, FS_Subset, FS_Difference
<1>7. PICK x \in Nat, y \in Nat, b \in Nat : x = Cardinality(D) /\ y = Cardinality(O) /\ b = Cardinality(new)
  BY <1>3, <1>4, <1>6, FS_CardinalityType
<1>8. PICK M \in Nat : M = MaxSources
  BY VpcLimitsAssumption
<1>9. x <= M /\ y <= M
  BY <1>3, <1>4, <1>7, <1>8
<1>10. Cardinality(fit) = IF M - x <= b THEN M - x ELSE b
  <2>1. Max({M - x, 0}) = M - x
    BY <1>9, GreaterIs
  <2>2. M - x \in Int /\ b \in Int
    OBVIOUS
  <2>3. Min({M - x, b}) = IF M - x <= b THEN M - x ELSE b
    BY <2>2, LesserIs
  <2> QED  BY <1>5, <1>7, <1>8, <2>1, <2>3
<1>11. IsFiniteSet(D \cup fit) /\ Cardinality(D \cup fit) = x + Cardinality(fit)
  BY <1>3, <1>6, <1>7, FS_Union, ApartAddUp
<1>12. Cardinality(D \cup fit) = IF M - x <= b THEN M ELSE x + b
  BY <1>9, <1>10, <1>11
<1>13. Cardinality(D \cup fit) <= M
  BY <1>9, <1>12
<1>14. FoundIn(f, S \cup T) = F \cup G
  BY <1>2 DEF FoundIn
<1>15. D \cup fit \subseteq F \cup G
  BY <1>1, <1>3, <1>4, <1>5
<1>16. PICK t : t = (d.truncated \/ o.truncated \/ fit # new)
  OBVIOUS
<1>18. ASSUME t PROVE Cardinality(D \cup fit) = M /\ D \cup fit # F \cup G
  <2>1. CASE d.truncated
    <3>1. x = M /\ D # F
      BY <1>3, <1>7, <1>8, <2>1
    <3>2. Cardinality(fit) = 0
      BY <1>7, <1>10, <3>1
    <3>3. fit = {}
      BY <1>6, <3>2, FS_EmptySet
    <3> QED  BY <1>3, <1>11, <3>1, <3>2, <3>3
  <2>2. CASE ~d.truncated /\ fit # new
    <3>1. Cardinality(fit) # b
      BY <1>5, <1>6, <1>7, <2>2, FS_Subset
    <3>2. M - x <= b
      BY <1>10, <3>1
    <3>3. D \cup fit # F \cup G
      BY <1>1, <1>3, <1>4, <1>5, <2>2
    <3> QED  BY <1>12, <3>2, <3>3
  <2>3. CASE ~d.truncated /\ fit = new /\ o.truncated
    <3>1. y = M /\ O # G
      BY <1>4, <1>7, <1>8, <2>3
    <3>2. O \subseteq D \cup fit
      BY <1>1, <2>3
    <3>3. y <= Cardinality(D \cup fit)
      BY <1>7, <1>11, <3>2, FS_Subset
    <3>4. PICK c \in Nat : c = Cardinality(D \cup fit)
      BY <1>11, FS_CardinalityType
    <3>5. c = M
      BY <1>13, <3>1, <3>3, <3>4
    <3>6. O = D \cup fit
      BY <1>7, <1>11, <3>1, <3>2, <3>4, <3>5, FS_Subset
    <3> QED  BY <1>4, <3>1, <3>4, <3>5, <3>6
  <2> QED  BY <1>16, <1>18, <2>1, <2>2, <2>3
<1>19. ASSUME ~t PROVE D \cup fit = F \cup G
  BY <1>1, <1>3, <1>4, <1>16, <1>19
<1>20. \A k : ShownBy(f, g, S \cup T, k) = ShownBy(f, g, S, k) \cup ShownBy(f, g, T, k)
  BY DEF ShownBy
<1>21. ASSUME NEW k \in DOMAIN m
       PROVE  Filled(m[k], ShownBy(f, g, S \cup T, k), n) /\ (t \/ Full(m[k], ShownBy(f, g, S \cup T, k), n))
  <2>1. PICK X, V, W : X = ValueAt(d.sets, k, {}) /\ V = ShownBy(f, g, S, k) /\ W = ShownBy(f, g, T, k)
    OBVIOUS
  <2>2. Filled(X, V, n) /\ (~d.truncated => Full(X, V, n))
    BY <2>1, DistinctValue
  <2>3. CASE k \in O
    <3>1. PICK Y : Y = o.sets[k]
      OBVIOUS
    <3>2. Filled(Y, W, n) /\ (o.truncated \/ Full(Y, W, n))
      BY <1>1, <2>1, <2>3, <3>1 DEF DistinctIs
    <3>3. m[k] \in Fills(X, Y, n)
      BY <1>5, <2>1, <2>3, <3>1
    <3>4. PICK Z : m[k] = X \cup Z /\ Topped(X, Y, n, Z)
      BY <3>3 DEF Fills, Topped
    <3>5. /\ Filled(X \cup Z, V \cup W, n)
          /\ Full(X, V, n) /\ Full(Y, W, n) => Full(X \cup Z, V \cup W, n)
      BY <2>2, <3>2, <3>4, FillMore
    <3> QED  BY <1>16, <1>20, <2>1, <2>2, <3>2, <3>4, <3>5
  <2>4. CASE k \notin O
    <3>1. k \in D /\ m[k] = d.sets[k] /\ X = d.sets[k]
      BY <1>1, <1>5, <2>1, <2>4 DEF ValueAt
    <3>2. Filled(X, V \cup W, n)
      BY <2>2 DEF Filled
    <3>3. ~t => W = {}
      <4>1. ~t => k \notin G
        BY <1>4, <1>16, <2>4
      <4>2. k \notin G => W = {}
        BY <1>2, <2>1 DEF FoundIn, ShownBy
      <4> QED  BY <4>1, <4>2
    <3>4. ~t => Full(X, V \cup W, n)
      BY <1>16, <2>2, <3>3 DEF Full
    <3> QED  BY <1>20, <2>1, <3>1, <3>2, <3>4
  <2> QED  BY <2>3, <2>4
<1>22. r.sets = m /\ r.truncated = t /\ r = [sets |-> r.sets, truncated |-> r.truncated] /\ t \in BOOLEAN
  BY <1>5, <1>16
<1> QED  BY <1>5, <1>8, <1>11, <1>13, <1>14, <1>15, <1>18, <1>19, <1>21, <1>22 DEF DistinctIs

\* What a tracker that is as it should be says of the entries S.
DistinctTold(d, f, g, S, n) ==
  /\ DOMAIN d.sets \subseteq FoundIn(f, S) /\ Cardinality(DOMAIN d.sets) = Min({MaxSources, Cardinality(FoundIn(f, S))})
  /\ d.truncated <=> Cardinality(FoundIn(f, S)) > MaxSources
  /\ \A a \in DOMAIN d.sets : /\ d.sets[a] \subseteq ShownBy(f, g, S, a)
                              /\ d.truncated \/ Cardinality(d.sets[a]) = Min({n, Cardinality(ShownBy(f, g, S, a))})

\* A tracker knows as many sources as fit, and of each as many values as count.
LEMMA DistinctEnd ==
  ASSUME NEW f, NEW g, NEW S, IsFiniteSet(S), NEW n \in Nat, NEW d, DistinctIs(d, f, g, S, n)
  PROVE  DistinctTold(d, f, g, S, n)
<1>1. PICK D, F : D = DOMAIN d.sets /\ F = FoundIn(f, S)
  OBVIOUS
<1>2. /\ d.truncated \in BOOLEAN /\ D \subseteq F /\ IsFiniteSet(D) /\ Cardinality(D) <= MaxSources
      /\ d.truncated => Cardinality(D) = MaxSources /\ D # F
      /\ ~d.truncated => D = F
      /\ \A a \in D : /\ Filled(d.sets[a], ShownBy(f, g, S, a), n)
                      /\ d.truncated \/ Full(d.sets[a], ShownBy(f, g, S, a), n)
  BY <1>1 DEF DistinctIs
<1>3. IsFiniteSet(F)
  BY <1>1, KeysFinite DEF FoundIn
<1>4. PICK M \in Nat, x \in Nat, y \in Nat : M = MaxSources /\ x = Cardinality(D) /\ y = Cardinality(F)
  BY <1>2, <1>3, FS_CardinalityType, VpcLimitsAssumption
<1>5. x <= y /\ (x = y => D = F)
  BY <1>2, <1>3, <1>4, FS_Subset
<1>6. d.truncated <=> y > M
  BY <1>2, <1>4, <1>5
<1>7. x = Min({M, y})
  <2>1. M \in Int /\ y \in Int
    OBVIOUS
  <2>2. Min({M, y}) = IF M <= y THEN M ELSE y
    BY <2>1, LesserIs
  <2> QED  BY <1>2, <1>4, <1>5, <1>6, <2>2
<1>8. ASSUME NEW a \in D
      PROVE  /\ d.sets[a] \subseteq ShownBy(f, g, S, a)
             /\ d.truncated \/ Cardinality(d.sets[a]) = Min({n, Cardinality(ShownBy(f, g, S, a))})
  <2>1. PICK X, V : X = d.sets[a] /\ V = ShownBy(f, g, S, a)
    OBVIOUS
  <2>2. X \subseteq V /\ IsFiniteSet(X) /\ Cardinality(X) <= n /\ (d.truncated \/ Cardinality(X) = n \/ X = V)
    BY <1>2, <2>1 DEF Filled, Full
  <2>3. IsFiniteSet(V)
    <3>1. V = KeySet(g, {}, {s \in S : f[s] = a})
      BY <2>1 DEF ShownBy, KeySet
    <3>2. IsFiniteSet({s \in S : f[s] = a})
      BY FS_Subset
    <3> QED  BY <3>1, <3>2, KeysFinite
  <2>4. PICK p \in Nat, q \in Nat : p = Cardinality(X) /\ q = Cardinality(V)
    BY <2>2, <2>3, FS_CardinalityType
  <2>5. p <= q
    BY <2>2, <2>3, <2>4, FS_Subset
  <2>6. Min({n, q}) = IF n <= q THEN n ELSE q
    <3>1. n \in Int /\ q \in Int
      OBVIOUS
    <3> QED  BY <3>1, LesserIs
  <2>7. d.truncated \/ p = n \/ p = q
    BY <2>2, <2>4
  <2> QED  BY <2>1, <2>2, <2>4, <2>5, <2>6, <2>7
<1> QED  BY <1>1, <1>2, <1>4, <1>6, <1>7, <1>8 DEF DistinctTold

-----------------------------------------------------------------------------
\* The actions of the flows of an hour.
ActionsIn(U) == [e \in U |-> e.action]
SrcsIn(U) == [e \in U |-> e.src]
BytesIn(U) == [e \in U |-> e.bytes]
HourIs(c, U, S) == CapIs(c, ActionsIn(U), OnesIn(U), S)
HoursBy(m, h, U, S) == KeyedBy(m, h, {}, S) /\ \A k \in DOMAIN m : HourIs(m[k], U, Having(h, k, S))
HourMerge(c, d) == capMerge(c, d, MaxKeys)
HourHit(c, e) == capAdd(c, e.action, 1, MaxKeys)

\* An hour without a flow.
LEMMA HourStart ==
  ASSUME NEW U
  PROVE  HourIs(EmptyBag, U, {})
BY CapStart DEF HourIs

\* The same hour in two summaries.
LEMMA HourJoin ==
  ASSUME NEW U, IsFiniteSet(U), NEW S \in SUBSET U, NEW T \in SUBSET U, S \cap T = {},
         NEW c, HourIs(c, U, S), NEW d, HourIs(d, U, T), NEW r \in HourMerge(c, d)
  PROVE  HourIs(r, U, S \cup T)
<1>1. IsFiniteSet(S) /\ IsFiniteSet(T)
  BY FS_Subset
<1>2. PICK i, w : i = ActionsIn(U) /\ w = OnesIn(U)
  OBVIOUS
<1>3. \A e \in S \cup T : w[e] \in Nat
  BY <1>2 DEF OnesIn
<1>4. CapIs(c, i, w, S) /\ CapIs(d, i, w, T) /\ r \in capMerge(c, d, MaxKeys)
  BY <1>2 DEF HourIs, HourMerge
<1>5. CapIs(r, i, w, S \cup T)
  BY <1>1, <1>3, <1>4, CapMerge
<1> QED  BY <1>2, <1>5 DEF HourIs

\* An hour with a flow more.
LEMMA HourMore ==
  ASSUME NEW U, IsFiniteSet(U), NEW S \in SUBSET U, NEW e \in U, e \notin S, NEW c, HourIs(c, U, S)
  PROVE  HourIs(HourHit(c, e), U, S \cup {e})
<1>1. IsFiniteSet(S)
  BY FS_Subset
<1>2. PICK i, w : i = ActionsIn(U) /\ w = OnesIn(U)
  OBVIOUS
<1>3. (\A x \in S \cup {e} : w[x] \in Nat) /\ i[e] = e.action /\ w[e] = 1
  BY <1>2 DEF OnesIn, ActionsIn
<1>4. CapIs(c, i, w, S)
  BY <1>2 DEF HourIs
<1>5. CapIs(capAdd(c, i[e], w[e], MaxKeys), i, w, S \cup {e})
  BY <1>1, <1>3, <1>4, CapAdd
<1> QED  BY <1>2, <1>3, <1>5 DEF HourIs, HourHit

\* Maps of them are merged key by key.
LEMMA HoursMerge ==
  ASSUME NEW h, NEW U, IsFiniteSet(U), \A e \in U : e.time \in Nat /\ e.bytes \in Nat,
         NEW S \in SUBSET U, NEW T \in SUBSET U, S \cap T = {},
         NEW m, HoursBy(m, h, U, S), NEW o, HoursBy(o, h, U, T),
         NEW n, Changed(n, m, DOMAIN o), \A k \in DOMAIN o : n[k] \in HourMerge(ValueAt(m, k, EmptyBag), o[k])
  PROVE  HoursBy(n, h, U, S \cup T)
<1>1. KeyedBy(m, h, {}, S) /\ KeyedBy(o, h, {}, T)
  BY DEF HoursBy
<1>2. /\ KeyedBy(n, h, {}, S \cup T)
      /\ \A k \in DOMAIN n :
           /\ Having(h, k, S \cup T) = Having(h, k, S) \cup Having(h, k, T)
           /\ Having(h, k, S) \cap Having(h, k, T) = {}
           /\ k \notin DOMAIN m => Having(h, k, S) = {}
           /\ k \notin DOMAIN o => Having(h, k, T) = {} /\ k \in DOMAIN m /\ n[k] = m[k]
  BY <1>1, HavingFacts
<1>3. ASSUME NEW k \in DOMAIN n PROVE HourIs(n[k], U, Having(h, k, S \cup T))
  <2>1. PICK A \in SUBSET U, B \in SUBSET U : A = Having(h, k, S) /\ B = Having(h, k, T)
    BY DEF Having
  <2>2. CASE k \in DOMAIN o
    <3>1. HourIs(o[k], U, B)
      BY <2>1, <2>2 DEF HoursBy
    <3>2. PICK v : v = ValueAt(m, k, EmptyBag)
      OBVIOUS
    <3>3. HourIs(v, U, A)
      <4>1. CASE k \in DOMAIN m
        BY <2>1, <3>2, <4>1 DEF HoursBy, ValueAt
      <4>2. CASE k \notin DOMAIN m
        <5>1. A = {} /\ v = EmptyBag
          BY <1>2, <2>1, <3>2, <4>2 DEF ValueAt
        <5> QED  BY <5>1, HourStart
      <4> QED  BY <4>1, <4>2
    <3>4. A \cup B = Having(h, k, S \cup T) /\ A \cap B = {}
      BY <1>2, <2>1
    <3>5. n[k] \in HourMerge(v, o[k])
      BY <2>2, <3>2
    <3>6. HourIs(n[k], U, A \cup B)
      BY <3>1, <3>3, <3>4, <3>5, HourJoin
    <3> QED  BY <3>4, <3>6
  <2>3. CASE k \notin DOMAIN o
    <3>1. k \in DOMAIN m /\ n[k] = m[k] /\ Having(h, k, S \cup T) = Having(h, k, S)
      BY <1>2, <2>3
    <3> QED  BY <3>1 DEF HoursBy
  <2> QED  BY <2>2, <2>3
<1> QED  BY <1>2, <1>3 DEF HoursBy

\* One more counts under its key.
LEMMA HoursAdd ==
  ASSUME NEW h, NEW U, IsFiniteSet(U), \A e \in U : e.time \in Nat /\ e.bytes \in Nat,
         NEW S \in SUBSET U, NEW e \in U, e \notin S,
         NEW m, HoursBy(m, h, U, S), NEW n, Changed(n, m, {h[e]}), n[h[e]] = HourHit(ValueAt(m, h[e], EmptyBag), e)
  PROVE  HoursBy(n, h, U, S \cup {e})
<1>1. KeyedBy(m, h, {}, S) /\ Changed(n, m, {h[e]} \ {})
  BY DEF HoursBy
<1>2. /\ KeyedBy(n, h, {}, S \cup {e})
      /\ \A k \in DOMAIN n :
           /\ k \notin DOMAIN m => Having(h, k, S) = {}
           /\ k = h[e] => Having(h, k, S \cup {e}) = Having(h, k, S) \cup {e} /\ k \in {h[e]} \ {}
           /\ k # h[e] => Having(h, k, S \cup {e}) = Having(h, k, S) /\ k \in DOMAIN m /\ n[k] = m[k]
           /\ e \notin Having(h, k, S)
  BY <1>1, HavingMore
<1>3. ASSUME NEW k \in DOMAIN n PROVE HourIs(n[k], U, Having(h, k, S \cup {e}))
  <2>1. PICK A \in SUBSET U : A = Having(h, k, S)
    BY DEF Having
  <2>2. CASE k = h[e]
    <3>1. PICK v : v = ValueAt(m, k, EmptyBag)
      OBVIOUS
    <3>2. HourIs(v, U, A)
      <4>1. CASE k \in DOMAIN m
        BY <2>1, <3>1, <4>1 DEF HoursBy, ValueAt
      <4>2. CASE k \notin DOMAIN m
        <5>1. A = {} /\ v = EmptyBag
          BY <1>2, <2>1, <3>1, <4>2 DEF ValueAt
        <5> QED  BY <5>1, HourStart
      <4> QED  BY <4>1, <4>2
    <3>3. Having(h, k, S \cup {e}) = A \cup {e} /\ e \notin A
      BY <1>2, <2>1, <2>2
    <3>4. HourIs(HourHit(v, e), U, A \cup {e})
      BY <3>2, <3>3, HourMore
    <3> QED  BY <2>2, <3>1, <3>3, <3>4
  <2>3. CASE k # h[e]
    <3>1. k \in DOMAIN m /\ n[k] = m[k] /\ Having(h, k, S \cup {e}) = Having(h, k, S)
      BY <1>2, <2>3
    <3> QED  BY <3>1 DEF HoursBy
  <2> QED  BY <2>2, <2>3
<1> QED  BY <1>2, <1>3 DEF HoursBy

-----------------------------------------------------------------------------
\* What is known of the flows S that reached an exposed service.
ServiceIs(v, U, S) ==
  /\ v.flows = Cardinality(S) /\ v.bytes = Sum(BytesIn(U), S) /\ FirstIs(v.first, Timed(S))
  /\ CapIs(v.sources, SrcsIn(U), OnesIn(U), S)
ServicesBy(m, h, U, S) == KeyedBy(m, h, {}, S) /\ \A k \in DOMAIN m : ServiceIs(m[k], U, Having(h, k, S))
ServiceHit(x, e) == [flows |-> x.flows + 1, bytes |-> x.bytes + e.bytes, first |-> mergeFirst(x.first, e.time),
                     sources |-> capAdd(x.sources, e.src, 1, ExposedSourceCap)]

\* A service that no flow reached.
LEMMA ServiceStart ==
  ASSUME NEW U
  PROVE  ServiceIs(NoService, U, {})
<1>1. NoService.flows = 0 /\ NoService.bytes = 0 /\ NoService.first = 0 /\ NoService.sources = EmptyBag
  BY DEF NoService
<1>2. Cardinality({}) = 0 /\ Timed({}) = {}
  BY FS_EmptySet DEF Timed
<1>3. Sum(BytesIn(U), {}) = 0
  BY SumEmpty
<1>4. CapIs(EmptyBag, SrcsIn(U), OnesIn(U), {})
  BY CapStart
<1>5. FirstIs(0, {})
  BY DEF FirstIs
<1> QED  BY <1>1, <1>2, <1>3, <1>4, <1>5 DEF ServiceIs

\* mergeService: a service in two summaries.
LEMMA ServiceJoin ==
  ASSUME NEW U, IsFiniteSet(U), \A e \in U : e.time \in Nat /\ e.bytes \in Nat,
         NEW S \in SUBSET U, NEW T \in SUBSET U, S \cap T = {},
         NEW c, ServiceIs(c, U, S), NEW d, ServiceIs(d, U, T), NEW r \in mergeService(c, d)
  PROVE  ServiceIs(r, U, S \cup T)
<1>1. IsFiniteSet(S) /\ IsFiniteSet(T)
  BY FS_Subset
<1>2. /\ r.flows = c.flows + d.flows /\ r.bytes = c.bytes + d.bytes /\ r.first = mergeFirst(c.first, d.first)
      /\ r.sources \in capMerge(c.sources, d.sources, ExposedSourceCap)
  BY DEF mergeService
<1>3. r.flows = Cardinality(S \cup T)
  <2>1. Cardinality(S \cup T) = Cardinality(S) + Cardinality(T)
    BY <1>1, ApartAddUp
  <2> QED  BY <1>2, <2>1 DEF ServiceIs
<1>4. r.bytes = Sum(BytesIn(U), S \cup T)
  <2>1. PICK b : b = BytesIn(U)
    OBVIOUS
  <2>2. \A e \in U : b[e] \in Int
    BY <2>1 DEF BytesIn
  <2>3. Sum(b, S \cup T) = Sum(b, S) + Sum(b, T)
    BY <2>2, SumUnion
  <2> QED  BY <1>2, <2>1, <2>3 DEF ServiceIs
<1>5. PICK i, w : i = SrcsIn(U) /\ w = OnesIn(U)
  OBVIOUS
<1>6. \A e \in S \cup T : w[e] \in Nat
  BY <1>5 DEF OnesIn
<1>7. CapIs(c.sources, i, w, S) /\ CapIs(d.sources, i, w, T)
  BY <1>5 DEF ServiceIs
<1>8. CapIs(r.sources, i, w, S \cup T)
  BY <1>1, <1>2, <1>6, <1>7, CapMerge
<1>9. FirstIs(r.first, Timed(S \cup T))
  <2>1. FirstIs(c.first, Timed(S)) /\ FirstIs(d.first, Timed(T))
    BY DEF ServiceIs
  <2>2. \A e \in Timed(S) \cup Timed(T) : e.time \in Nat /\ e.time > 0
    BY DEF Timed
  <2>3. Timed(S \cup T) = Timed(S) \cup Timed(T)
    BY DEF Timed
  <2>4. FirstIs(IF c.first = 0 \/ (d.first # 0 /\ d.first < c.first) THEN d.first ELSE c.first, Timed(S) \cup Timed(T))
    BY <2>1, <2>2, FirstMerge
  <2> QED  BY <1>2, <2>3, <2>4 DEF mergeFirst
<1> QED  BY <1>3, <1>4, <1>5, <1>8, <1>9 DEF ServiceIs

\* A service with a flow more.
LEMMA ServiceMore ==
  ASSUME NEW U, IsFiniteSet(U), \A e \in U : e.time \in Nat /\ e.bytes \in Nat,
         NEW S \in SUBSET U, NEW e \in U, e \notin S, NEW c, ServiceIs(c, U, S)
  PROVE  ServiceIs(ServiceHit(c, e), U, S \cup {e})
<1>1. IsFiniteSet(S) /\ IsFiniteSet({e}) /\ S \cap {e} = {}
  BY FS_Subset, FS_Singleton
<1>2. PICK r : r = ServiceHit(c, e)
  OBVIOUS
<1>3. /\ r.flows = c.flows + 1 /\ r.bytes = c.bytes + e.bytes /\ r.first = mergeFirst(c.first, e.time)
      /\ r.sources = capAdd(c.sources, e.src, 1, ExposedSourceCap)
  BY <1>2 DEF ServiceHit
<1>4. r.flows = Cardinality(S \cup {e})
  <2>1. Cardinality(S \cup {e}) = Cardinality(S) + 1
    BY <1>1, OneMore
  <2> QED  BY <1>3, <2>1 DEF ServiceIs
<1>5. r.bytes = Sum(BytesIn(U), S \cup {e})
  <2>1. PICK b : b = BytesIn(U)
    OBVIOUS
  <2>2. (\A x \in U : b[x] \in Int) /\ b[e] = e.bytes
    BY <2>1 DEF BytesIn
  <2>3. Sum(b, S \cup {e}) = Sum(b, S) + b[e]
    BY <2>2, SumAdd
  <2> QED  BY <1>3, <2>1, <2>2, <2>3 DEF ServiceIs
<1>6. PICK i, w : i = SrcsIn(U) /\ w = OnesIn(U)
  OBVIOUS
<1>7. (\A x \in S \cup {e} : w[x] \in Nat) /\ i[e] = e.src /\ w[e] = 1
  BY <1>6 DEF OnesIn, SrcsIn
<1>8. CapIs(c.sources, i, w, S)
  BY <1>6 DEF ServiceIs
<1>9. CapIs(capAdd(c.sources, i[e], w[e], ExposedSourceCap), i, w, S \cup {e})
  BY <1>1, <1>7, <1>8, CapAdd
<1>10. FirstIs(r.first, Timed(S \cup {e}))
  <2>1. FirstIs(c.first, Timed(S)) /\ e.time \in Nat
    BY DEF ServiceIs
  <2>2. FirstIs(e.time, Timed({e}))
    BY <2>1 DEF FirstIs, Timed
  <2>3. \A y \in Timed(S) \cup Timed({e}) : y.time \in Nat /\ y.time > 0
    BY DEF Timed
  <2>4. Timed(S \cup {e}) = Timed(S) \cup Timed({e})
    BY DEF Timed
  <2>5. FirstIs(IF c.first = 0 \/ (e.time # 0 /\ e.time < c.first) THEN e.time ELSE c.first, Timed(S) \cup Timed({e}))
    BY <2>1, <2>2, <2>3, FirstMerge
  <2> QED  BY <1>3, <2>4, <2>5 DEF mergeFirst
<1> QED  BY <1>2, <1>3, <1>4, <1>5, <1>6, <1>7, <1>9, <1>10 DEF ServiceIs

\* Maps of them are merged key by key.
LEMMA ServicesMerge ==
  ASSUME NEW h, NEW U, IsFiniteSet(U), \A e \in U : e.time \in Nat /\ e.bytes \in Nat,
         NEW S \in SUBSET U, NEW T \in SUBSET U, S \cap T = {},
         NEW m, ServicesBy(m, h, U, S), NEW o, ServicesBy(o, h, U, T),
         NEW n, Changed(n, m, DOMAIN o), \A k \in DOMAIN o : n[k] \in mergeService(ValueAt(m, k, NoService), o[k])
  PROVE  ServicesBy(n, h, U, S \cup T)
<1>1. KeyedBy(m, h, {}, S) /\ KeyedBy(o, h, {}, T)
  BY DEF ServicesBy
<1>2. /\ KeyedBy(n, h, {}, S \cup T)
      /\ \A k \in DOMAIN n :
           /\ Having(h, k, S \cup T) = Having(h, k, S) \cup Having(h, k, T)
           /\ Having(h, k, S) \cap Having(h, k, T) = {}
           /\ k \notin DOMAIN m => Having(h, k, S) = {}
           /\ k \notin DOMAIN o => Having(h, k, T) = {} /\ k \in DOMAIN m /\ n[k] = m[k]
  BY <1>1, HavingFacts
<1>3. ASSUME NEW k \in DOMAIN n PROVE ServiceIs(n[k], U, Having(h, k, S \cup T))
  <2>1. PICK A \in SUBSET U, B \in SUBSET U : A = Having(h, k, S) /\ B = Having(h, k, T)
    BY DEF Having
  <2>2. CASE k \in DOMAIN o
    <3>1. ServiceIs(o[k], U, B)
      BY <2>1, <2>2 DEF ServicesBy
    <3>2. PICK v : v = ValueAt(m, k, NoService)
      OBVIOUS
    <3>3. ServiceIs(v, U, A)
      <4>1. CASE k \in DOMAIN m
        BY <2>1, <3>2, <4>1 DEF ServicesBy, ValueAt
      <4>2. CASE k \notin DOMAIN m
        <5>1. A = {} /\ v = NoService
          BY <1>2, <2>1, <3>2, <4>2 DEF ValueAt
        <5> QED  BY <5>1, ServiceStart
      <4> QED  BY <4>1, <4>2
    <3>4. A \cup B = Having(h, k, S \cup T) /\ A \cap B = {}
      BY <1>2, <2>1
    <3>5. n[k] \in mergeService(v, o[k])
      BY <2>2, <3>2
    <3>6. ServiceIs(n[k], U, A \cup B)
      BY <3>1, <3>3, <3>4, <3>5, ServiceJoin
    <3> QED  BY <3>4, <3>6
  <2>3. CASE k \notin DOMAIN o
    <3>1. k \in DOMAIN m /\ n[k] = m[k] /\ Having(h, k, S \cup T) = Having(h, k, S)
      BY <1>2, <2>3
    <3> QED  BY <3>1 DEF ServicesBy
  <2> QED  BY <2>2, <2>3
<1> QED  BY <1>2, <1>3 DEF ServicesBy

\* One more counts under its key.
LEMMA ServicesAdd ==
  ASSUME NEW h, NEW U, IsFiniteSet(U), \A e \in U : e.time \in Nat /\ e.bytes \in Nat,
         NEW S \in SUBSET U, NEW e \in U, e \notin S,
         NEW m, ServicesBy(m, h, U, S), NEW n, Changed(n, m, {h[e]}), n[h[e]] = ServiceHit(ValueAt(m, h[e], NoService), e)
  PROVE  ServicesBy(n, h, U, S \cup {e})
<1>1. KeyedBy(m, h, {}, S) /\ Changed(n, m, {h[e]} \ {})
  BY DEF ServicesBy
<1>2. /\ KeyedBy(n, h, {}, S \cup {e})
      /\ \A k \in DOMAIN n :
           /\ k \notin DOMAIN m => Having(h, k, S) = {}
           /\ k = h[e] => Having(h, k, S \cup {e}) = Having(h, k, S) \cup {e} /\ k \in {h[e]} \ {}
           /\ k # h[e] => Having(h, k, S \cup {e}) = Having(h, k, S) /\ k \in DOMAIN m /\ n[k] = m[k]
           /\ e \notin Having(h, k, S)
  BY <1>1, HavingMore
<1>3. ASSUME NEW k \in DOMAIN n PROVE ServiceIs(n[k], U, Having(h, k, S \cup {e}))
  <2>1. PICK A \in SUBSET U : A = Having(h, k, S)
    BY DEF Having
  <2>2. CASE k = h[e]
    <3>1. PICK v : v = ValueAt(m, k, NoService)
      OBVIOUS
    <3>2. ServiceIs(v, U, A)
      <4>1. CASE k \in DOMAIN m
        BY <2>1, <3>1, <4>1 DEF ServicesBy, ValueAt
      <4>2. CASE k \notin DOMAIN m
        <5>1. A = {} /\ v = NoService
          BY <1>2, <2>1, <3>1, <4>2 DEF ValueAt
        <5> QED  BY <5>1, ServiceStart
      <4> QED  BY <4>1, <4>2
    <3>3. Having(h, k, S \cup {e}) = A \cup {e} /\ e \notin A
      BY <1>2, <2>1, <2>2
    <3>4. ServiceIs(ServiceHit(v, e), U, A \cup {e})
      BY <3>2, <3>3, ServiceMore
    <3> QED  BY <2>2, <3>1, <3>3, <3>4
  <2>3. CASE k # h[e]
    <3>1. k \in DOMAIN m /\ n[k] = m[k] /\ Having(h, k, S \cup {e}) = Having(h, k, S)
      BY <1>2, <2>3
    <3> QED  BY <3>1 DEF ServicesBy
  <2> QED  BY <2>2, <2>3
<1> QED  BY <1>2, <1>3 DEF ServicesBy

-----------------------------------------------------------------------------
\* What is known of the exposed services h by the flows S that reached them.
FlowsOf(m) == [k \in DOMAIN m |-> m[k].flows]
ExposedIs(m, dropped, h, U, S) ==
  /\ m = [k \in DOMAIN m |-> m[k]] /\ DOMAIN m \subseteq FoundIn(h, S)
  /\ IsFiniteSet(DOMAIN m) /\ Cardinality(DOMAIN m) <= MaxKeys
  /\ \A k \in DOMAIN m : m[k].flows \in Nat /\ m[k].flows > 0
  /\ dropped \in Nat /\ Sum(FlowsOf(m), DOMAIN m) + dropped = Cardinality(S)
  /\ dropped > 0 => Cardinality(DOMAIN m) = MaxKeys
  /\ dropped = 0 => ServicesBy(m, h, U, S)

\* No exposed service yet.
LEMMA ExposedStart ==
  ASSUME NEW h, NEW U
  PROVE  ExposedIs(<<>>, 0, h, U, {})
<1>1. PICK m : m = <<>>
  OBVIOUS
<1>2. DOMAIN m = {} /\ m = [k \in DOMAIN m |-> m[k]]
  BY <1>1
<1>3. IsFiniteSet({}) /\ Cardinality({}) = 0 /\ MaxKeys \in Nat
  BY FS_EmptySet, VpcLimitsAssumption
<1>4. Sum(FlowsOf(m), {}) = 0
  BY SumEmpty
<1>5. ServicesBy(m, h, U, {})
  BY <1>2 DEF ServicesBy, KeyedBy, KeySet
<1>6. Sum(FlowsOf(m), DOMAIN m) + 0 = Cardinality({})
  BY <1>2, <1>3, <1>4
<1>7. ExposedIs(m, 0, h, U, {})
  BY <1>2, <1>3, <1>5, <1>6 DEF ExposedIs
<1> QED  BY <1>1, <1>7

\* A flow more to a service that is known or fits.
LEMMA ExposedMore ==
  ASSUME NEW h, NEW U, IsFiniteSet(U), \A e \in U : e.time \in Nat /\ e.bytes \in Nat,
         NEW S \in SUBSET U, NEW e \in U, e \notin S, NEW m, NEW dropped, ExposedIs(m, dropped, h, U, S),
         h[e] \in DOMAIN m \/ Cardinality(DOMAIN m) < MaxKeys,
         NEW n, n = [k \in DOMAIN n |-> n[k]], Changed(n, m, {h[e]}), n[h[e]] = ServiceHit(ValueAt(m, h[e], NoService), e)
  PROVE  ExposedIs(n, dropped, h, U, S \cup {e})
<1>1. PICK D, a : D = DOMAIN m /\ a = h[e]
  OBVIOUS
<1>2. /\ D \subseteq FoundIn(h, S) /\ IsFiniteSet(D) /\ Cardinality(D) <= MaxKeys
      /\ \A k \in D : m[k].flows \in Nat /\ m[k].flows > 0
      /\ dropped \in Nat /\ Sum(FlowsOf(m), D) + dropped = Cardinality(S)
      /\ dropped > 0 => Cardinality(D) = MaxKeys
      /\ dropped = 0 => ServicesBy(m, h, U, S)
  BY <1>1 DEF ExposedIs
<1>3. DOMAIN n = D \cup {a} /\ \A k \in D : k # a => n[k] = m[k]
  BY <1>1 DEF Changed
<1>4. PICK c, r, one : c = FlowsOf(m) /\ r = FlowsOf(n) /\ one = [k \in {a} |-> 1]
  OBVIOUS
<1>5. DOMAIN c = D /\ (\A k \in D : c[k] = m[k].flows) /\ DOMAIN r = D \cup {a} /\ \A k \in D \cup {a} : r[k] = n[k].flows
  BY <1>1, <1>3, <1>4 DEF FlowsOf
<1>6. \A k \in D : c[k] \in Nat
  BY <1>2, <1>5
<1>7. ValueAt(c, a, 0) \in Nat /\ r[a] = ValueAt(c, a, 0) + 1
  <2>1. ValueAt(m, a, NoService).flows = ValueAt(c, a, 0)
    BY <1>1, <1>5 DEF ValueAt, NoService
  <2>2. n[a].flows = ValueAt(m, a, NoService).flows + 1
    BY <1>1 DEF ServiceHit
  <2>3. ValueAt(c, a, 0) \in Nat
    BY <1>1, <1>5, <1>6 DEF ValueAt
  <2> QED  BY <1>5, <2>1, <2>2, <2>3
<1>8. Joined(r, c, {a}, one)
  <2>1. one[a] = 1
    BY <1>4
  <2>2. \A k \in D : k # a => r[k] = ValueAt(c, k, 0) + 0
    BY <1>3, <1>5, <1>6 DEF ValueAt
  <2>3. \A k \in DOMAIN r : r[k] = ValueAt(c, k, 0) + (IF k \in {a} THEN one[k] ELSE 0)
    BY <1>5, <1>7, <2>1, <2>2
  <2> QED  BY <1>5, <2>3 DEF Joined
<1>9. Sum(r, DOMAIN r) = Sum(c, D) + 1 /\ Sum(c, D) \in Nat
  <2>1. IsFiniteSet({a}) /\ \A k \in {a} : one[k] \in Int
    BY <1>4, FS_Singleton
  <2>2. \A k \in DOMAIN c : c[k] \in Int
    BY <1>5, <1>6
  <2>3. Sum(r, DOMAIN r) = Sum(c, DOMAIN c) + Sum(one, {a})
    BY <1>2, <1>5, <1>8, <2>1, <2>2, SumJoined
  <2>4. Sum(one, {a}) = one[a]
    BY <2>1, SumSingle
  <2>5. one[a] = 1
    BY <1>4
  <2>6. Sum(c, D) \in Nat
    BY <1>2, <1>6, SumNat
  <2> QED  BY <1>5, <2>3, <2>4, <2>5, <2>6
<1>10. IsFiniteSet(S) /\ Cardinality(S \cup {e}) = Cardinality(S) + 1 /\ Cardinality(S) \in Nat
  BY FS_Subset, OneMore
<1>11. Sum(r, DOMAIN r) + dropped = Cardinality(S \cup {e})
  BY <1>2, <1>4, <1>9, <1>10
<1>12. PICK x \in Nat, M \in Nat : x = Cardinality(D) /\ M = MaxKeys
  BY <1>2, FS_CardinalityType, VpcLimitsAssumption
<1>13. IsFiniteSet(D \cup {a}) /\ Cardinality(D \cup {a}) = IF a \in D THEN x ELSE x + 1
  BY <1>2, <1>12, FS_AddElement
<1>14. Cardinality(D \cup {a}) <= MaxKeys /\ (dropped > 0 => Cardinality(D \cup {a}) = MaxKeys)
  BY <1>1, <1>2, <1>12, <1>13
<1>15. D \cup {a} \subseteq FoundIn(h, S \cup {e})
  BY <1>1, <1>2 DEF FoundIn
<1>16. ASSUME NEW k \in D \cup {a} PROVE n[k].flows \in Nat /\ n[k].flows > 0
  BY <1>2, <1>3, <1>5, <1>7
<1>17. dropped = 0 => ServicesBy(n, h, U, S \cup {e})
  BY <1>2, ServicesAdd
<1> QED  BY <1>2, <1>3, <1>4, <1>5, <1>11, <1>13, <1>14, <1>15, <1>16, <1>17 DEF ExposedIs

\* A flow to one that does not fit.
LEMMA ExposedLost ==
  ASSUME NEW h, NEW U, IsFiniteSet(U), NEW S \in SUBSET U, NEW e \in U, e \notin S, NEW m, NEW dropped,
         ExposedIs(m, dropped, h, U, S), ~(h[e] \in DOMAIN m \/ Cardinality(DOMAIN m) < MaxKeys)
  PROVE  ExposedIs(m, dropped + 1, h, U, S \cup {e})
<1>1. PICK D : D = DOMAIN m
  OBVIOUS
<1>2. /\ m = [k \in D |-> m[k]] /\ D \subseteq FoundIn(h, S) /\ IsFiniteSet(D) /\ Cardinality(D) <= MaxKeys
      /\ \A k \in D : m[k].flows \in Nat /\ m[k].flows > 0
      /\ dropped \in Nat /\ Sum(FlowsOf(m), D) + dropped = Cardinality(S)
  BY <1>1 DEF ExposedIs
<1>3. IsFiniteSet(S) /\ Cardinality(S \cup {e}) = Cardinality(S) + 1 /\ Cardinality(S) \in Nat
  BY FS_Subset, OneMore
<1>4. PICK c : c = FlowsOf(m)
  OBVIOUS
<1>5. \A k \in D : c[k] \in Nat
  BY <1>1, <1>2, <1>4 DEF FlowsOf
<1>6. Sum(c, D) \in Nat
  BY <1>2, <1>5, SumNat
<1>7. Sum(c, D) + (dropped + 1) = Cardinality(S \cup {e})
  BY <1>2, <1>3, <1>4, <1>6
<1>8. PICK x \in Nat, M \in Nat : x = Cardinality(D) /\ M = MaxKeys
  BY <1>2, FS_CardinalityType, VpcLimitsAssumption
<1>9. Cardinality(D) = MaxKeys
  BY <1>1, <1>2, <1>8
<1>10. D \subseteq FoundIn(h, S \cup {e})
  BY <1>2 DEF FoundIn
<1>11. dropped + 1 \in Nat /\ dropped + 1 # 0
  BY <1>2
<1> QED  BY <1>1, <1>2, <1>4, <1>7, <1>9, <1>10, <1>11 DEF ExposedIs

\* What a merge of exposed services may come to.
ExposedOut(r, m, o, M, O, fit, new) ==
  /\ new = O \ M /\ fit \in SUBSET new /\ Cardinality(fit) = Min({Room(m, MaxKeys), Cardinality(new)})
  /\ r.map = [k \in M \cup fit |-> r.map[k]]
  /\ \A k \in M \cup fit : IF k \in O THEN r.map[k] \in mergeService(ValueAt(m, k, NoService), o[k]) ELSE r.map[k] = m[k]
  /\ r.dropped = Sum(FlowsOf(o), new \ fit)

\* Every outcome of a merge of exposed services is of this form.
LEMMA ExposedMergeIs ==
  ASSUME NEW m, NEW o, IsFiniteSet(DOMAIN o), NEW r \in exposedMerge(m, o)
  PROVE  \E fit, new : ExposedOut(r, m, o, DOMAIN m, DOMAIN o, fit, new)
<1>1. PICK M, O, new : M = DOMAIN m /\ O = DOMAIN o /\ new = O \ M
  OBVIOUS
<1> DEFINE lost(fit) == Sum([k \in O |-> o[k].flows], new \ fit)
           size == Min({Room(m, MaxKeys), Cardinality(new)})
           outs(fit) == {[map |-> over(f, m), dropped |-> lost(fit)] :
                f \in EveryPick([k \in fit \cup (O \ new) |-> mergeService(ValueAt(m, k, NoService), o[k])])}
<1>2. exposedMerge(m, o) = UNION {outs(fit) : fit \in kSubset(size, new)}
  BY <1>1 DEF exposedMerge
<1>3. \A fit : lost(fit) = Sum(FlowsOf(o), new \ fit)
  BY <1>1 DEF FlowsOf
<1> HIDE DEF lost, outs, size
<1>4. PICK fit \in kSubset(size, new) : r \in outs(fit)
  BY <1>2
<1>5. fit \in SUBSET new /\ Cardinality(fit) = size
  BY <1>4 DEF kSubset
<1>6. PICK N : N = fit \cup (O \ new)
  OBVIOUS
<1>7. PICK c : c = [k \in N |-> mergeService(ValueAt(m, k, NoService), o[k])]
  OBVIOUS
<1>8. outs(fit) = {[map |-> over(f, m), dropped |-> lost(fit)] : f \in EveryPick(c)}
  BY <1>6, <1>7 DEF outs
<1>9. PICK p \in EveryPick(c) : r = [map |-> over(p, m), dropped |-> lost(fit)]
  BY <1>4, <1>8
<1>10. DOMAIN c = N /\ IsFiniteSet(N) /\ N \subseteq O
  <2>1. N \in SUBSET O
    BY <1>1, <1>5, <1>6
  <2>2. IsFiniteSet(N)
    BY <1>1, <2>1, FS_Subset
  <2> QED  BY <1>7, <2>1, <2>2
<1>11. DOMAIN p = N /\ \A s \in N : p[s] \in c[s]
  BY <1>9, <1>10, PickIs
<1>12. PICK q : q = over(p, m)
  OBVIOUS
<1>13. q = [k \in N \cup M |-> IF k \in N THEN p[k] ELSE m[k]]
  BY <1>1, <1>11, <1>12 DEF over
<1>14. N \cup M = M \cup fit
  BY <1>1, <1>5, <1>6
<1>15. q = [k \in M \cup fit |-> q[k]] /\ \A k \in M \cup fit : q[k] = IF k \in N THEN p[k] ELSE m[k]
  BY <1>13, <1>14
<1>16. r.map = q /\ r.dropped = Sum(FlowsOf(o), new \ fit)
  BY <1>3, <1>9, <1>12
<1>17. ASSUME NEW k \in M \cup fit
       PROVE  IF k \in O THEN q[k] \in mergeService(ValueAt(m, k, NoService), o[k]) ELSE q[k] = m[k]
  <2>1. CASE k \in O
    <3>1. k \in N
      BY <1>1, <1>6, <2>1
    <3> QED  BY <1>7, <1>11, <1>15, <2>1, <3>1
  <2>2. CASE k \notin O
    <3>1. k \notin N
      BY <1>10, <2>2
    <3> QED  BY <1>15, <2>2, <3>1
  <2> QED  BY <2>1, <2>2
<1>18. Cardinality(fit) = Min({Room(m, MaxKeys), Cardinality(new)})
  BY <1>5 DEF size
<1>19. ExposedOut(r, m, o, M, O, fit, new)
  BY <1>1, <1>5, <1>15, <1>16, <1>17, <1>18 DEF ExposedOut
<1> QED  BY <1>1, <1>19

\* The exposed services of two summaries: those that do not fit are counted by their flows.
LEMMA ExposedJoin ==
  ASSUME NEW h, NEW U, IsFiniteSet(U), \A e \in U : e.time \in Nat /\ e.bytes \in Nat,
         NEW S \in SUBSET U, NEW T \in SUBSET U, S \cap T = {},
         NEW m, NEW a, ExposedIs(m, a, h, U, S), NEW o, NEW b, ExposedIs(o, b, h, U, T), NEW r \in exposedMerge(m, o)
  PROVE  ExposedIs(r.map, a + b + r.dropped, h, U, S \cup T)
<1>1. PICK M, O : M = DOMAIN m /\ O = DOMAIN o
  OBVIOUS
<1>2. /\ M \subseteq FoundIn(h, S) /\ IsFiniteSet(M) /\ Cardinality(M) <= MaxKeys
      /\ \A k \in M : m[k].flows \in Nat /\ m[k].flows > 0
      /\ a \in Nat /\ Sum(FlowsOf(m), M) + a = Cardinality(S)
      /\ a > 0 => Cardinality(M) = MaxKeys
      /\ a = 0 => ServicesBy(m, h, U, S)
  BY <1>1 DEF ExposedIs
<1>3. /\ O \subseteq FoundIn(h, T) /\ IsFiniteSet(O) /\ Cardinality(O) <= MaxKeys
      /\ \A k \in O : o[k].flows \in Nat /\ o[k].flows > 0
      /\ b \in Nat /\ Sum(FlowsOf(o), O) + b = Cardinality(T)
      /\ b > 0 => Cardinality(O) = MaxKeys
      /\ b = 0 => ServicesBy(o, h, U, T)
  BY <1>1 DEF ExposedIs
<1>4. PICK fit, new : ExposedOut(r, m, o, M, O, fit, new)
  BY <1>1, <1>3, ExposedMergeIs
<1>5. PICK q, lost : q = r.map /\ lost = r.dropped
  OBVIOUS
<1>6. /\ new = O \ M /\ fit \in SUBSET new /\ Cardinality(fit) = Min({Room(m, MaxKeys), Cardinality(new)})
      /\ q = [k \in M \cup fit |-> q[k]]
      /\ \A k \in M \cup fit : IF k \in O THEN q[k] \in mergeService(ValueAt(m, k, NoService), o[k]) ELSE q[k] = m[k]
      /\ lost = Sum(FlowsOf(o), new \ fit)
  BY <1>4, <1>5 DEF ExposedOut
<1>7. DOMAIN q = M \cup fit
  BY <1>6
<1>8. IsFiniteSet(new) /\ IsFiniteSet(fit) /\ IsFiniteSet(new \ fit) /\ M \cap fit = {} /\ IsFiniteSet(M \cup fit)
  BY <1>2, <1>3, <1>6, FS_Subset, FS_Difference, FS_Union
<1>9. PICK x \in Nat, y \in Nat, z \in Nat, X \in Nat :
        x = Cardinality(M) /\ y = Cardinality(O) /\ z = Cardinality(new) /\ X = MaxKeys
  BY <1>2, <1>3, <1>8, FS_CardinalityType, VpcLimitsAssumption
<1>10. x <= X /\ y <= X
  BY <1>2, <1>3, <1>9
<1>11. Cardinality(fit) = IF X - x <= z THEN X - x ELSE z
  <2>1. Room(m, MaxKeys) = X - x
    BY <1>1, <1>9, <1>10 DEF Room
  <2>2. X - x \in Int /\ z \in Int
    OBVIOUS
  <2>3. Min({X - x, z}) = IF X - x <= z THEN X - x ELSE z
    BY <2>2, LesserIs
  <2> QED  BY <1>6, <1>9, <2>1, <2>3
<1>12. Cardinality(M \cup fit) = x + Cardinality(fit)
  BY <1>2, <1>8, <1>9, ApartAddUp
<1>13. Cardinality(M \cup fit) = IF X - x <= z THEN X ELSE x + z
  BY <1>10, <1>11, <1>12
<1>14. Cardinality(M \cup fit) <= MaxKeys
  BY <1>9, <1>10, <1>13
<1>15. M \cup fit \subseteq FoundIn(h, S \cup T)
  <2>1. FoundIn(h, S \cup T) = FoundIn(h, S) \cup FoundIn(h, T)
    BY DEF FoundIn
  <2> QED  BY <1>2, <1>3, <1>6, <2>1
<1>16. PICK c, d, g : c = FlowsOf(m) /\ d = FlowsOf(o) /\ g = FlowsOf(q)
  OBVIOUS
<1>17. /\ DOMAIN c = M /\ DOMAIN d = O /\ DOMAIN g = M \cup fit
       /\ \A k \in M : c[k] = m[k].flows /\ c[k] \in Nat
       /\ \A k \in O : d[k] = o[k].flows /\ d[k] \in Nat /\ d[k] > 0
       /\ \A k \in M \cup fit : g[k] = q[k].flows
  BY <1>1, <1>2, <1>3, <1>7, <1>16 DEF FlowsOf
<1>18. PICK N : N = O \ (new \ fit)
  OBVIOUS
<1>19. N \subseteq O /\ M \cup N = M \cup fit /\ N \cap (new \ fit) = {} /\ N \cup (new \ fit) = O /\ IsFiniteSet(N)
       /\ \A k \in M \cup fit : k \in N <=> k \in O
  <2>1. N \in SUBSET O
    BY <1>18
  <2>2. IsFiniteSet(N)
    BY <1>3, <2>1, FS_Subset
  <2> QED  BY <1>6, <1>18, <2>2
<1>20. \A k : ValueAt(m, k, NoService).flows = ValueAt(c, k, 0) /\ ValueAt(c, k, 0) \in Nat
  BY <1>1, <1>17 DEF ValueAt, NoService
<1>21. \A k \in M \cup fit : g[k] = ValueAt(c, k, 0) + (IF k \in N THEN d[k] ELSE 0)
  <2> SUFFICES ASSUME NEW k \in M \cup fit PROVE g[k] = ValueAt(c, k, 0) + (IF k \in N THEN d[k] ELSE 0)
    OBVIOUS
  <2>1. CASE k \in O
    <3>1. q[k] \in mergeService(ValueAt(m, k, NoService), o[k])
      BY <1>6, <2>1
    <3>2. q[k].flows = ValueAt(m, k, NoService).flows + o[k].flows
      BY <3>1 DEF mergeService
    <3> QED  BY <1>17, <1>19, <1>20, <2>1, <3>2
  <2>2. CASE k \notin O
    <3>1. q[k] = m[k] /\ k \in M /\ k \notin N
      BY <1>6, <1>19, <2>2
    <3>2. ValueAt(c, k, 0) = c[k]
      BY <1>17, <3>1 DEF ValueAt
    <3> QED  BY <1>17, <3>1, <3>2
  <2> QED  BY <2>1, <2>2
<1>22. Sum(g, M \cup fit) = Sum(c, M) + Sum(d, N) /\ Sum(c, M) \in Nat /\ Sum(d, N) \in Nat
  <2>1. Joined(g, c, N, d)
    BY <1>17, <1>19, <1>21 DEF Joined
  <2>2. (\A k \in DOMAIN c : c[k] \in Int) /\ \A k \in N : d[k] \in Int
    BY <1>17, <1>19
  <2>3. Sum(g, DOMAIN g) = Sum(c, DOMAIN c) + Sum(d, N)
    BY <1>2, <1>17, <1>19, <2>1, <2>2, SumJoined
  <2>4. Sum(c, M) \in Nat
    BY <1>2, <1>17, SumNat
  <2>5. \A k \in N : d[k] \in Nat
    BY <1>17, <1>19
  <2>6. Sum(d, N) \in Nat
    BY <1>19, <2>5, SumNat
  <2> QED  BY <1>17, <2>3, <2>4, <2>6
<1>23. Sum(d, O) = Sum(d, N) + lost /\ lost \in Nat
  <2>1. \A k \in O : d[k] \in Int
    BY <1>17
  <2>2. N \in SUBSET O /\ new \ fit \in SUBSET O
    BY <1>6, <1>19
  <2>3. Sum(d, N \cup (new \ fit)) = Sum(d, N) + Sum(d, new \ fit)
    BY <1>3, <1>19, <2>1, <2>2, SumUnion
  <2>4. \A k \in new \ fit : d[k] \in Nat
    BY <1>17, <2>2
  <2>5. Sum(d, new \ fit) \in Nat
    BY <1>8, <2>4, SumNat
  <2> QED  BY <1>6, <1>16, <1>19, <2>3, <2>5
<1>24. lost = 0 => fit = new
  <2> SUFFICES ASSUME fit # new PROVE lost > 0
    BY <1>23
  <2>1. PICK k \in new \ fit : TRUE
    BY <1>6
  <2>2. PICK B : B = (new \ fit) \ {k}
    OBVIOUS
  <2>3. B \cup {k} = new \ fit /\ B \in SUBSET (new \ fit) /\ k \notin B /\ IsFiniteSet(B)
    <3>1. B \in SUBSET (new \ fit)
      BY <2>2
    <3>2. IsFiniteSet(B)
      BY <1>8, <3>1, FS_Subset
    <3> QED  BY <2>1, <2>2, <3>2
  <2>4. \A j \in new \ fit : d[j] \in Nat /\ d[j] > 0
    BY <1>6, <1>17
  <2>5. \A j \in new \ fit : d[j] \in Int
    BY <2>4
  <2>6. Sum(d, B \cup {k}) = Sum(d, B) + d[k]
    BY <1>8, <2>1, <2>3, <2>5, SumAdd
  <2>7. \A j \in B : d[j] \in Nat
    BY <2>3, <2>4
  <2>8. Sum(d, B) \in Nat
    BY <2>3, <2>7, SumNat
  <2>9. d[k] \in Nat /\ d[k] > 0
    BY <2>1, <2>4
  <2>10. lost = Sum(d, B) + d[k]
    BY <1>6, <1>16, <2>3, <2>6
  <2> QED  BY <2>8, <2>9, <2>10
<1>25. fit = new => lost = 0
  <2> SUFFICES ASSUME fit = new PROVE lost = 0
    OBVIOUS
  <2>1. new \ fit = {}
    OBVIOUS
  <2>2. Sum(d, {}) = 0
    BY SumEmpty
  <2> QED  BY <1>6, <1>16, <2>1, <2>2
<1>26. a + b + lost \in Nat /\ Sum(g, M \cup fit) + (a + b + lost) = Cardinality(S \cup T)
  <2>1. IsFiniteSet(S) /\ IsFiniteSet(T)
    BY FS_Subset
  <2>2. Cardinality(S \cup T) = Cardinality(S) + Cardinality(T)
    BY <2>1, ApartAddUp
  <2>3. Cardinality(S) = Sum(c, M) + a /\ Cardinality(T) = Sum(d, N) + lost + b
    BY <1>2, <1>3, <1>16, <1>22, <1>23
  <2> QED  BY <1>2, <1>3, <1>22, <1>23, <2>2, <2>3
<1>27. ASSUME a + b + lost > 0 PROVE Cardinality(M \cup fit) = MaxKeys
  <2>1. CASE a > 0
    <3>1. x = X
      BY <1>2, <1>9, <2>1
    <3>2. Cardinality(fit) = 0
      BY <1>11, <3>1
    <3> QED  BY <1>9, <1>12, <3>1, <3>2
  <2>2. CASE lost > 0
    <3>1. fit # new
      BY <1>23, <1>25, <2>2
    <3>2. Cardinality(fit) # z
      BY <1>6, <1>8, <1>9, <3>1, FS_Subset
    <3> QED  BY <1>9, <1>11, <1>13, <3>2
  <2>3. CASE b > 0 /\ lost = 0
    <3>1. fit = new /\ y = X
      BY <1>3, <1>9, <1>24, <2>3
    <3>2. O \subseteq M \cup fit
      BY <1>6, <3>1
    <3>3. y <= Cardinality(M \cup fit)
      BY <1>8, <1>9, <3>2, FS_Subset
    <3>4. PICK n \in Nat : n = Cardinality(M \cup fit)
      BY <1>8, FS_CardinalityType
    <3> QED  BY <1>9, <1>14, <3>1, <3>3, <3>4
  <2>4. a > 0 \/ lost > 0 \/ (b > 0 /\ lost = 0)
    BY <1>2, <1>3, <1>23, <1>27
  <2> QED  BY <2>1, <2>2, <2>3, <2>4
<1>28. ASSUME a + b + lost = 0 PROVE ServicesBy(q, h, U, S \cup T)
  <2>1. a = 0 /\ b = 0 /\ lost = 0
    BY <1>2, <1>3, <1>23, <1>28
  <2>2. fit = new /\ ServicesBy(m, h, U, S) /\ ServicesBy(o, h, U, T)
    BY <1>2, <1>3, <1>24, <2>1
  <2>3. Changed(q, m, DOMAIN o)
    <3>1. DOMAIN q = DOMAIN m \cup DOMAIN o
      BY <1>1, <1>6, <1>7, <2>2
    <3>2. \A k \in DOMAIN m \ DOMAIN o : q[k] = m[k]
      BY <1>1, <1>6
    <3> QED  BY <3>1, <3>2 DEF Changed
  <2>4. \A k \in DOMAIN o : q[k] \in mergeService(ValueAt(m, k, NoService), o[k])
    BY <1>1, <1>6, <2>2
  <2> QED  BY <2>2, <2>3, <2>4, ServicesMerge
<1>29. ASSUME NEW k \in M \cup fit PROVE q[k].flows \in Nat /\ q[k].flows > 0
  <2>1. CASE k \in N
    <3>1. d[k] \in Nat /\ d[k] > 0
      BY <1>17, <1>19, <2>1
    <3> QED  BY <1>17, <1>20, <1>21, <2>1, <3>1
  <2>2. CASE k \notin N
    <3>1. k \in M /\ q[k] = m[k]
      BY <1>6, <1>19, <2>2
    <3> QED  BY <1>2, <3>1
  <2> QED  BY <2>1, <2>2
<1> QED  BY <1>5, <1>6, <1>7, <1>8, <1>14, <1>15, <1>16, <1>26, <1>27, <1>28, <1>29 DEF ExposedIs

-----------------------------------------------------------------------------

\* The capped counters of a flow summary are finitely many.
LEMMA VpcCountersFinite == IsFiniteSet(vpcCounters)
<1>1. PICK A, B, C, D : /\ A = {"ByAction", "BytesByAction", "ByProtocol"} /\ B = {"ByDstPort", "ByInterface", "ByDirection"}
                        /\ C = {"BySrc", "ByDst", "PairBytes"} /\ D = {"RejectsBySrc", "EgressBytes", "Legacy"}
  OBVIOUS
<1>2. IsFiniteSet(A) /\ IsFiniteSet(B) /\ IsFiniteSet(C) /\ IsFiniteSet(D)
  BY <1>1, Few
<1>3. IsFiniteSet(A \cup B) /\ IsFiniteSet(C \cup D)
  BY <1>2, FS_Union
<1>4. IsFiniteSet((A \cup B) \cup (C \cup D))
  BY <1>3, FS_Union
<1>5. vpcCounters = (A \cup B) \cup (C \cup D)
  BY <1>1 DEF vpcCounters
<1> QED  BY <1>4, <1>5

\* The numbers of flows and status rows.
LEMMA VpcSumsAre ==
  ASSUME NEW U, \A e \in U : e.bytes \in Nat /\ e.packets \in Int
  PROVE  Table([e \in U |-> vpcSums(e)], vpcTotals, U)
<1>1. ASSUME NEW e \in U PROVE DOMAIN vpcSums(e) = vpcTotals /\ \A n \in vpcTotals : vpcSums(e)[n] \in Int
  <2>1. PICK a, b, c, d, f : /\ a = One(IsFlow(e)) /\ b = One(e.status = "NODATA") /\ c = One(e.status = "SKIPDATA")
                             /\ d = (IF IsFlow(e) THEN e.bytes ELSE 0) /\ f = (IF IsFlow(e) THEN e.packets ELSE 0)
    OBVIOUS
  <2>2. a \in Int /\ b \in Int /\ c \in Int
    BY Zenon, <2>1, Ones
  <2>3. d \in Int /\ f \in Int
    <3>1. (d = e.bytes \/ d = 0) /\ (f = e.packets \/ f = 0)
      BY Zenon, <2>1
    <3>2. e.bytes \in Int /\ e.packets \in Int
      OBVIOUS
    <3> QED  BY <3>1, <3>2
  <2>4. vpcSums(e) = [Flows |-> a, Bytes |-> d, Packets |-> f, NoData |-> b, SkipData |-> c]
    BY <2>1, Zenon DEF vpcSums
  <2> QED  BY <2>2, <2>3, <2>4 DEF vpcTotals
<1>2. PICK K : K = [e \in U |-> vpcSums(e)]
  OBVIOUS
<1>3. DOMAIN K = U /\ \A e \in U : K[e] = vpcSums(e)
  BY <1>2
<1>4. Table(K, vpcTotals, U)
  BY <1>1, <1>3 DEF Table
<1> QED  BY <1>2, <1>4

\* How much flows add to the capped counters.
LEMMA VpcCappedAre ==
  ASSUME NEW U, \A e \in U : e.bytes \in Nat
  PROVE  Weighing([e \in U |-> vpcCapped(e)], vpcCounters, U)
<1>1. ASSUME NEW e \in U, NEW n \in vpcCounters PROVE vpcCapped(e)[n].n \in Nat
  <2>1. PICK a, b, c, d :
          /\ a = (IF e.src # "" /\ e.dst # "" THEN e.bytes ELSE 0) /\ b = One(e.action = "REJECT")
          /\ c = (IF Egress(e) THEN e.bytes ELSE 0) /\ d = One(Legacy(e))
    OBVIOUS
  <2>2. b \in Nat /\ d \in Nat
    BY Zenon, <2>1, OnesAreNat
  <2>3. a \in Nat /\ c \in Nat
    <3>1. (a = e.bytes \/ a = 0) /\ (c = e.bytes \/ c = 0)
      BY Zenon, <2>1
    <3> QED  BY <3>1
  <2>5. PICK p, q, r : p = ProtocolName(e) /\ q = Service(e) /\ r = e.src \o " -> " \o e.dst
    OBVIOUS
  <2>4. PICK l : l = IF LegacyIn(e) THEN LegacyKey(e.dst, "in", Service(e)) ELSE LegacyKey(e.src, "out", Service(e))
    OBVIOUS
  <2>6. vpcCapped(e) = [ByAction |-> OneKey(e.action, 1), BytesByAction |-> OneKey(e.action, e.bytes), ByProtocol |-> OneKey(p, 1),
         ByDstPort |-> OneKey(q, 1), ByInterface |-> OneKey(e.eni, 1), ByDirection |-> OneKey(e.direction, 1),
         BySrc |-> OneKey(e.src, 1), ByDst |-> OneKey(e.dst, 1), PairBytes |-> OneKey(r, a),
         RejectsBySrc |-> OneKey(e.src, b), EgressBytes |-> OneKey(e.src, c), Legacy |-> OneKey(l, d)]
    BY <2>1, <2>4, <2>5, Zenon DEF vpcCapped
  <2>7. \A k, m : OneKey(k, m).n = m
    BY DEF OneKey
  <2>8. PICK x : x = vpcCapped(e)
    OBVIOUS
  <2>9. /\ x.ByAction.n = 1 /\ x.BytesByAction.n = e.bytes /\ x.ByProtocol.n = 1 /\ x.ByDstPort.n = 1 /\ x.ByInterface.n = 1
        /\ x.ByDirection.n = 1 /\ x.BySrc.n = 1 /\ x.ByDst.n = 1 /\ x.PairBytes.n = a /\ x.RejectsBySrc.n = b
        /\ x.EgressBytes.n = c /\ x.Legacy.n = d
    BY <2>6, <2>7, <2>8
  <2>10. x[n].n \in {1, e.bytes, a, b, c, d}
    BY <2>9 DEF vpcCounters
  <2> QED  BY <2>2, <2>3, <2>8, <2>10
<1>2. PICK K : K = [e \in U |-> vpcCapped(e)]
  OBVIOUS
<1>3. DOMAIN K = U /\ \A e \in U : K[e] = vpcCapped(e)
  BY <1>2
<1>4. Weighing(K, vpcCounters, U)
  BY <1>1, <1>3, VpcCountersFinite DEF Weighing
<1> QED  BY <1>2, <1>4

\* vpcMerge, field by field.
VpcRecord(s) ==
  s = [sums |-> s.sums, span |-> s.span, capped |-> s.capped, ByHour |-> s.ByHour, ScanPorts |-> s.ScanPorts, Sweep |-> s.Sweep,
       Exposed |-> s.Exposed, ExposedDropped |-> s.ExposedDropped]
VpcMerged(r, s, o) ==
  /\ VpcRecord(r) /\ r.sums = plus(s.sums, o.sums) /\ r.span = widen(s.span, o.span)
  /\ r.capped \in EveryPick([n \in vpcCounters |-> capMerge(s.capped[n], o.capped[n], MaxKeys)])
  /\ Changed(r.ByHour, s.ByHour, DOMAIN o.ByHour) /\ Fn(r.ByHour)
  /\ \A k \in DOMAIN o.ByHour : r.ByHour[k] \in HourMerge(ValueAt(s.ByHour, k, EmptyBag), o.ByHour[k])
  /\ r.ScanPorts \in DistinctMerge(s.ScanPorts, o.ScanPorts, ScanPorts) /\ r.Sweep \in DistinctMerge(s.Sweep, o.Sweep, SweepHosts)
  /\ \E x \in exposedMerge(s.Exposed, o.Exposed) :
       r.Exposed = x.map /\ r.ExposedDropped = s.ExposedDropped + o.ExposedDropped + x.dropped

\* Every outcome of vpcMerge is of this form.
LEMMA VpcMergeIs ==
  ASSUME NEW s, NEW o, IsFiniteSet(DOMAIN o.ByHour), NEW r \in vpcMerge(s, o)
  PROVE  VpcMerged(r, s, o)
<1> DEFINE hours == EveryPick([t \in DOMAIN o.ByHour |-> capMerge(ValueAt(s.ByHour, t, EmptyBag), o.ByHour[t], MaxKeys)])
           counters == EveryPick([n \in vpcCounters |-> capMerge(s.capped[n], o.capped[n], MaxKeys)])
           scans == DistinctMerge(s.ScanPorts, o.ScanPorts, ScanPorts)
           sweeps == DistinctMerge(s.Sweep, o.Sweep, SweepHosts)
           services == exposedMerge(s.Exposed, o.Exposed)
<1>0. vpcMerge(s, o) = {[sums |-> plus(s.sums, o.sums), span |-> widen(s.span, o.span), capped |-> c, ByHour |-> over(h, s.ByHour),
             ScanPorts |-> p, Sweep |-> w, Exposed |-> x.map, ExposedDropped |-> s.ExposedDropped + o.ExposedDropped + x.dropped] :
           c \in counters, h \in hours, p \in scans, w \in sweeps, x \in services}
  BY DEF vpcMerge
<1>h. PICK H, C, P, W, X : H = hours /\ C = counters /\ P = scans /\ W = sweeps /\ X = services
  OBVIOUS
<1>1. PICK c \in C, h \in H, p \in P, w \in W, x \in X :
        r = [sums |-> plus(s.sums, o.sums), span |-> widen(s.span, o.span), capped |-> c, ByHour |-> over(h, s.ByHour),
             ScanPorts |-> p, Sweep |-> w, Exposed |-> x.map, ExposedDropped |-> s.ExposedDropped + o.ExposedDropped + x.dropped]
  <2> HIDE DEF hours, counters, scans, sweeps, services
  <2> QED  BY <1>0, <1>h
<1>2. /\ r.sums = plus(s.sums, o.sums) /\ r.span = widen(s.span, o.span) /\ r.capped = c /\ r.ByHour = over(h, s.ByHour)
      /\ r.ScanPorts = p /\ r.Sweep = w /\ r.Exposed = x.map /\ r.ExposedDropped = s.ExposedDropped + o.ExposedDropped + x.dropped
      /\ VpcRecord(r)
  BY <1>1 DEF VpcRecord
<1>3. PICK sets : sets = [t \in DOMAIN o.ByHour |-> capMerge(ValueAt(s.ByHour, t, EmptyBag), o.ByHour[t], MaxKeys)]
  OBVIOUS
<1>4. DOMAIN sets = DOMAIN o.ByHour /\ h \in EveryPick(sets)
      /\ \A t \in DOMAIN o.ByHour : sets[t] = HourMerge(ValueAt(s.ByHour, t, EmptyBag), o.ByHour[t])
  BY <1>h, <1>3 DEF HourMerge
<1>5. DOMAIN h = DOMAIN o.ByHour /\ \A t \in DOMAIN o.ByHour : h[t] \in sets[t]
  BY <1>4, PickIs
<1>6. r.ByHour = [k \in DOMAIN h \cup DOMAIN s.ByHour |-> IF k \in DOMAIN h THEN h[k] ELSE s.ByHour[k]]
  BY <1>2 DEF over
<1>7. Changed(r.ByHour, s.ByHour, DOMAIN o.ByHour) /\ Fn(r.ByHour)
      /\ \A k \in DOMAIN o.ByHour : r.ByHour[k] \in HourMerge(ValueAt(s.ByHour, k, EmptyBag), o.ByHour[k])
  BY <1>4, <1>5, <1>6 DEF Changed, Fn
<1>8. /\ r.capped \in EveryPick([n \in vpcCounters |-> capMerge(s.capped[n], o.capped[n], MaxKeys)])
      /\ r.ScanPorts \in DistinctMerge(s.ScanPorts, o.ScanPorts, ScanPorts) /\ r.Sweep \in DistinctMerge(s.Sweep, o.Sweep, SweepHosts)
      /\ x \in exposedMerge(s.Exposed, o.Exposed)
  BY <1>h, <1>2
<1> QED  BY <1>2, <1>7, <1>8 DEF VpcMerged

\* vpcAdd, field by field.
FitsIn(m, k) == k \in DOMAIN m \/ Cardinality(DOMAIN m) < MaxKeys
HourKeys(e) == IF e.time = 0 THEN {} ELSE {Hour[e.time]}
ServiceKeys(m, e) == IF Exposure(e) /\ FitsIn(m, exposedKey(e)) THEN {exposedKey(e)} ELSE {}
VpcAdded(r, s, e) ==
  /\ VpcRecord(r) /\ r.sums = plus(s.sums, vpcSums(e)) /\ r.span = widen(s.span, At(e.time))
  /\ r.capped = [c \in DOMAIN s.capped |-> capAdd(s.capped[c], vpcCapped(e)[c].key, vpcCapped(e)[c].n, MaxKeys)]
  /\ Changed(r.ByHour, s.ByHour, HourKeys(e)) /\ \A k \in HourKeys(e) : r.ByHour[k] = HourHit(ValueAt(s.ByHour, k, EmptyBag), e)
  /\ r.ScanPorts = IF Probe(e) THEN DistinctAdd(s.ScanPorts, e.src, e.dstport, ScanPorts) ELSE s.ScanPorts
  /\ r.Sweep = IF Swept(e) THEN DistinctAdd(s.Sweep, e.src, e.dst, SweepHosts) ELSE s.Sweep
  /\ r.Exposed = [k \in DOMAIN r.Exposed |-> r.Exposed[k]] /\ Changed(r.Exposed, s.Exposed, ServiceKeys(s.Exposed, e))
  /\ \A k \in ServiceKeys(s.Exposed, e) : r.Exposed[k] = ServiceHit(ValueAt(s.Exposed, k, NoService), e)
  /\ r.ExposedDropped = s.ExposedDropped + One(Exposure(e) /\ ~FitsIn(s.Exposed, exposedKey(e)))

\* vpcAdd is of this form.
LEMMA VpcAddIs ==
  ASSUME NEW s, NEW e
  PROVE  VpcAdded(vpcAdd(s, e), s, e)
<1>1. PICK r : r = vpcAdd(s, e)
  OBVIOUS
<1>2. PICK N, K, fits : N = HourKeys(e) /\ K = ServiceKeys(s.Exposed, e) /\ fits = FitsIn(s.Exposed, exposedKey(e))
  OBVIOUS
<1>3. PICK hours : hours = [k \in DOMAIN s.ByHour \cup N |-> IF k \in N THEN capAdd(ValueAt(s.ByHour, k, EmptyBag), e.action, 1, MaxKeys) ELSE s.ByHour[k]]
  OBVIOUS
<1>4. PICK exposed : exposed = [k \in DOMAIN s.Exposed \cup K |-> IF k \in K THEN ServiceHit(ValueAt(s.Exposed, k, NoService), e) ELSE s.Exposed[k]]
  OBVIOUS
<1>5. PICK c, p, w, d : /\ c = [i \in DOMAIN s.capped |-> capAdd(s.capped[i], vpcCapped(e)[i].key, vpcCapped(e)[i].n, MaxKeys)]
                        /\ p = IF Probe(e) THEN DistinctAdd(s.ScanPorts, e.src, e.dstport, ScanPorts) ELSE s.ScanPorts
                        /\ w = IF Swept(e) THEN DistinctAdd(s.Sweep, e.src, e.dst, SweepHosts) ELSE s.Sweep
                        /\ d = s.ExposedDropped + One(Exposure(e) /\ ~fits)
  OBVIOUS
<1>6. r = [sums |-> plus(s.sums, vpcSums(e)), span |-> widen(s.span, At(e.time)), capped |-> c, ByHour |-> hours, ScanPorts |-> p, Sweep |-> w,
           Exposed |-> exposed, ExposedDropped |-> d]
  BY <1>1, <1>2, <1>3, <1>4, <1>5, Zenon DEF vpcAdd, into, FitsIn, HourKeys, ServiceKeys, ServiceHit
<1>7. /\ r.sums = plus(s.sums, vpcSums(e)) /\ r.span = widen(s.span, At(e.time)) /\ r.capped = c /\ r.ByHour = hours /\ r.ScanPorts = p
      /\ r.Sweep = w /\ r.Exposed = exposed /\ r.ExposedDropped = d /\ VpcRecord(r)
  BY <1>6 DEF VpcRecord
<1>8. Changed(hours, s.ByHour, N) /\ \A k \in N : hours[k] = HourHit(ValueAt(s.ByHour, k, EmptyBag), e)
  BY <1>3 DEF Changed, HourHit
<1>9. /\ exposed = [k \in DOMAIN exposed |-> exposed[k]] /\ Changed(exposed, s.Exposed, K)
      /\ \A k \in K : exposed[k] = ServiceHit(ValueAt(s.Exposed, k, NoService), e)
  BY <1>4 DEF Changed
<1> QED  BY <1>1, <1>2, <1>5, <1>7, <1>8, <1>9, Zenon DEF VpcAdded

\* The summary of the flows F, and of flows and status rows S.
CappedIn(U) == [e \in U |-> vpcCapped(e)]
SumsIn(U) == [e \in U |-> vpcSums(e)]
HoursIn(U) == [e \in U |-> Hour[e.time]]
PortsIn(U) == [e \in U |-> e.dstport]
DstsIn(U) == [e \in U |-> e.dst]
ServicesIn(U) == [e \in U |-> exposedKey(e)]
ProbesOf(F) == {e \in F : Probe(e)}
SweepsOf(F) == {e \in F : Swept(e)}
ExposuresOf(F) == {e \in F : Exposure(e)}
FlowRows(S) == {e \in S : IsFlow(e)}
FlowsRep(s, F, U) ==
  /\ SpanIs(s.span, F) /\ CapsAre(s.capped, CappedIn(U), vpcCounters, F)
  /\ HoursBy(s.ByHour, HoursIn(U), U, Timed(F))
  /\ DistinctIs(s.ScanPorts, SrcsIn(U), PortsIn(U), ProbesOf(F), ScanPorts)
  /\ DistinctIs(s.Sweep, SrcsIn(U), DstsIn(U), SweepsOf(F), SweepHosts)
  /\ ExposedIs(s.Exposed, s.ExposedDropped, ServicesIn(U), U, ExposuresOf(F))
VpcRep(s, S, U) == VpcRecord(s) /\ SumsAre(s.sums, SumsIn(U), vpcTotals, S) /\ FlowsRep(s, FlowRows(S), U)
vpcPut(s, e) == IF IsFlow(e) THEN vpcAdd(s, e) ELSE AddStatus(s, e)
VpcTyped(U) == \A e \in U : e.time \in Nat /\ e.bytes \in Nat /\ e.packets \in Int

\* A new flow summary is that of no flow.
LEMMA FlowsStart ==
  ASSUME NEW U, IsFiniteSet(U), VpcTyped(U)
  PROVE  FlowsRep(NewVPCSummary, {}, U) /\ VpcRecord(NewVPCSummary) /\ NewVPCSummary.sums = NoSums(vpcTotals)
<1>1. PICK n : n = NewVPCSummary
  OBVIOUS
<1>2. /\ n.span = NoSpan /\ n.capped = NoKeys(vpcCounters) /\ n.ByHour = <<>> /\ n.ScanPorts = NoDistinct /\ n.Sweep = NoDistinct
      /\ n.Exposed = <<>> /\ n.ExposedDropped = 0 /\ n.sums = NoSums(vpcTotals) /\ VpcRecord(n)
  BY <1>1 DEF NewVPCSummary, VpcRecord
<1>3. Timed({}) = {} /\ ProbesOf({}) = {} /\ SweepsOf({}) = {} /\ ExposuresOf({}) = {}
  BY DEF Timed, ProbesOf, SweepsOf, ExposuresOf
<1>4. SpanIs(NoSpan, {})
  BY SpanStart
<1>5. CapsAre(NoKeys(vpcCounters), CappedIn(U), vpcCounters, {})
  <2>1. PICK C : C = CappedIn(U)
    OBVIOUS
  <2>2. \A e \in U : e.bytes \in Nat
    BY DEF VpcTyped
  <2>3. Weighing(C, vpcCounters, U)
    BY <2>1, <2>2, VpcCappedAre DEF CappedIn
  <2>4. CapsAre(NoKeys(vpcCounters), C, vpcCounters, {})
    BY <2>3, CapsRules
  <2> QED  BY <2>1, <2>4
<1>6. HoursBy(<<>>, HoursIn(U), U, {})
  BY DEF HoursBy, KeyedBy, KeySet
<1>7. /\ DistinctIs(NoDistinct, SrcsIn(U), PortsIn(U), {}, ScanPorts)
      /\ DistinctIs(NoDistinct, SrcsIn(U), DstsIn(U), {}, SweepHosts)
      /\ ExposedIs(<<>>, 0, ServicesIn(U), U, {})
  BY DistinctStart, ExposedStart
<1> QED  BY <1>1, <1>2, <1>3, <1>4, <1>5, <1>6, <1>7 DEF FlowsRep

\* A tracker of those of the entries that P holds of, with an entry more.
LEMMA DistinctOneMore ==
  ASSUME NEW f, NEW g, NEW A, NEW B, NEW e, NEW n \in Nat, NEW d, DistinctIs(d, f, g, A, n), NEW p \in BOOLEAN,
         B = IF p THEN A \cup {e} ELSE A
  PROVE  DistinctIs(IF p THEN DistinctAdd(d, f[e], g[e], n) ELSE d, f, g, B, n)
<1>1. CASE p
  <2>1. DistinctIs(DistinctAdd(d, f[e], g[e], n), f, g, A \cup {e}, n)
    BY DistinctMore
  <2> QED  BY <1>1, <2>1
<1>2. CASE ~p
  BY <1>2
<1> QED  BY <1>1, <1>2

\* A flow summary with a flow more.
LEMMA FlowsMore ==
  ASSUME NEW U, IsFiniteSet(U), VpcTyped(U), NEW F \in SUBSET U, NEW e \in U, e \notin F, NEW s, FlowsRep(s, F, U),
         NEW r, VpcAdded(r, s, e)
  PROVE  FlowsRep(r, F \cup {e}, U)
<1>1. PICK C, h, a, p, q, x : /\ C = CappedIn(U) /\ h = HoursIn(U) /\ a = SrcsIn(U) /\ p = PortsIn(U) /\ q = DstsIn(U)
                              /\ x = ServicesIn(U)
  OBVIOUS
<1>2. C[e] = vpcCapped(e) /\ h[e] = Hour[e.time] /\ a[e] = e.src /\ p[e] = e.dstport /\ q[e] = e.dst /\ x[e] = exposedKey(e)
  BY <1>1 DEF CappedIn, HoursIn, SrcsIn, PortsIn, DstsIn, ServicesIn
<1>3. /\ SpanIs(s.span, F) /\ CapsAre(s.capped, C, vpcCounters, F) /\ HoursBy(s.ByHour, h, U, Timed(F))
      /\ DistinctIs(s.ScanPorts, a, p, ProbesOf(F), ScanPorts) /\ DistinctIs(s.Sweep, a, q, SweepsOf(F), SweepHosts)
      /\ ExposedIs(s.Exposed, s.ExposedDropped, x, U, ExposuresOf(F))
  BY <1>1, Zenon DEF FlowsRep
<1>4. \A y \in U : y.time \in Nat /\ y.bytes \in Nat
  BY DEF VpcTyped
<1>5. Timed(F) \in SUBSET U /\ ExposuresOf(F) \in SUBSET U /\ e \notin Timed(F) /\ e \notin ExposuresOf(F)
  BY DEF Timed, ExposuresOf
<1>6. SpanIs(r.span, F \cup {e})
  <2>1. \A y \in U : y.time \in Nat
    BY <1>4
  <2>2. SpanIs(widen(s.span, At(e.time)), F \cup {e})
    BY <1>3, <2>1, SpanRules
  <2> QED  BY <2>2 DEF VpcAdded
<1>7. CapsAre(r.capped, C, vpcCounters, F \cup {e})
  <2>1. \A y \in U : y.bytes \in Nat
    BY <1>4
  <2>2. Weighing(C, vpcCounters, U)
    BY <1>1, <2>1, VpcCappedAre DEF CappedIn
  <2>3. PICK c : c = s.capped
    OBVIOUS
  <2>4. CapsAre([i \in DOMAIN c |-> capAdd(c[i], C[e][i].key, C[e][i].n, MaxKeys)], C, vpcCounters, F \cup {e})
    BY SMTT(40), <1>3, <2>2, <2>3, CapsRules
  <2>5. r.capped = [i \in DOMAIN c |-> capAdd(c[i], C[e][i].key, C[e][i].n, MaxKeys)]
    BY <1>2, <2>3 DEF VpcAdded
  <2> QED  BY <2>4, <2>5
<1>8. HoursBy(r.ByHour, h, U, Timed(F \cup {e}))
  <2>1. PICK A, m, n : A = Timed(F) /\ m = s.ByHour /\ n = r.ByHour
    OBVIOUS
  <2>2. Changed(n, m, HourKeys(e)) /\ \A k \in HourKeys(e) : n[k] = HourHit(ValueAt(m, k, EmptyBag), e)
    BY <2>1 DEF VpcAdded
  <2>3. e.time \in Nat
    BY <1>4
  <2>4. CASE e.time = 0
    <3>1. Timed(F \cup {e}) = A /\ HourKeys(e) = {}
      BY <2>1, <2>4 DEF Timed, HourKeys
    <3>2. DOMAIN n = DOMAIN m /\ \A k \in DOMAIN n : n[k] = m[k]
      BY <2>2, <3>1 DEF Changed
    <3> QED  BY <1>3, <2>1, <3>1, <3>2 DEF HoursBy, KeyedBy
  <2>5. CASE e.time # 0
    <3>1. Timed(F \cup {e}) = A \cup {e} /\ HourKeys(e) = {h[e]}
      BY <1>2, <2>1, <2>3, <2>5 DEF Timed, HourKeys
    <3>2. Changed(n, m, {h[e]}) /\ n[h[e]] = HourHit(ValueAt(m, h[e], EmptyBag), e)
      BY <2>2, <3>1
    <3>3. HoursBy(m, h, U, A) /\ A \in SUBSET U /\ e \notin A
      BY <1>3, <1>5, <2>1
    <3>4. HoursBy(n, h, U, A \cup {e})
      BY <1>4, <3>2, <3>3, HoursAdd
    <3> QED  BY <2>1, <3>1, <3>4
  <2> QED  BY <2>4, <2>5
<1>9. DistinctIs(r.ScanPorts, a, p, ProbesOf(F \cup {e}), ScanPorts) /\ DistinctIs(r.Sweep, a, q, SweepsOf(F \cup {e}), SweepHosts)
  <2>1. PICK i \in BOOLEAN, j \in BOOLEAN : (i <=> Probe(e)) /\ (j <=> Swept(e))
    OBVIOUS
  <2>2. /\ ProbesOf(F \cup {e}) = IF i THEN ProbesOf(F) \cup {e} ELSE ProbesOf(F)
        /\ SweepsOf(F \cup {e}) = IF j THEN SweepsOf(F) \cup {e} ELSE SweepsOf(F)
    BY <2>1 DEF ProbesOf, SweepsOf
  <2>3. ScanPorts \in Nat /\ SweepHosts \in Nat
    BY VpcLimitsAssumption
  <2>4. /\ r.ScanPorts = IF i THEN DistinctAdd(s.ScanPorts, a[e], p[e], ScanPorts) ELSE s.ScanPorts
        /\ r.Sweep = IF j THEN DistinctAdd(s.Sweep, a[e], q[e], SweepHosts) ELSE s.Sweep
    BY <1>2, <2>1 DEF VpcAdded
  <2>5. DistinctIs(IF i THEN DistinctAdd(s.ScanPorts, a[e], p[e], ScanPorts) ELSE s.ScanPorts, a, p, ProbesOf(F \cup {e}), ScanPorts)
    BY <1>3, <2>2, <2>3, DistinctOneMore
  <2>6. DistinctIs(IF j THEN DistinctAdd(s.Sweep, a[e], q[e], SweepHosts) ELSE s.Sweep, a, q, SweepsOf(F \cup {e}), SweepHosts)
    BY <1>3, <2>2, <2>3, DistinctOneMore
  <2> QED  BY <2>4, <2>5, <2>6
<1>10. ExposedIs(r.Exposed, r.ExposedDropped, x, U, ExposuresOf(F \cup {e}))
  <2>1. PICK A, m, n, d : A = ExposuresOf(F) /\ m = s.Exposed /\ n = r.Exposed /\ d = s.ExposedDropped
    OBVIOUS
  <2>2. /\ n = [k \in DOMAIN n |-> n[k]] /\ Changed(n, m, ServiceKeys(m, e))
        /\ \A k \in ServiceKeys(m, e) : n[k] = ServiceHit(ValueAt(m, k, NoService), e)
        /\ r.ExposedDropped = d + One(Exposure(e) /\ ~FitsIn(m, exposedKey(e)))
    BY <2>1 DEF VpcAdded
  <2>3. ExposedIs(m, d, x, U, A) /\ A \in SUBSET U /\ e \notin A /\ d \in Nat /\ m = [k \in DOMAIN m |-> m[k]]
    BY <1>3, <1>5, <2>1 DEF ExposedIs
  <2>4. CASE ~Exposure(e)
    <3>1. ExposuresOf(F \cup {e}) = A /\ ServiceKeys(m, e) = {} /\ r.ExposedDropped = d
      <4>1. ExposuresOf(F \cup {e}) = A /\ ServiceKeys(m, e) = {}
        BY <2>1, <2>4 DEF ExposuresOf, ServiceKeys
      <4>2. One(Exposure(e) /\ ~FitsIn(m, exposedKey(e))) = 0
        BY <2>4 DEF One
      <4> QED  BY <2>2, <2>3, <4>1, <4>2
    <3>2. DOMAIN n = DOMAIN m /\ \A k \in DOMAIN n : n[k] = m[k]
      BY <2>2, <3>1 DEF Changed
    <3>3. n = m
      BY <2>2, <2>3, <3>2
    <3> QED  BY <2>1, <2>3, <3>1, <3>3
  <2>5. CASE Exposure(e) /\ FitsIn(m, exposedKey(e))
    <3>1. ExposuresOf(F \cup {e}) = A \cup {e} /\ ServiceKeys(m, e) = {x[e]} /\ r.ExposedDropped = d
      <4>1. ExposuresOf(F \cup {e}) = A \cup {e} /\ ServiceKeys(m, e) = {x[e]}
        BY <1>2, <2>1, <2>5 DEF ExposuresOf, ServiceKeys
      <4>2. One(Exposure(e) /\ ~FitsIn(m, exposedKey(e))) = 0
        BY <2>5 DEF One
      <4>3. r.ExposedDropped = d + 0
        BY <2>2, <4>2
      <4>4. r.ExposedDropped = d
        BY <2>3, <4>3
      <4> QED  BY <4>1, <4>4
    <3>2. Changed(n, m, {x[e]}) /\ n[x[e]] = ServiceHit(ValueAt(m, x[e], NoService), e)
      BY <2>2, <3>1
    <3>3. x[e] \in DOMAIN m \/ Cardinality(DOMAIN m) < MaxKeys
      BY <1>2, <2>5 DEF FitsIn
    <3>4. ExposedIs(n, d, x, U, A \cup {e})
      BY <1>4, <2>2, <2>3, <3>2, <3>3, ExposedMore
    <3> QED  BY <2>1, <3>1, <3>4
  <2>6. CASE Exposure(e) /\ ~FitsIn(m, exposedKey(e))
    <3>1. ExposuresOf(F \cup {e}) = A \cup {e} /\ ServiceKeys(m, e) = {} /\ r.ExposedDropped = d + 1
      <4>1. ExposuresOf(F \cup {e}) = A \cup {e} /\ ServiceKeys(m, e) = {}
        BY <2>1, <2>6 DEF ExposuresOf, ServiceKeys
      <4>2. One(Exposure(e) /\ ~FitsIn(m, exposedKey(e))) = 1
        BY <2>6 DEF One
      <4> QED  BY <2>2, <4>1, <4>2
    <3>2. DOMAIN n = DOMAIN m /\ \A k \in DOMAIN n : n[k] = m[k]
      BY <2>2, <3>1 DEF Changed
    <3>3. n = m
      BY <2>2, <2>3, <3>2
    <3>4. ~(x[e] \in DOMAIN m \/ Cardinality(DOMAIN m) < MaxKeys)
      BY <1>2, <2>6 DEF FitsIn
    <3>5. ExposedIs(m, d + 1, x, U, A \cup {e})
      BY <2>3, <3>4, ExposedLost
    <3> QED  BY <2>1, <3>1, <3>3, <3>5
  <2> QED  BY <2>4, <2>5, <2>6
<1> QED  BY <1>1, <1>6, <1>7, <1>8, <1>9, <1>10, Zenon DEF FlowsRep

\* The flow summaries of two sets of flows, merged.
LEMMA FlowsJoin ==
  ASSUME NEW U, IsFiniteSet(U), VpcTyped(U), NEW F \in SUBSET U, NEW G \in SUBSET U, F \cap G = {},
         NEW s, FlowsRep(s, F, U), NEW t, FlowsRep(t, G, U), NEW r, VpcMerged(r, s, t)
  PROVE  FlowsRep(r, F \cup G, U)
<1>1. PICK C, h, a, p, q, x : /\ C = CappedIn(U) /\ h = HoursIn(U) /\ a = SrcsIn(U) /\ p = PortsIn(U) /\ q = DstsIn(U)
                              /\ x = ServicesIn(U)
  OBVIOUS
<1>2. /\ SpanIs(s.span, F) /\ CapsAre(s.capped, C, vpcCounters, F) /\ HoursBy(s.ByHour, h, U, Timed(F))
      /\ DistinctIs(s.ScanPorts, a, p, ProbesOf(F), ScanPorts) /\ DistinctIs(s.Sweep, a, q, SweepsOf(F), SweepHosts)
      /\ ExposedIs(s.Exposed, s.ExposedDropped, x, U, ExposuresOf(F))
  BY <1>1, Zenon DEF FlowsRep
<1>3. /\ SpanIs(t.span, G) /\ CapsAre(t.capped, C, vpcCounters, G) /\ HoursBy(t.ByHour, h, U, Timed(G))
      /\ DistinctIs(t.ScanPorts, a, p, ProbesOf(G), ScanPorts) /\ DistinctIs(t.Sweep, a, q, SweepsOf(G), SweepHosts)
      /\ ExposedIs(t.Exposed, t.ExposedDropped, x, U, ExposuresOf(G))
  BY <1>1, Zenon DEF FlowsRep
<1>4. \A y \in U : y.time \in Nat /\ y.bytes \in Nat
  BY DEF VpcTyped
<1>5. /\ Timed(F) \in SUBSET U /\ Timed(G) \in SUBSET U /\ Timed(F) \cap Timed(G) = {} /\ Timed(F \cup G) = Timed(F) \cup Timed(G)
      /\ ExposuresOf(F) \in SUBSET U /\ ExposuresOf(G) \in SUBSET U /\ ExposuresOf(F) \cap ExposuresOf(G) = {}
      /\ ExposuresOf(F \cup G) = ExposuresOf(F) \cup ExposuresOf(G)
      /\ ProbesOf(F \cup G) = ProbesOf(F) \cup ProbesOf(G) /\ SweepsOf(F \cup G) = SweepsOf(F) \cup SweepsOf(G)
  BY DEF Timed, ExposuresOf, ProbesOf, SweepsOf
<1>6. SpanIs(r.span, F \cup G)
  <2>1. \A y \in U : y.time \in Nat
    BY <1>4
  <2>2. SpanIs(widen(s.span, t.span), F \cup G)
    BY <1>2, <1>3, <2>1, SpanRules
  <2> QED  BY <2>2 DEF VpcMerged
<1>7. CapsAre(r.capped, C, vpcCounters, F \cup G)
  <2>1. \A y \in U : y.bytes \in Nat
    BY <1>4
  <2>2. Weighing(C, vpcCounters, U)
    BY <1>1, <2>1, VpcCappedAre DEF CappedIn
  <2>3. PICK c, d, n : c = s.capped /\ d = t.capped /\ n = r.capped
    OBVIOUS
  <2>4. n \in EveryPick([i \in vpcCounters |-> capMerge(c[i], d[i], MaxKeys)])
    BY <2>3 DEF VpcMerged
  <2>5. CapsAre(n, C, vpcCounters, F \cup G)
    BY <1>2, <1>3, <2>2, <2>3, <2>4, CapsRules
  <2> QED  BY <2>3, <2>5
<1>8. HoursBy(r.ByHour, h, U, Timed(F \cup G))
  <2>1. PICK A, B, m, o, n : A = Timed(F) /\ B = Timed(G) /\ m = s.ByHour /\ o = t.ByHour /\ n = r.ByHour
    OBVIOUS
  <2>2. Changed(n, m, DOMAIN o) /\ \A k \in DOMAIN o : n[k] \in HourMerge(ValueAt(m, k, EmptyBag), o[k])
    BY <2>1 DEF VpcMerged
  <2>3. HoursBy(m, h, U, A) /\ HoursBy(o, h, U, B) /\ A \in SUBSET U /\ B \in SUBSET U /\ A \cap B = {}
    BY <1>2, <1>3, <1>5, <2>1
  <2>4. HoursBy(n, h, U, A \cup B)
    BY <1>4, <2>2, <2>3, HoursMerge
  <2> QED  BY <1>5, <2>1, <2>4
<1>9. DistinctIs(r.ScanPorts, a, p, ProbesOf(F \cup G), ScanPorts) /\ DistinctIs(r.Sweep, a, q, SweepsOf(F \cup G), SweepHosts)
  <2>1. ScanPorts \in Nat /\ SweepHosts \in Nat
    BY VpcLimitsAssumption
  <2>2. r.ScanPorts \in DistinctMerge(s.ScanPorts, t.ScanPorts, ScanPorts) /\ r.Sweep \in DistinctMerge(s.Sweep, t.Sweep, SweepHosts)
    BY DEF VpcMerged
  <2>3. DistinctIs(r.ScanPorts, a, p, ProbesOf(F) \cup ProbesOf(G), ScanPorts)
    BY <1>2, <1>3, <2>1, <2>2, DistinctJoin
  <2>4. DistinctIs(r.Sweep, a, q, SweepsOf(F) \cup SweepsOf(G), SweepHosts)
    BY <1>2, <1>3, <2>1, <2>2, DistinctJoin
  <2> QED  BY <1>5, <2>3, <2>4
<1>10. ExposedIs(r.Exposed, r.ExposedDropped, x, U, ExposuresOf(F \cup G))
  <2>1. PICK y \in exposedMerge(s.Exposed, t.Exposed) : r.Exposed = y.map /\ r.ExposedDropped = s.ExposedDropped + t.ExposedDropped + y.dropped
    BY DEF VpcMerged
  <2>2. ExposedIs(y.map, s.ExposedDropped + t.ExposedDropped + y.dropped, x, U, ExposuresOf(F) \cup ExposuresOf(G))
    BY <1>2, <1>3, <1>4, <1>5, ExposedJoin
  <2> QED  BY <1>5, <2>1, <2>2
<1> QED  BY <1>1, <1>6, <1>7, <1>8, <1>9, <1>10, Zenon DEF FlowsRep

\* All there is to say of the summary of flows and status rows.
LEMMA VpcRules ==
  ASSUME NEW U, IsFiniteSet(U), VpcTyped(U)
  PROVE  /\ VpcRep(NewVPCSummary, {}, U)
         /\ \A S \in SUBSET U, e \in U : \A s : VpcRep(s, S, U) /\ e \notin S => VpcRep(vpcPut(s, e), S \cup {e}, U)
         /\ \A S, T \in SUBSET U : \A s, t : VpcRep(s, S, U) /\ VpcRep(t, T, U) /\ S \cap T = {}
              => \A n \in vpcMerge(s, t) : VpcRep(n, S \cup T, U)
<1>1. PICK K : K = SumsIn(U)
  OBVIOUS
<1>2. Table(K, vpcTotals, U) /\ \A e \in U : K[e] = vpcSums(e)
  <2>1. \A e \in U : e.bytes \in Nat /\ e.packets \in Int
    BY DEF VpcTyped
  <2>2. Table([e \in U |-> vpcSums(e)], vpcTotals, U)
    BY <2>1, VpcSumsAre
  <2> QED  BY <1>1, <2>2 DEF SumsIn
<1>3. \A s, S : VpcRep(s, S, U) <=> VpcRecord(s) /\ SumsAre(s.sums, K, vpcTotals, S) /\ FlowsRep(s, FlowRows(S), U)
  BY <1>1 DEF VpcRep
<1>4. VpcRep(NewVPCSummary, {}, U)
  <2>1. FlowRows({}) = {}
    BY DEF FlowRows
  <2>2. SumsAre(NoSums(vpcTotals), K, vpcTotals, {})
    BY SumsStart
  <2>3. FlowsRep(NewVPCSummary, {}, U) /\ VpcRecord(NewVPCSummary) /\ NewVPCSummary.sums = NoSums(vpcTotals)
    BY FlowsStart
  <2> QED  BY <1>3, <2>1, <2>2, <2>3
<1>5. ASSUME NEW S \in SUBSET U, NEW e \in U, NEW s, VpcRep(s, S, U), e \notin S
      PROVE  VpcRep(vpcPut(s, e), S \cup {e}, U)
  <2>1. VpcRecord(s) /\ SumsAre(s.sums, K, vpcTotals, S) /\ FlowsRep(s, FlowRows(S), U)
    BY <1>3, <1>5
  <2>2. SumsAre(plus(s.sums, vpcSums(e)), K, vpcTotals, S \cup {e})
    <3>1. SumsAre(plus(s.sums, K[e]), K, vpcTotals, S \cup {e})
      BY <1>2, <1>5, <2>1, SumsRules
    <3> QED  BY <1>2, <3>1
  <2>3. FlowRows(S) \in SUBSET U /\ e \notin FlowRows(S)
    BY <1>5 DEF FlowRows
  <2>4. CASE IsFlow(e)
    <3>1. PICK r : r = vpcAdd(s, e)
      OBVIOUS
    <3>2. VpcAdded(r, s, e)
      BY <3>1, VpcAddIs
    <3>3. FlowsRep(r, FlowRows(S) \cup {e}, U)
      BY <2>1, <2>3, <3>2, FlowsMore
    <3>4. FlowRows(S \cup {e}) = FlowRows(S) \cup {e}
      BY <2>4 DEF FlowRows
    <3>5. VpcRecord(r) /\ r.sums = plus(s.sums, vpcSums(e))
      BY <3>2 DEF VpcAdded
    <3>6. vpcPut(s, e) = r
      BY <2>4, <3>1 DEF vpcPut
    <3> QED  BY <1>3, <2>2, <3>3, <3>4, <3>5, <3>6
  <2>5. CASE ~IsFlow(e)
    <3>1. PICK r : r = AddStatus(s, e)
      OBVIOUS
    <3>2. FlowRows(S \cup {e}) = FlowRows(S)
      BY <2>5 DEF FlowRows
    <3>3. r = [s EXCEPT !.sums = plus(s.sums, vpcSums(e))]
      BY <3>1 DEF AddStatus
    <3>4. PICK a, b, c, d, f, g, h, i :
            /\ s = [sums |-> a, span |-> b, capped |-> c, ByHour |-> d, ScanPorts |-> f, Sweep |-> g, Exposed |-> h, ExposedDropped |-> i]
      BY <2>1 DEF VpcRecord
    <3>5. r = [sums |-> plus(s.sums, vpcSums(e)), span |-> b, capped |-> c, ByHour |-> d, ScanPorts |-> f, Sweep |-> g, Exposed |-> h, ExposedDropped |-> i]
      BY <3>3, <3>4
    <3>6. VpcRecord(r) /\ r.sums = plus(s.sums, vpcSums(e))
      BY <3>5 DEF VpcRecord
    <3>7. /\ r.span = s.span /\ r.capped = s.capped /\ r.ByHour = s.ByHour /\ r.ScanPorts = s.ScanPorts /\ r.Sweep = s.Sweep
          /\ r.Exposed = s.Exposed /\ r.ExposedDropped = s.ExposedDropped
      BY <3>4, <3>5
    <3>8. FlowsRep(r, FlowRows(S), U)
      BY <2>1, <3>7 DEF FlowsRep
    <3>9. vpcPut(s, e) = r
      BY <2>5, <3>1 DEF vpcPut
    <3> QED  BY <1>3, <2>2, <3>2, <3>6, <3>8, <3>9
  <2> QED  BY <2>4, <2>5
<1>6. ASSUME NEW S \in SUBSET U, NEW T \in SUBSET U, NEW s, NEW t, VpcRep(s, S, U), VpcRep(t, T, U), S \cap T = {},
             NEW n \in vpcMerge(s, t)
      PROVE  VpcRep(n, S \cup T, U)
  <2>1. SumsAre(s.sums, K, vpcTotals, S) /\ FlowsRep(s, FlowRows(S), U) /\ SumsAre(t.sums, K, vpcTotals, T) /\ FlowsRep(t, FlowRows(T), U)
    BY <1>3, <1>6
  <2>2. FlowRows(S) \in SUBSET U /\ FlowRows(T) \in SUBSET U /\ FlowRows(S) \cap FlowRows(T) = {}
        /\ FlowRows(S \cup T) = FlowRows(S) \cup FlowRows(T)
    BY <1>6 DEF FlowRows
  <2>3. IsFiniteSet(DOMAIN t.ByHour)
    <3>1. DOMAIN t.ByHour = KeySet(HoursIn(U), {}, Timed(FlowRows(T)))
      BY <2>1 DEF FlowsRep, HoursBy, KeyedBy
    <3>2. Timed(FlowRows(T)) \in SUBSET U
      BY <2>2 DEF Timed
    <3>3. IsFiniteSet(Timed(FlowRows(T)))
      BY <3>2, FS_Subset
    <3> QED  BY <3>1, <3>3, KeysFinite
  <2>4. VpcMerged(n, s, t)
    BY <1>6, <2>3, VpcMergeIs
  <2>5. FlowsRep(n, FlowRows(S) \cup FlowRows(T), U)
    BY <2>1, <2>2, <2>4, FlowsJoin
  <2>6. VpcRecord(n) /\ n.sums = plus(s.sums, t.sums)
    BY <2>4 DEF VpcMerged
  <2>7. SumsAre(plus(s.sums, t.sums), K, vpcTotals, S \cup T)
    BY <1>2, <1>6, <2>1, SumsRules
  <2> QED  BY <1>3, <2>2, <2>5, <2>6, <2>7
<1> QED  BY <1>4, <1>5, <1>6

\* What a report should show of an exposed service and the flows X that reached it.
ServiceTold(v, X) ==
  /\ v.flows = Cardinality(X) /\ v.bytes = SumOf(X, LAMBDA e : e.bytes)
  /\ v.first = SpanOf({e \in X : e.time > 0}).first
  /\ CappedOf(v.sources, X, sourceOf, LAMBDA e : 1)

\* Services are told as they should be.
LEMMA ServiceEnd ==
  ASSUME NEW U, IsFiniteSet(U), VpcTyped(U), NEW X \in SUBSET U, NEW v, ServiceIs(v, U, X)
  PROVE  ServiceTold(v, X)
<1>1. IsFiniteSet(X) /\ \A e \in X : e.time \in Nat /\ e.bytes \in Nat
  BY FS_Subset DEF VpcTyped
<1>2. v.flows = Cardinality(X) /\ v.bytes = Sum(BytesIn(U), X) /\ FirstIs(v.first, Timed(X))
  BY DEF ServiceIs
<1>3. v.bytes = SumOf(X, LAMBDA e : e.bytes)
  <2>1. PICK f, g : f = BytesIn(U) /\ g = [e \in X |-> e.bytes]
    OBVIOUS
  <2>2. \A e \in X : e.bytes \in Int
    BY <1>1
  <2>3. \A e \in X : f[e] \in Int /\ g[e] = f[e]
    BY <2>1, <2>2 DEF BytesIn
  <2>4. Sum(g, X) = Sum(f, X)
    BY <1>1, <2>3, SumSame
  <2> QED  BY <1>2, <2>1, <2>4 DEF SumOf
<1>4. v.first = SpanOf({e \in X : e.time > 0}).first
  <2>1. PICK T, t : T = {e \in X : e.time > 0} /\ t = v.first
    OBVIOUS
  <2>2. FirstIs(t, T) /\ \A e \in T : e.time \in Nat
    BY <1>1, <1>2, <2>1 DEF Timed
  <2>3. CASE T = {}
    <3>1. SpanOf(T) = [first |-> 0, last |-> 0]
      BY <2>3 DEF SpanOf, NoSpan
    <3> QED  BY <2>1, <2>2, <2>3, <3>1 DEF FirstIs
  <2>4. CASE T # {}
    <3>1. (\E e \in T : t = e.time) /\ \A e \in T : t <= e.time
      BY <2>2, <2>4 DEF FirstIs
    <3>2. t = SpanOf(T).first
      BY <2>2, <2>4, <3>1, FirstOf
    <3> QED  BY <2>1, <3>2
  <2> QED  BY <2>3, <2>4
<1>5. CappedOf(v.sources, X, sourceOf, LAMBDA e : 1)
  <2>0. PICK c, f, w : c = v.sources /\ f = SrcsIn(U) /\ w = OnesIn(U)
    OBVIOUS
  <2>a. CapIs(c, f, w, X) /\ IsFiniteSet(X)
    BY <1>1, <2>0 DEF ServiceIs
  <2>b. \A e \in X : f[e] = sourceOf(e) /\ w[e] = 1 /\ w[e] \in Nat
    BY <2>0 DEF SrcsIn, OnesIn, sourceOf
  <2>c. CappedOf(c, X, sourceOf, LAMBDA e : 1)
    <3>2. \A e \in X : f[e] = sourceOf(e) /\ w[e] = 1
      BY <2>b
    <3> DEFINE Z == {e \in X : sourceOf(e) # "" /\ 1 > 0}
    <3> HIDE DEF Z
    <3>3. Z = {e \in X : sourceOf(e) # "" /\ 1 > 0}
      BY DEF Z
    <3>4. Z = {e \in X : f[e] # "" /\ w[e] > 0} /\ \A e \in Z : f[e] = sourceOf(e) /\ w[e] = 1
      BY <3>2, <3>3
    <3>9. CountedBy(Z, f, w, X)
      BY <3>4 DEF CountedBy
    <3>1. CapTold(c, f, w, Z)
      BY <2>a, <2>b, CapEnd, <3>9
    <3>5. [e \in Z |-> w[e]] = [e \in Z |-> 1] /\ {f[e] : e \in Z} = {sourceOf(e) : e \in Z}
      BY <3>4
    <3>6. \A k : {e \in Z : f[e] = k} = {e \in Z : sourceOf(e) = k}
      BY <3>4
    <3>7. \A k : [e \in {x \in Z : f[x] = k} |-> w[e]] = [e \in {x \in Z : sourceOf(x) = k} |-> 1]
      BY <3>4
    <3>8. /\ Sum(c, DOMAIN c) = Sum([e \in Z |-> 1], Z)
          /\ \A k \in DOMAIN c \ {OtherKey} : c[k] <= Sum([e \in {x \in Z : sourceOf(x) = k} |-> 1], {x \in Z : sourceOf(x) = k})
          /\ OtherKey \notin DOMAIN c => DOMAIN c = {sourceOf(e) : e \in Z}
      BY <3>1, <3>5, <3>6, <3>7 DEF CapTold
    <3> QED  BY <3>8 DEF Z, CappedOf, SumOf
  <2> QED  BY <2>0, <2>c
<1> QED  BY <1>2, <1>3, <1>4, <1>5 DEF ServiceTold

\* What a report should show of the exposed services.
LEMMA ExposedEnd ==
  ASSUME NEW U, IsFiniteSet(U), VpcTyped(U), NEW X \in SUBSET U, NEW m, NEW d, ExposedIs(m, d, ServicesIn(U), U, X)
  PROVE  ExposedIsOf(m, d, X)
<1>1. PICK h : h = ServicesIn(U) /\ \A e \in U : h[e] = exposedKey(e)
  BY DEF ServicesIn
<1>2. /\ DOMAIN m \subseteq FoundIn(h, X)
      /\ d \in Nat /\ Sum(FlowsOf(m), DOMAIN m) + d = Cardinality(X)
      /\ d > 0 => Cardinality(DOMAIN m) = MaxKeys
      /\ d = 0 => ServicesBy(m, h, U, X)
  BY <1>1 DEF ExposedIs
<1>3. Sum([k \in DOMAIN m |-> m[k].flows], DOMAIN m) + d = Cardinality(X)
  BY <1>2 DEF FlowsOf
<1>4. DOMAIN m \subseteq {exposedKey(e) : e \in X}
  <2>1. FoundIn(h, X) = {exposedKey(e) : e \in X}
    BY <1>1 DEF FoundIn
  <2> QED  BY <1>2, <2>1
<1>5. ASSUME d = 0, NEW k \in DOMAIN m, NEW Y, Y = {e \in X : exposedKey(e) = k}
      PROVE  /\ m[k].flows = Cardinality(Y) /\ m[k].bytes = SumOf(Y, LAMBDA e : e.bytes)
             /\ m[k].first = SpanOf({e \in Y : e.time > 0}).first
             /\ CappedOf(m[k].sources, Y, sourceOf, LAMBDA e : 1)
  <2>1. Having(h, k, X) = Y /\ Y \in SUBSET U
    BY <1>1, <1>5 DEF Having
  <2>2. ServiceIs(m[k], U, Y)
    BY <1>2, <1>5, <2>1 DEF ServicesBy
  <2>3. ServiceTold(m[k], Y)
    BY <2>1, <2>2, ServiceEnd
  <2> QED  BY <2>3 DEF ServiceTold
<1> QED  BY <1>2, <1>3, <1>4, <1>5 DEF ExposedIsOf

\* The summary of a VPC scan tells what it should of the flows F and the status rows R.
LEMMA VpcEnd ==
  ASSUME NEW U, IsFiniteSet(U), VpcTyped(U), NEW S \in SUBSET U, NEW F, F = FlowRows(S), NEW R, F \cup R = S,
         NEW s, VpcRep(s, S, U)
  PROVE  VpcIsOf(s, F, R)
<1>1. F \in SUBSET U /\ IsFiniteSet(S) /\ IsFiniteSet(F) /\ \A e \in U : e.time \in Nat /\ e.bytes \in Nat /\ e.packets \in Int
  <2>1. F \in SUBSET S
    BY DEF FlowRows
  <2> QED  BY <2>1, FS_Subset DEF VpcTyped
<1>2. /\ SumsAre(s.sums, SumsIn(U), vpcTotals, S) /\ SpanIs(s.span, F) /\ CapsAre(s.capped, CappedIn(U), vpcCounters, F)
      /\ HoursBy(s.ByHour, HoursIn(U), U, Timed(F))
      /\ DistinctIs(s.ScanPorts, SrcsIn(U), PortsIn(U), ProbesOf(F), ScanPorts)
      /\ DistinctIs(s.Sweep, SrcsIn(U), DstsIn(U), SweepsOf(F), SweepHosts)
      /\ ExposedIs(s.Exposed, s.ExposedDropped, ServicesIn(U), U, ExposuresOf(F))
  BY DEF VpcRep, FlowsRep
<1>3. \A n \in vpcTotals : s.sums[n] = SumOf(F \cup R, LAMBDA e : vpcSums(e)[n])
  <2>1. PICK K : K = SumsIn(U)
    OBVIOUS
  <2>2. Table(K, vpcTotals, U) /\ \A e \in S : K[e] = vpcSums(e)
    <3>1. \A e \in U : e.bytes \in Nat /\ e.packets \in Int
      BY <1>1
    <3>2. Table([e \in U |-> vpcSums(e)], vpcTotals, U)
      BY <3>1, VpcSumsAre
    <3> QED  BY <2>1, <3>2 DEF SumsIn
  <2>3. TotalsAre(s.sums, K, vpcTotals, S)
    BY <1>2, <2>1, <2>2, SumsEnd
  <2>4. \A n : [e \in S |-> K[e][n]] = [e \in S |-> vpcSums(e)[n]]
    BY <2>2
  <2> QED  BY <2>3, <2>4 DEF SumOf, Total, TotalsAre
<1>4. ASSUME NEW n \in vpcCounters
      PROVE  CappedOf(s.capped[n], F, LAMBDA e : vpcCapped(e)[n].key, LAMBDA e : vpcCapped(e)[n].n)
  <2>9. PICK C : C = CappedIn(U)
    OBVIOUS
  <2>8. Weighing(C, vpcCounters, U) /\ \A e \in F : C[e] = vpcCapped(e)
    <3>1. \A e \in U : e.bytes \in Nat
      BY <1>1
    <3>2. Weighing([e \in U |-> vpcCapped(e)], vpcCounters, U)
      BY <3>1, VpcCappedAre
    <3> QED  BY <1>1, <2>9, <3>2 DEF CappedIn
  <2>0. PICK c, f, w : c = s.capped[n] /\ f = KeyOf(C, n) /\ w = MuchOf(C, n)
    OBVIOUS
  <2>a. CapIs(c, f, w, F) /\ IsFiniteSet(F)
    BY <1>1, <1>2, <2>9, <2>0 DEF CapsAre
  <2>b. \A e \in F : f[e] = vpcCapped(e)[n].key /\ w[e] = vpcCapped(e)[n].n /\ w[e] \in Nat
    BY <1>1, <2>8, <2>0 DEF KeyOf, MuchOf, Weighing
  <2>c. CappedOf(c, F, LAMBDA e : vpcCapped(e)[n].key, LAMBDA e : vpcCapped(e)[n].n)
    <3>2. \A e \in F : f[e] = vpcCapped(e)[n].key /\ w[e] = vpcCapped(e)[n].n
      BY <2>b
    <3> DEFINE Z == {e \in F : vpcCapped(e)[n].key # "" /\ vpcCapped(e)[n].n > 0}
    <3> HIDE DEF Z
    <3>3. Z = {e \in F : vpcCapped(e)[n].key # "" /\ vpcCapped(e)[n].n > 0}
      BY DEF Z
    <3>4. Z = {e \in F : f[e] # "" /\ w[e] > 0} /\ \A e \in Z : f[e] = vpcCapped(e)[n].key /\ w[e] = vpcCapped(e)[n].n
      BY <3>2, <3>3
    <3>9. CountedBy(Z, f, w, F)
      BY <3>4 DEF CountedBy
    <3>1. CapTold(c, f, w, Z)
      BY <2>a, <2>b, CapEnd, <3>9
    <3>5. [e \in Z |-> w[e]] = [e \in Z |-> vpcCapped(e)[n].n] /\ {f[e] : e \in Z} = {vpcCapped(e)[n].key : e \in Z}
      <4>1. [e \in Z |-> w[e]] = [e \in Z |-> vpcCapped(e)[n].n]
        BY <3>4
      <4>2. \A x : x \in {f[e] : e \in Z} <=> x \in {vpcCapped(e)[n].key : e \in Z}
        BY <3>4, Zenon
      <4> QED  BY <4>1, <4>2
    <3>6. \A k : {e \in Z : f[e] = k} = {e \in Z : vpcCapped(e)[n].key = k}
      BY <3>4
    <3>7. \A k : [e \in {x \in Z : f[x] = k} |-> w[e]] = [e \in {x \in Z : vpcCapped(x)[n].key = k} |-> vpcCapped(e)[n].n]
      BY <3>4
    <3>8. /\ Sum(c, DOMAIN c) = Sum([e \in Z |-> vpcCapped(e)[n].n], Z)
          /\ \A k \in DOMAIN c \ {OtherKey} : c[k] <= Sum([e \in {x \in Z : vpcCapped(x)[n].key = k} |-> vpcCapped(e)[n].n], {x \in Z : vpcCapped(x)[n].key = k})
          /\ OtherKey \notin DOMAIN c => DOMAIN c = {vpcCapped(e)[n].key : e \in Z}
      BY <3>1, <3>5, <3>6, <3>7 DEF CapTold
    <3> QED  BY <3>8 DEF Z, CappedOf, SumOf
  <2> QED  BY <2>0, <2>c
<1>5. ASSUME NEW T, T = {e \in F : e.time > 0}
      PROVE  /\ s.span = SpanOf(T) /\ DOMAIN s.ByHour = {Hour[e.time] : e \in T}
             /\ \A h \in DOMAIN s.ByHour : CappedOf(s.ByHour[h], {e \in T : Hour[e.time] = h}, LAMBDA e : e.action, LAMBDA e : 1)
  <2>1. Timed(F) = T /\ T \in SUBSET U
    BY <1>1, <1>5 DEF Timed
  <2>2. s.span = SpanOf(T)
    <3>1. \A e \in F : e.time \in Nat
      BY <1>1
    <3> QED  BY <1>2, <2>1, <3>1, SpanEnd
  <2>7. PICK h : h = HoursIn(U)
    OBVIOUS
  <2>3. h = HoursIn(U) /\ \A e \in U : h[e] = Hour[e.time]
    BY <2>7 DEF HoursIn
  <2>4. HoursBy(s.ByHour, h, U, T)
    BY <1>2, <2>1, <2>3
  <2>5. DOMAIN s.ByHour = {Hour[e.time] : e \in T}
    <3>1. {h[e] : e \in T} = {Hour[e.time] : e \in T}
      BY <2>1, <2>3
    <3> QED  BY <2>4, <3>1 DEF HoursBy, KeyedBy, KeySet
  <2>6. ASSUME NEW k \in DOMAIN s.ByHour
        PROVE  CappedOf(s.ByHour[k], {e \in T : Hour[e.time] = k}, LAMBDA e : e.action, LAMBDA e : 1)
    <3>0. PICK c, f, w, X : c = s.ByHour[k] /\ f = ActionsIn(U) /\ w = OnesIn(U) /\ X = {e \in T : Hour[e.time] = k}
      OBVIOUS
    <3>9. X \in SUBSET U /\ Having(h, k, T) = X
      BY <2>1, <2>3, <3>0 DEF Having
    <3>a. CapIs(c, f, w, X) /\ IsFiniteSet(X)
      BY <2>4, <3>0, <3>9, FS_Subset DEF HoursBy, HourIs
    <3>b. \A e \in X : f[e] = e.action /\ w[e] = 1 /\ w[e] \in Nat
      BY <3>0, <3>9 DEF ActionsIn, OnesIn
    <3>c. CappedOf(c, X, LAMBDA e : e.action, LAMBDA e : 1)
      <4>2. \A e \in X : f[e] = e.action /\ w[e] = 1
        BY <3>b
      <4> DEFINE Z == {e \in X : e.action # "" /\ 1 > 0}
      <4> HIDE DEF Z
      <4>3. Z = {e \in X : e.action # "" /\ 1 > 0}
        BY DEF Z
      <4>4. Z = {e \in X : f[e] # "" /\ w[e] > 0} /\ \A e \in Z : f[e] = e.action /\ w[e] = 1
        BY <4>2, <4>3
      <4>9. CountedBy(Z, f, w, X)
        BY <4>4 DEF CountedBy
      <4>1. CapTold(c, f, w, Z)
        BY <3>a, <3>b, CapEnd, <4>9
      <4>5. [e \in Z |-> w[e]] = [e \in Z |-> 1] /\ {f[e] : e \in Z} = {e.action : e \in Z}
        BY <4>4
      <4>6. \A a : {e \in Z : f[e] = a} = {e \in Z : e.action = a}
        BY <4>4
      <4>7. \A a : [e \in {x \in Z : f[x] = a} |-> w[e]] = [e \in {x \in Z : x.action = a} |-> 1]
        BY <4>4
      <4>8. /\ Sum(c, DOMAIN c) = Sum([e \in Z |-> 1], Z)
            /\ \A a \in DOMAIN c \ {OtherKey} : c[a] <= Sum([e \in {x \in Z : x.action = a} |-> 1], {x \in Z : x.action = a})
            /\ OtherKey \notin DOMAIN c => DOMAIN c = {e.action : e \in Z}
        BY <4>1, <4>5, <4>6, <4>7 DEF CapTold
      <4> QED  BY <4>8 DEF Z, CappedOf, SumOf
    <3> QED  BY <3>0, <3>c
  <2> QED  BY <2>2, <2>5, <2>6
<1>6. DistinctIsOf(s.ScanPorts, {e \in F : Probe(e)}, sourceOf, LAMBDA e : e.dstport, ScanPorts)
  <2>1. PICK d, f, g, X : d = s.ScanPorts /\ f = SrcsIn(U) /\ g = PortsIn(U) /\ X = {e \in F : Probe(e)}
    OBVIOUS
  <2>2. DistinctIs(d, f, g, X, ScanPorts) /\ ScanPorts \in Nat /\ X \in SUBSET U
    BY <1>1, <1>2, <2>1, VpcLimitsAssumption DEF ProbesOf
  <2>3. IsFiniteSet(X) /\ \A e \in X : f[e] = sourceOf(e) /\ g[e] = e.dstport
    BY <2>1, <2>2, FS_Subset DEF SrcsIn, PortsIn, sourceOf
  <2>4. DistinctTold(d, f, g, X, ScanPorts)
    BY <2>2, <2>3, DistinctEnd
  <2>5. FoundIn(f, X) = {sourceOf(e) : e \in X}
    BY <2>3 DEF FoundIn
  <2>6. \A a : ShownBy(f, g, X, a) = {e.dstport : e \in {x \in X : sourceOf(x) = a}}
    BY <2>3 DEF ShownBy
  <2>7. PICK n : n = ScanPorts
    OBVIOUS
  <2>8. /\ DOMAIN d.sets \subseteq {sourceOf(e) : e \in X} /\ Cardinality(DOMAIN d.sets) = Min({MaxSources, Cardinality({sourceOf(e) : e \in X})})
        /\ d.truncated <=> Cardinality({sourceOf(e) : e \in X}) > MaxSources
        /\ \A a \in DOMAIN d.sets :
             /\ d.sets[a] \subseteq {e.dstport : e \in {x \in X : sourceOf(x) = a}}
             /\ d.truncated \/ Cardinality(d.sets[a]) = Min({n, Cardinality({e.dstport : e \in {x \in X : sourceOf(x) = a}})})
    BY <2>4, <2>5, <2>6, <2>7 DEF DistinctTold
  <2> QED  BY <2>1, <2>7, <2>8 DEF DistinctIsOf
<1>7. DistinctIsOf(s.Sweep, {e \in F : Swept(e)}, sourceOf, LAMBDA e : e.dst, SweepHosts)
  <2>1. PICK d, f, g, X : d = s.Sweep /\ f = SrcsIn(U) /\ g = DstsIn(U) /\ X = {e \in F : Swept(e)}
    OBVIOUS
  <2>2. DistinctIs(d, f, g, X, SweepHosts) /\ SweepHosts \in Nat /\ X \in SUBSET U
    BY <1>1, <1>2, <2>1, VpcLimitsAssumption DEF SweepsOf
  <2>3. IsFiniteSet(X) /\ \A e \in X : f[e] = sourceOf(e) /\ g[e] = e.dst
    BY <2>1, <2>2, FS_Subset DEF SrcsIn, DstsIn, sourceOf
  <2>4. DistinctTold(d, f, g, X, SweepHosts)
    BY <2>2, <2>3, DistinctEnd
  <2>5. FoundIn(f, X) = {sourceOf(e) : e \in X}
    BY <2>3 DEF FoundIn
  <2>6. \A a : ShownBy(f, g, X, a) = {e.dst : e \in {x \in X : sourceOf(x) = a}}
    BY <2>3 DEF ShownBy
  <2>7. PICK n : n = SweepHosts
    OBVIOUS
  <2>8. /\ DOMAIN d.sets \subseteq {sourceOf(e) : e \in X} /\ Cardinality(DOMAIN d.sets) = Min({MaxSources, Cardinality({sourceOf(e) : e \in X})})
        /\ d.truncated <=> Cardinality({sourceOf(e) : e \in X}) > MaxSources
        /\ \A a \in DOMAIN d.sets :
             /\ d.sets[a] \subseteq {e.dst : e \in {x \in X : sourceOf(x) = a}}
             /\ d.truncated \/ Cardinality(d.sets[a]) = Min({n, Cardinality({e.dst : e \in {x \in X : sourceOf(x) = a}})})
    BY <2>4, <2>5, <2>6, <2>7 DEF DistinctTold
  <2> QED  BY <2>1, <2>7, <2>8 DEF DistinctIsOf
<1>8. ExposedIsOf(s.Exposed, s.ExposedDropped, {e \in F : Exposure(e)})
  <2>1. PICK m, d, X : m = s.Exposed /\ d = s.ExposedDropped /\ X = {e \in F : Exposure(e)}
    OBVIOUS
  <2>2. X \in SUBSET U /\ ExposedIs(m, d, ServicesIn(U), U, X)
    BY <1>1, <1>2, <2>1 DEF ExposuresOf
  <2>3. ExposedIsOf(m, d, X)
    BY <2>2, ExposedEnd
  <2> QED  BY <2>1, <2>3
<1> QED  BY <1>3, <1>4, <1>5, <1>6, <1>7, <1>8 DEF VpcIsOf

-----------------------------------------------------------------------------
(*****************************************************************************)
(* The findings over a summary of S3 requests: a counter that folded keys    *)
(* may hide one, but makes none up.                                          *)
(*****************************************************************************)

\* What the entries X give the actor a: v[e] each, of those whose actor g[e] is a.
GivenTo(v, g, X, a) == Sum([e \in {x \in X : g[x] = a} |-> v[e]], {x \in X : g[x] = a})
ActorsOf(g, X) == {g[e] : e \in X} \ {""}

\* The capped counter c of the keys f[e] and the amounts w[e] counts what the entries X
\* give their actors.
CountsOnly(f, w, S, v, g, X) ==
  /\ \A e \in X : f[e] = g[e] /\ w[e] = v[e]
  /\ \A e \in S \ X : w[e] = 0

\* What it says of an actor, unless it had to fold.
GivenAre(f, w, S, v, g, X) ==
  /\ \A k : k # "" => Truth(f, w, S, k) = GivenTo(v, g, X, k)
  /\ {f[e] : e \in Weighty(f, w, S)} \subseteq ActorsOf(g, X)
  /\ \A k : k # "" /\ k \notin {f[e] : e \in Weighty(f, w, S)} => GivenTo(v, g, X, k) = 0

\* A counter that counts only the entries X gives an actor what these give.
LEMMA GivenIs ==
  ASSUME NEW S, IsFiniteSet(S), NEW X \in SUBSET S, NEW f, NEW w, NEW v, NEW g, CountsOnly(f, w, S, v, g, X),
         \A e \in S : w[e] \in Nat
  PROVE  GivenAre(f, w, S, v, g, X)
<1>1. ASSUME NEW k, k # "" PROVE Truth(f, w, S, k) = GivenTo(v, g, X, k)
  <2>1. PICK A, B : A = {e \in Weighty(f, w, S) : f[e] = k} /\ B = {x \in X : g[x] = k}
    OBVIOUS
  <2>2. \A e : e \in A <=> e \in S /\ w[e] > 0 /\ f[e] = k
    BY <1>1, <2>1 DEF Weighty, Keyed, Positive
  <2>3. \A e \in S : w[e] > 0 => e \in X
    BY DEF CountsOnly
  <2>4. A \in SUBSET B /\ IsFiniteSet(B)
    <3>1. \A e \in A : e \in B
      BY <2>1, <2>2, <2>3 DEF CountsOnly
    <3>2. B \in SUBSET S
      BY <2>1
    <3> QED  BY <3>1, <3>2, FS_Subset
  <2>5. PICK u : u = [e \in B |-> v[e]]
    OBVIOUS
  <2>6. \A e \in B : e \in S /\ e \in X /\ f[e] = k /\ u[e] = w[e]
    BY <2>1, <2>5 DEF CountsOnly
  <2>7. \A e \in A : w[e] \in Int /\ u[e] = w[e]
    BY <2>4, <2>6
  <2>8. \A e \in B \ A : u[e] = 0
    BY <2>2, <2>6
  <2>9. Sum(u, B) = Sum(w, A)
    BY <2>4, <2>7, <2>8, SumWithin
  <2> QED  BY <2>1, <2>5, <2>9 DEF Truth, GivenTo
<1>2. {f[e] : e \in Weighty(f, w, S)} \subseteq ActorsOf(g, X)
  <2>1. ASSUME NEW e \in Weighty(f, w, S) PROVE f[e] \in ActorsOf(g, X)
    <3>1. e \in S /\ f[e] # "" /\ w[e] > 0
      BY DEF Weighty, Keyed, Positive
    <3>2. e \notin S \ X
      <4>1. e \in S \ X => w[e] = 0
        BY DEF CountsOnly
      <4>2. w[e] \in Nat
        BY <3>1
      <4>3. w[e] # 0
        <5>1. \A n \in Nat : n > 0 => n # 0
          OBVIOUS
        <5> QED  BY Zenon, <3>1, <4>2, <5>1
      <4> QED  BY <4>1, <4>3
    <3>3. e \in X /\ f[e] = g[e]
      BY <3>1, <3>2 DEF CountsOnly
    <3> QED  BY <3>1, <3>3 DEF ActorsOf
  <2> QED  BY <2>1
<1>3. ASSUME NEW k, k # "", k \notin {f[e] : e \in Weighty(f, w, S)} PROVE GivenTo(v, g, X, k) = 0
  <2>1. {e \in Weighty(f, w, S) : f[e] = k} = {}
    BY <1>3
  <2>2. Truth(f, w, S, k) = 0
    BY <2>1, SumEmpty DEF Truth
  <2> QED  BY <1>1, <1>3, <2>2
<1> QED  BY <1>1, <1>2, <1>3, Zenon DEF GivenAre

\* A finding with another count.
LEMMA HitCount ==
  ASSUME NEW r, NEW v, NEW a, NEW n, NEW t, NEW m
  PROVE  Hit(r, v, a, n, t).count = n /\ [Hit(r, v, a, n, t) EXCEPT !.count = m] = Hit(r, v, a, m, t)
<1>1. PICK x : x = Hit(r, v, a, n, t)
  OBVIOUS
<1>2. PICK y : y = Hit(r, v, a, m, t)
  OBVIOUS
<1>3. x = [rule |-> r, severity |-> v, actor |-> a, count |-> n, time |-> t, detail |-> 0, key |-> ""]
  BY <1>1, Zenon DEF Hit
<1>4. y = [rule |-> r, severity |-> v, actor |-> a, count |-> m, time |-> t, detail |-> 0, key |-> ""]
  BY <1>2, Zenon DEF Hit
<1>5. [x EXCEPT !.count = m] = y
  <2>1. DOMAIN x = {"rule", "severity", "actor", "count", "time", "detail", "key"} /\ DOMAIN y = DOMAIN x
    BY <1>3, <1>4
  <2>2. PICK z : z = [x EXCEPT !.count = m]
    OBVIOUS
  <2>3. z = [i \in DOMAIN x |-> IF i = "count" THEN m ELSE x[i]]
    BY <2>2
  <2>4. \A i \in DOMAIN x : y[i] = IF i = "count" THEN m ELSE x[i]
    <3>1. /\ y["rule"] = x["rule"] /\ y["severity"] = x["severity"] /\ y["actor"] = x["actor"] /\ y["count"] = m
          /\ y["time"] = x["time"] /\ y["detail"] = x["detail"] /\ y["key"] = x["key"]
      BY <1>3, <1>4
    <3> QED  BY <2>1, <3>1
  <2>5. y = [i \in DOMAIN x |-> y[i]]
    BY <1>4, <2>1
  <2> QED  BY <2>2, <2>3, <2>4, <2>5
<1>6. x.count = n
  BY <1>3
<1> QED  BY <1>1, <1>2, <1>5, <1>6, Zenon

\* The findings that a rule makes of a capped counter, and those of what it counts.
CapHits(c, rule, severity, least, first) ==
  {Hit(rule, severity, k, c[k], first) : k \in {j \in DOMAIN c \ {OtherKey} : c[j] >= least}}
CountedHits(v, g, X, rule, severity, least, first) ==
  {Hit(rule, severity, a, GivenTo(v, g, X, a), first) : a \in {b \in ActorsOf(g, X) : GivenTo(v, g, X, b) >= least}}

\* Findings E are among C but for counts that are too low, and all of C if the counter c never folded.
PairUp(E, C, c) ==
  /\ \A h \in E : \E d \in C : h.count <= d.count /\ h = [d EXCEPT !.count = h.count]
  /\ OtherKey \in DOMAIN c \/ E = C
  /\ IsFiniteSet(E)

\* The findings over a capped counter pair up with those over an exact count.
LEMMA FoundByCap ==
  ASSUME NEW S, IsFiniteSet(S), NEW X \in SUBSET S, NEW f, NEW w, NEW v, NEW g, CountsOnly(f, w, S, v, g, X),
         \A e \in S : w[e] \in Nat, NEW c, CapIs(c, f, w, S),
         NEW least \in Nat, least > 0, NEW rule, NEW severity, NEW first
  PROVE  PairUp(CapHits(c, rule, severity, least, first), CountedHits(v, g, X, rule, severity, least, first), c)
<1>1. PICK F : F = {f[e] : e \in Weighty(f, w, S)}
  OBVIOUS
<1>2. PICK T : T = [a \in ActorsOf(g, X) |-> GivenTo(v, g, X, a)]
  OBVIOUS
<1>3. PICK A : A = ActorsOf(g, X)
  OBVIOUS
<1>4. /\ F \subseteq A /\ "" \notin A
      /\ \A a \in A : T[a] = GivenTo(v, g, X, a) /\ T[a] = Truth(f, w, S, a)
      /\ \A a \in A \ F : T[a] = 0
  <2>0. GivenAre(f, w, S, v, g, X)
    BY GivenIs
  <2>1. F \subseteq A
    BY Zenon, <1>1, <1>3, <2>0 DEF GivenAre
  <2>2. "" \notin A
    BY <1>3 DEF ActorsOf
  <2>3. \A a \in A : T[a] = GivenTo(v, g, X, a)
    BY <1>2, <1>3
  <2>4. \A a \in A : Truth(f, w, S, a) = GivenTo(v, g, X, a)
    <3>1. \A k : k # "" => Truth(f, w, S, k) = GivenTo(v, g, X, k)
      BY Zenon, <2>0 DEF GivenAre
    <3> QED  BY Zenon, <2>2, <3>1
  <2>5. \A a \in A \ F : GivenTo(v, g, X, a) = 0
    <3>1. \A k : k # "" /\ k \notin {f[e] : e \in Weighty(f, w, S)} => GivenTo(v, g, X, k) = 0
      BY Zenon, <2>0 DEF GivenAre
    <3> QED  BY Zenon, <1>1, <2>2, <3>1
  <2> QED  BY <2>1, <2>2, <2>3, <2>4, <2>5
<1>5. /\ IsFiniteSet(DOMAIN c) /\ \A k \in DOMAIN c : c[k] \in Int
      /\ \A k \in DOMAIN c \ {OtherKey} : c[k] > 0 /\ c[k] <= Truth(f, w, S, k)
      /\ OtherKey \notin DOMAIN c => DOMAIN c = F /\ \A k \in DOMAIN c : c[k] = Truth(f, w, S, k)
  BY <1>1 DEF CapIs
<1>6. \A k : k \notin F => Truth(f, w, S, k) = 0
  <2> SUFFICES ASSUME NEW k, k \notin F PROVE Truth(f, w, S, k) = 0
    OBVIOUS
  <2>1. {e \in Weighty(f, w, S) : f[e] = k} = {}
    BY <1>1
  <2> QED  BY <2>1, SumEmpty DEF Truth
<1>7. \A k \in DOMAIN c \ {OtherKey} : k \in F /\ k \in A /\ c[k] <= T[k] /\ c[k] \in Int /\ T[k] = Truth(f, w, S, k)
  <2> SUFFICES ASSUME NEW k \in DOMAIN c \ {OtherKey}
               PROVE  k \in F /\ k \in A /\ c[k] <= T[k] /\ c[k] \in Int /\ T[k] = Truth(f, w, S, k)
    OBVIOUS
  <2>1. c[k] > 0 /\ c[k] <= Truth(f, w, S, k) /\ c[k] \in Int
    BY <1>5
  <2>2. k \in F
    <3>1. k \notin F => Truth(f, w, S, k) = 0
      BY <1>6
    <3> QED  BY <2>1, <3>1
  <2>3. k \in A /\ T[k] = Truth(f, w, S, k)
    BY <1>4, <2>2
  <2> QED  BY <2>1, <2>2, <2>3
<1>8. PICK P, Q : /\ P = {j \in DOMAIN c \ {OtherKey} : c[j] >= least}
                  /\ Q = {b \in A : T[b] >= least}
  OBVIOUS
<1>9. PICK E, C : /\ E = {Hit(rule, severity, k, c[k], first) : k \in P}
                  /\ C = {Hit(rule, severity, a, T[a], first) : a \in Q}
  BY Zenon
<1>10. P \subseteq Q /\ \A k \in P : c[k] <= T[k]
  <2>0. \A a \in A : T[a] \in Int
    <3>1. \A e \in S : w[e] \in Int
      OBVIOUS
    <3>2. ASSUME NEW k PROVE Truth(f, w, S, k) \in Int
      <4>1. PICK Y : Y = {e \in Weighty(f, w, S) : f[e] = k}
        OBVIOUS
      <4>2. Y \in SUBSET S
        BY <4>1 DEF Weighty, Keyed
      <4>3. Sum(w, Y) \in Int
        BY <3>1, <4>2, FS_Subset, SumRec
      <4> QED  BY <4>1, <4>3 DEF Truth
    <3> QED  BY <1>4, <3>2
  <2> QED  BY <1>7, <1>8, <2>0
<1>11. ASSUME NEW h \in E PROVE \E d \in C : h.count <= d.count /\ h = [d EXCEPT !.count = h.count]
  <2>1. PICK k \in P : h = Hit(rule, severity, k, c[k], first)
    BY Zenon, <1>9
  <2>2. PICK d : d = Hit(rule, severity, k, T[k], first)
    BY Zenon
  <2>3. d \in C
    BY Zenon, <1>9, <1>10, <2>1, <2>2
  <2>4. h.count = c[k] /\ d.count = T[k] /\ [d EXCEPT !.count = c[k]] = h
    <3>1. Hit(rule, severity, k, c[k], first).count = c[k] /\ Hit(rule, severity, k, T[k], first).count = T[k]
      BY HitCount
    <3>2. [Hit(rule, severity, k, T[k], first) EXCEPT !.count = c[k]] = Hit(rule, severity, k, c[k], first)
      BY HitCount
    <3> QED  BY Zenon, <2>1, <2>2, <3>1, <3>2
  <2>5. c[k] <= T[k]
    BY <1>10, <2>1
  <2> QED  BY <2>3, <2>4, <2>5
<1>12. ASSUME OtherKey \notin DOMAIN c PROVE E = C
  <2>1. \A k \in F : k \in DOMAIN c \ {OtherKey} /\ c[k] = T[k]
    BY <1>4, <1>5, <1>12
  <2>2. ASSUME NEW k \in Q PROVE k \in F
    <3>1. k \in A /\ T[k] >= least
      BY <1>8
    <3>2. k \notin F => T[k] = 0
      BY <1>4, <3>1
    <3> QED  BY <3>1, <3>2
  <2>3. P = Q
    BY <1>8, <1>10, <2>1, <2>2
  <2>4. \A k \in P : c[k] = T[k]
    BY <2>1, <2>2, <2>3
  <2> QED  BY Zenon, <1>9, <2>3, <2>4
<1>13. IsFiniteSet(E)
  <2>1. PICK h : h = [k \in P |-> Hit(rule, severity, k, c[k], first)]
    BY Zenon
  <2>2. E = {h[k] : k \in P}
    <3>1. \A k \in P : h[k] = Hit(rule, severity, k, c[k], first)
      BY Zenon, <2>1
    <3> QED  BY Zenon, <1>9, <3>1
  <2>3. P \in SUBSET DOMAIN c
    BY <1>8
  <2>4. IsFiniteSet(P)
    BY <1>5, <2>3, FS_Subset
  <2> QED  BY <2>2, <2>4, KeysFinite
<1>14. PairUp(E, C, c)
  BY <1>11, <1>12, <1>13 DEF PairUp
<1>15. {b \in ActorsOf(g, X) : GivenTo(v, g, X, b) >= least} = Q
  BY Zenon, <1>3, <1>4, <1>8
<1>16. {Hit(rule, severity, a, GivenTo(v, g, X, a), first) : a \in Q} = C
  <2>1. \A a \in Q : GivenTo(v, g, X, a) = T[a]
    BY <1>4, <1>8
  <2> QED  BY Zenon, <1>9, <2>1
<1>17. CapHits(c, rule, severity, least, first) = E
  BY Zenon, <1>8, <1>9 DEF CapHits
<1>18. CountedHits(v, g, X, rule, severity, least, first) = C
  BY Zenon, <1>15, <1>16 DEF CountedHits
<1> QED  BY Zenon, <1>14, <1>17, <1>18

\* Whom the entries of U are by, and what they were sent.
PrincipalsIn(U) == [e \in U |-> Principal(e)]
SentIn(U) == [e \in U |-> IF e.sent > 0 THEN e.sent ELSE 0]

\* What the requests X add up to for an address or a principal.
LEMMA GivenSums ==
  ASSUME NEW U, NEW X \in SUBSET U
  PROVE  /\ {e.ip : e \in X} \ {""} = ActorsOf(IpsIn(U), X)
         /\ {Principal(e) : e \in X} \ {""} = ActorsOf(PrincipalsIn(U), X)
         /\ \A a : SumOf({e \in X : e.ip = a}, LAMBDA e : 1) = GivenTo(OnesIn(U), IpsIn(U), X, a)
         /\ \A a : SumOf({e \in X : Principal(e) = a}, LAMBDA e : 1) = GivenTo(OnesIn(U), PrincipalsIn(U), X, a)
         /\ \A a : SumOf({e \in X : e.ip = a}, LAMBDA e : IF e.sent > 0 THEN e.sent ELSE 0) = GivenTo(SentIn(U), IpsIn(U), X, a)
         /\ \A a : SumOf({e \in X : Principal(e) = a}, LAMBDA e : IF e.sent > 0 THEN e.sent ELSE 0) = GivenTo(SentIn(U), PrincipalsIn(U), X, a)
<1>1. PICK i, p, o, t : i = IpsIn(U) /\ p = PrincipalsIn(U) /\ o = OnesIn(U) /\ t = SentIn(U)
  OBVIOUS
<1>2. \A e \in X : i[e] = e.ip /\ p[e] = Principal(e) /\ o[e] = 1 /\ t[e] = IF e.sent > 0 THEN e.sent ELSE 0
  BY <1>1, Zenon DEF IpsIn, PrincipalsIn, OnesIn, SentIn
<1>3. {e.ip : e \in X} = {i[e] : e \in X} /\ {Principal(e) : e \in X} = {p[e] : e \in X}
  BY <1>2, Zenon
<1>4. ASSUME NEW a, NEW Y, Y = {e \in X : e.ip = a}
      PROVE  /\ Sum([e \in Y |-> 1], Y) = GivenTo(o, i, X, a)
             /\ Sum([e \in Y |-> IF e.sent > 0 THEN e.sent ELSE 0], Y) = GivenTo(t, i, X, a)
  <2>1. Y = {x \in X : i[x] = a} /\ Y \subseteq X
    BY <1>2, <1>4
  <2>2. [e \in Y |-> 1] = [e \in Y |-> o[e]] /\ [e \in Y |-> IF e.sent > 0 THEN e.sent ELSE 0] = [e \in Y |-> t[e]]
    BY <1>2, <2>1
  <2> QED  BY <2>1, <2>2 DEF GivenTo
<1>5. ASSUME NEW a, NEW Y, Y = {e \in X : Principal(e) = a}
      PROVE  /\ Sum([e \in Y |-> 1], Y) = GivenTo(o, p, X, a)
             /\ Sum([e \in Y |-> IF e.sent > 0 THEN e.sent ELSE 0], Y) = GivenTo(t, p, X, a)
  <2>1. Y = {x \in X : p[x] = a} /\ Y \subseteq X
    BY <1>2, <1>5
  <2>2. [e \in Y |-> 1] = [e \in Y |-> o[e]] /\ [e \in Y |-> IF e.sent > 0 THEN e.sent ELSE 0] = [e \in Y |-> t[e]]
    BY <1>2, <2>1
  <2> QED  BY <2>1, <2>2 DEF GivenTo
<1>6. \A a : SumOf({e \in X : e.ip = a}, LAMBDA e : 1) = GivenTo(o, i, X, a)
  <2> SUFFICES ASSUME NEW a PROVE SumOf({e \in X : e.ip = a}, LAMBDA e : 1) = GivenTo(o, i, X, a)
    OBVIOUS
  <2>1. PICK Y : Y = {e \in X : e.ip = a}
    OBVIOUS
  <2> QED  BY <1>4, <2>1 DEF SumOf
<1>7. \A a : SumOf({e \in X : Principal(e) = a}, LAMBDA e : 1) = GivenTo(o, p, X, a)
  <2> SUFFICES ASSUME NEW a PROVE SumOf({e \in X : Principal(e) = a}, LAMBDA e : 1) = GivenTo(o, p, X, a)
    OBVIOUS
  <2>1. PICK Y : Y = {e \in X : Principal(e) = a}
    OBVIOUS
  <2> QED  BY <1>5, <2>1 DEF SumOf
<1>8. \A a : SumOf({e \in X : e.ip = a}, LAMBDA e : IF e.sent > 0 THEN e.sent ELSE 0) = GivenTo(t, i, X, a)
  <2> SUFFICES ASSUME NEW a PROVE SumOf({e \in X : e.ip = a}, LAMBDA e : IF e.sent > 0 THEN e.sent ELSE 0) = GivenTo(t, i, X, a)
    OBVIOUS
  <2>1. PICK Y : Y = {e \in X : e.ip = a}
    OBVIOUS
  <2> QED  BY <1>4, <2>1 DEF SumOf
<1>9. \A a : SumOf({e \in X : Principal(e) = a}, LAMBDA e : IF e.sent > 0 THEN e.sent ELSE 0) = GivenTo(t, p, X, a)
  <2> SUFFICES ASSUME NEW a PROVE SumOf({e \in X : Principal(e) = a}, LAMBDA e : IF e.sent > 0 THEN e.sent ELSE 0) = GivenTo(t, p, X, a)
    OBVIOUS
  <2>1. PICK Y : Y = {e \in X : Principal(e) = a}
    OBVIOUS
  <2> QED  BY <1>5, <2>1 DEF SumOf
<1>10. {e.ip : e \in X} \ {""} = ActorsOf(i, X) /\ {Principal(e) : e \in X} \ {""} = ActorsOf(p, X)
  BY Zenon, <1>3 DEF ActorsOf
<1> QED  BY <1>1, <1>6, <1>7, <1>8, <1>9, <1>10

\* The entries that are of a rule.
DeniedOnes(S) == {e \in S : Denied(e)}
KnownOnes(S) == {e \in S : e.requester # ""}
DeleteOnes(S) == {e \in S : Success(e) /\ e.operation \in DeleteOps}
WeakOnes(S) == {e \in S : WeakTLS(e)}
PlainOnes(S) == {e \in S : e.plainHTTP}
SigOnes(S) == {e \in S : SigV2(e)}

\* The findings that counters make of the requests S, rule by rule.
CountedFound(U, S, denied, deletes, egress, first) ==
  CountedHits(OnesIn(U), IpsIn(U), DeniedOnes(S), "s3-access-denied-burst", HIGH, denied, first)
  \cup CountedHits(OnesIn(U), PrincipalsIn(U), DeniedOnes(S) \cap KnownOnes(S), "s3-access-denied-burst", HIGH, denied, first)
  \cup CountedHits(OnesIn(U), PrincipalsIn(U), DeleteOnes(S), "s3-mass-delete", HIGH, deletes, first)
  \cup CountedHits(SentIn(U), IpsIn(U), S, "s3-large-egress", MEDIUM, egress, first)
  \cup CountedHits(SentIn(U), PrincipalsIn(U), KnownOnes(S), "s3-large-egress", MEDIUM, egress, first)
  \cup CountedHits(OnesIn(U), PrincipalsIn(U), WeakOnes(S), "s3-weak-tls", LOW, 1, first)
  \cup CountedHits(OnesIn(U), PrincipalsIn(U), PlainOnes(S), "s3-plain-http", LOW, 1, first)
  \cup CountedHits(OnesIn(U), PrincipalsIn(U), SigOnes(S), "s3-sigv2", LOW, 1, first)

\* They are those of S3Counted.
LEMMA CountedSplit ==
  ASSUME NEW U, NEW S \in SUBSET U, NEW denied, NEW deletes, NEW egress, NEW first, first = SpanOf(S).first
  PROVE  S3Counted(S, denied, deletes, egress) = CountedFound(U, S, denied, deletes, egress, first)
<1>1. ASSUME NEW X \in SUBSET U, NEW rule, NEW severity, NEW least
      PROVE  {Hit(rule, severity, a, Sum([e \in {e \in X : e.ip = a} |-> 1], {e \in X : e.ip = a}), first) :
                a \in {b \in {e.ip : e \in X} \ {""} : Sum([e \in {e \in X : e.ip = b} |-> 1], {e \in X : e.ip = b}) >= least}}
             = CountedHits(OnesIn(U), IpsIn(U), X, rule, severity, least, first)
  <2>1. {e.ip : e \in X} \ {""} = ActorsOf(IpsIn(U), X)
    BY GivenSums
  <2>2. \A a : SumOf({e \in X : e.ip = a}, LAMBDA e : 1) = GivenTo(OnesIn(U), IpsIn(U), X, a)
    BY GivenSums
  <2>3. \A a : Sum([e \in {e \in X : e.ip = a} |-> 1], {e \in X : e.ip = a}) = GivenTo(OnesIn(U), IpsIn(U), X, a)
    BY <2>2 DEF SumOf
  <2> QED  BY Zenon, <2>1, <2>3 DEF CountedHits
<1>2. ASSUME NEW X \in SUBSET U, NEW rule, NEW severity, NEW least
      PROVE  {Hit(rule, severity, a, Sum([e \in {e \in X : Principal(e) = a} |-> 1], {e \in X : Principal(e) = a}), first) :
                a \in {b \in {Principal(e) : e \in X} \ {""} : Sum([e \in {e \in X : Principal(e) = b} |-> 1], {e \in X : Principal(e) = b}) >= least}}
             = CountedHits(OnesIn(U), PrincipalsIn(U), X, rule, severity, least, first)
  <2>1. {Principal(e) : e \in X} \ {""} = ActorsOf(PrincipalsIn(U), X)
    BY GivenSums
  <2>2. \A a : SumOf({e \in X : Principal(e) = a}, LAMBDA e : 1) = GivenTo(OnesIn(U), PrincipalsIn(U), X, a)
    BY GivenSums
  <2>3. \A a : Sum([e \in {e \in X : Principal(e) = a} |-> 1], {e \in X : Principal(e) = a}) = GivenTo(OnesIn(U), PrincipalsIn(U), X, a)
    BY <2>2 DEF SumOf
  <2> QED  BY Zenon, <2>1, <2>3 DEF CountedHits
<1>3. ASSUME NEW X \in SUBSET U, NEW rule, NEW severity, NEW least
      PROVE  {Hit(rule, severity, a, Sum([e \in {e \in X : e.ip = a} |-> IF e.sent > 0 THEN e.sent ELSE 0], {e \in X : e.ip = a}), first) :
                a \in {b \in {e.ip : e \in X} \ {""} : Sum([e \in {e \in X : e.ip = b} |-> IF e.sent > 0 THEN e.sent ELSE 0], {e \in X : e.ip = b}) >= least}}
             = CountedHits(SentIn(U), IpsIn(U), X, rule, severity, least, first)
  <2>1. {e.ip : e \in X} \ {""} = ActorsOf(IpsIn(U), X)
    BY GivenSums
  <2>2. \A a : SumOf({e \in X : e.ip = a}, LAMBDA e : IF e.sent > 0 THEN e.sent ELSE 0) = GivenTo(SentIn(U), IpsIn(U), X, a)
    BY GivenSums
  <2>3. \A a : Sum([e \in {e \in X : e.ip = a} |-> IF e.sent > 0 THEN e.sent ELSE 0], {e \in X : e.ip = a}) = GivenTo(SentIn(U), IpsIn(U), X, a)
    BY <2>2 DEF SumOf
  <2> QED  BY Zenon, <2>1, <2>3 DEF CountedHits
<1>4. ASSUME NEW X \in SUBSET U, NEW rule, NEW severity, NEW least
      PROVE  {Hit(rule, severity, a, Sum([e \in {e \in X : Principal(e) = a} |-> IF e.sent > 0 THEN e.sent ELSE 0], {e \in X : Principal(e) = a}), first) :
                a \in {b \in {Principal(e) : e \in X} \ {""} : Sum([e \in {e \in X : Principal(e) = b} |-> IF e.sent > 0 THEN e.sent ELSE 0], {e \in X : Principal(e) = b}) >= least}}
             = CountedHits(SentIn(U), PrincipalsIn(U), X, rule, severity, least, first)
  <2>1. {Principal(e) : e \in X} \ {""} = ActorsOf(PrincipalsIn(U), X)
    BY GivenSums
  <2>2. \A a : SumOf({e \in X : Principal(e) = a}, LAMBDA e : IF e.sent > 0 THEN e.sent ELSE 0) = GivenTo(SentIn(U), PrincipalsIn(U), X, a)
    BY GivenSums
  <2>3. \A a : Sum([e \in {e \in X : Principal(e) = a} |-> IF e.sent > 0 THEN e.sent ELSE 0], {e \in X : Principal(e) = a}) = GivenTo(SentIn(U), PrincipalsIn(U), X, a)
    BY <2>2 DEF SumOf
  <2> QED  BY Zenon, <2>1, <2>3 DEF CountedHits
<1>5. PICK d, n, q, l, w, p, g :
         /\ d = {e \in S : Denied(e)} /\ n = {e \in S : e.requester # ""} /\ q = d \cap n
         /\ l = {e \in S : Success(e) /\ e.operation \in DeleteOps} /\ w = {e \in S : WeakTLS(e)}
         /\ p = {e \in S : e.plainHTTP} /\ g = {e \in S : SigV2(e)}
  OBVIOUS
<1>6. /\ DeniedOnes(S) = d /\ KnownOnes(S) = n /\ DeniedOnes(S) \cap KnownOnes(S) = q /\ DeleteOnes(S) = l
      /\ WeakOnes(S) = w /\ PlainOnes(S) = p /\ SigOnes(S) = g
  BY Zenon, <1>5 DEF DeniedOnes, KnownOnes, DeleteOnes, WeakOnes, PlainOnes, SigOnes
<1>7. /\ d \in SUBSET U /\ n \in SUBSET U /\ q \in SUBSET U /\ l \in SUBSET U /\ w \in SUBSET U /\ p \in SUBSET U
      /\ g \in SUBSET U
  BY <1>5
<1>8. S3Counted(S, denied, deletes, egress)
      = {Hit("s3-access-denied-burst", HIGH, a, Sum([e \in {e \in d : e.ip = a} |-> 1], {e \in d : e.ip = a}), first) : a \in {b \in {e.ip : e \in d} \ {""} : Sum([e \in {e \in d : e.ip = b} |-> 1], {e \in d : e.ip = b}) >= denied}}
        \cup {Hit("s3-access-denied-burst", HIGH, a, Sum([e \in {e \in q : Principal(e) = a} |-> 1], {e \in q : Principal(e) = a}), first) : a \in {b \in {Principal(e) : e \in q} \ {""} : Sum([e \in {e \in q : Principal(e) = b} |-> 1], {e \in q : Principal(e) = b}) >= denied}}
        \cup {Hit("s3-mass-delete", HIGH, a, Sum([e \in {e \in l : Principal(e) = a} |-> 1], {e \in l : Principal(e) = a}), first) : a \in {b \in {Principal(e) : e \in l} \ {""} : Sum([e \in {e \in l : Principal(e) = b} |-> 1], {e \in l : Principal(e) = b}) >= deletes}}
        \cup {Hit("s3-large-egress", MEDIUM, a, Sum([e \in {e \in S : e.ip = a} |-> IF e.sent > 0 THEN e.sent ELSE 0], {e \in S : e.ip = a}), first) : a \in {b \in {e.ip : e \in S} \ {""} : Sum([e \in {e \in S : e.ip = b} |-> IF e.sent > 0 THEN e.sent ELSE 0], {e \in S : e.ip = b}) >= egress}}
        \cup {Hit("s3-large-egress", MEDIUM, a, Sum([e \in {e \in n : Principal(e) = a} |-> IF e.sent > 0 THEN e.sent ELSE 0], {e \in n : Principal(e) = a}), first) : a \in {b \in {Principal(e) : e \in n} \ {""} : Sum([e \in {e \in n : Principal(e) = b} |-> IF e.sent > 0 THEN e.sent ELSE 0], {e \in n : Principal(e) = b}) >= egress}}
        \cup {Hit("s3-weak-tls", LOW, a, Sum([e \in {e \in w : Principal(e) = a} |-> 1], {e \in w : Principal(e) = a}), first) : a \in {b \in {Principal(e) : e \in w} \ {""} : Sum([e \in {e \in w : Principal(e) = b} |-> 1], {e \in w : Principal(e) = b}) >= 1}}
        \cup {Hit("s3-plain-http", LOW, a, Sum([e \in {e \in p : Principal(e) = a} |-> 1], {e \in p : Principal(e) = a}), first) : a \in {b \in {Principal(e) : e \in p} \ {""} : Sum([e \in {e \in p : Principal(e) = b} |-> 1], {e \in p : Principal(e) = b}) >= 1}}
        \cup {Hit("s3-sigv2", LOW, a, Sum([e \in {e \in g : Principal(e) = a} |-> 1], {e \in g : Principal(e) = a}), first) : a \in {b \in {Principal(e) : e \in g} \ {""} : Sum([e \in {e \in g : Principal(e) = b} |-> 1], {e \in g : Principal(e) = b}) >= 1}}
  <2>1. S3Counted(S, denied, deletes, egress)
        = {Hit("s3-access-denied-burst", HIGH, a, Sum([e \in {e \in {e \in S : Denied(e)} : e.ip = a} |-> 1], {e \in {e \in S : Denied(e)} : e.ip = a}), SpanOf(S).first) : a \in {b \in {e.ip : e \in {e \in S : Denied(e)}} \ {""} : Sum([e \in {e \in {e \in S : Denied(e)} : e.ip = b} |-> 1], {e \in {e \in S : Denied(e)} : e.ip = b}) >= denied}}
          \cup {Hit("s3-access-denied-burst", HIGH, a, Sum([e \in {e \in {e \in S : Denied(e)} \cap {e \in S : e.requester # ""} : Principal(e) = a} |-> 1], {e \in {e \in S : Denied(e)} \cap {e \in S : e.requester # ""} : Principal(e) = a}), SpanOf(S).first) : a \in {b \in {Principal(e) : e \in {e \in S : Denied(e)} \cap {e \in S : e.requester # ""}} \ {""} : Sum([e \in {e \in {e \in S : Denied(e)} \cap {e \in S : e.requester # ""} : Principal(e) = b} |-> 1], {e \in {e \in S : Denied(e)} \cap {e \in S : e.requester # ""} : Principal(e) = b}) >= denied}}
          \cup {Hit("s3-mass-delete", HIGH, a, Sum([e \in {e \in {e \in S : Success(e) /\ e.operation \in DeleteOps} : Principal(e) = a} |-> 1], {e \in {e \in S : Success(e) /\ e.operation \in DeleteOps} : Principal(e) = a}), SpanOf(S).first) : a \in {b \in {Principal(e) : e \in {e \in S : Success(e) /\ e.operation \in DeleteOps}} \ {""} : Sum([e \in {e \in {e \in S : Success(e) /\ e.operation \in DeleteOps} : Principal(e) = b} |-> 1], {e \in {e \in S : Success(e) /\ e.operation \in DeleteOps} : Principal(e) = b}) >= deletes}}
          \cup {Hit("s3-large-egress", MEDIUM, a, Sum([e \in {e \in S : e.ip = a} |-> IF e.sent > 0 THEN e.sent ELSE 0], {e \in S : e.ip = a}), SpanOf(S).first) : a \in {b \in {e.ip : e \in S} \ {""} : Sum([e \in {e \in S : e.ip = b} |-> IF e.sent > 0 THEN e.sent ELSE 0], {e \in S : e.ip = b}) >= egress}}
          \cup {Hit("s3-large-egress", MEDIUM, a, Sum([e \in {e \in {e \in S : e.requester # ""} : Principal(e) = a} |-> IF e.sent > 0 THEN e.sent ELSE 0], {e \in {e \in S : e.requester # ""} : Principal(e) = a}), SpanOf(S).first) : a \in {b \in {Principal(e) : e \in {e \in S : e.requester # ""}} \ {""} : Sum([e \in {e \in {e \in S : e.requester # ""} : Principal(e) = b} |-> IF e.sent > 0 THEN e.sent ELSE 0], {e \in {e \in S : e.requester # ""} : Principal(e) = b}) >= egress}}
          \cup {Hit("s3-weak-tls", LOW, a, Sum([e \in {e \in {e \in S : WeakTLS(e)} : Principal(e) = a} |-> 1], {e \in {e \in S : WeakTLS(e)} : Principal(e) = a}), SpanOf(S).first) : a \in {b \in {Principal(e) : e \in {e \in S : WeakTLS(e)}} \ {""} : Sum([e \in {e \in {e \in S : WeakTLS(e)} : Principal(e) = b} |-> 1], {e \in {e \in S : WeakTLS(e)} : Principal(e) = b}) >= 1}}
          \cup {Hit("s3-plain-http", LOW, a, Sum([e \in {e \in {e \in S : e.plainHTTP} : Principal(e) = a} |-> 1], {e \in {e \in S : e.plainHTTP} : Principal(e) = a}), SpanOf(S).first) : a \in {b \in {Principal(e) : e \in {e \in S : e.plainHTTP}} \ {""} : Sum([e \in {e \in {e \in S : e.plainHTTP} : Principal(e) = b} |-> 1], {e \in {e \in S : e.plainHTTP} : Principal(e) = b}) >= 1}}
          \cup {Hit("s3-sigv2", LOW, a, Sum([e \in {e \in {e \in S : SigV2(e)} : Principal(e) = a} |-> 1], {e \in {e \in S : SigV2(e)} : Principal(e) = a}), SpanOf(S).first) : a \in {b \in {Principal(e) : e \in {e \in S : SigV2(e)}} \ {""} : Sum([e \in {e \in {e \in S : SigV2(e)} : Principal(e) = b} |-> 1], {e \in {e \in S : SigV2(e)} : Principal(e) = b}) >= 1}}
    BY Zenon DEF S3Counted, SumOf
  <2>10. {Hit("s3-access-denied-burst", HIGH, a, Sum([e \in {e \in {e \in S : Denied(e)} : e.ip = a} |-> 1], {e \in {e \in S : Denied(e)} : e.ip = a}), SpanOf(S).first) : a \in {b \in {e.ip : e \in {e \in S : Denied(e)}} \ {""} : Sum([e \in {e \in {e \in S : Denied(e)} : e.ip = b} |-> 1], {e \in {e \in S : Denied(e)} : e.ip = b}) >= denied}}
        = {Hit("s3-access-denied-burst", HIGH, a, Sum([e \in {e \in d : e.ip = a} |-> 1], {e \in d : e.ip = a}), first) : a \in {b \in {e.ip : e \in d} \ {""} : Sum([e \in {e \in d : e.ip = b} |-> 1], {e \in d : e.ip = b}) >= denied}}
    BY Zenon, <1>5
  <2>11. {Hit("s3-access-denied-burst", HIGH, a, Sum([e \in {e \in {e \in S : Denied(e)} \cap {e \in S : e.requester # ""} : Principal(e) = a} |-> 1], {e \in {e \in S : Denied(e)} \cap {e \in S : e.requester # ""} : Principal(e) = a}), SpanOf(S).first) : a \in {b \in {Principal(e) : e \in {e \in S : Denied(e)} \cap {e \in S : e.requester # ""}} \ {""} : Sum([e \in {e \in {e \in S : Denied(e)} \cap {e \in S : e.requester # ""} : Principal(e) = b} |-> 1], {e \in {e \in S : Denied(e)} \cap {e \in S : e.requester # ""} : Principal(e) = b}) >= denied}}
        = {Hit("s3-access-denied-burst", HIGH, a, Sum([e \in {e \in q : Principal(e) = a} |-> 1], {e \in q : Principal(e) = a}), first) : a \in {b \in {Principal(e) : e \in q} \ {""} : Sum([e \in {e \in q : Principal(e) = b} |-> 1], {e \in q : Principal(e) = b}) >= denied}}
    <3>1. {e \in S : Denied(e)} \cap {e \in S : e.requester # ""} = q
      BY Zenon, <1>5
    <3> QED  BY Zenon, <3>1
  <2>12. {Hit("s3-mass-delete", HIGH, a, Sum([e \in {e \in {e \in S : Success(e) /\ e.operation \in DeleteOps} : Principal(e) = a} |-> 1], {e \in {e \in S : Success(e) /\ e.operation \in DeleteOps} : Principal(e) = a}), SpanOf(S).first) : a \in {b \in {Principal(e) : e \in {e \in S : Success(e) /\ e.operation \in DeleteOps}} \ {""} : Sum([e \in {e \in {e \in S : Success(e) /\ e.operation \in DeleteOps} : Principal(e) = b} |-> 1], {e \in {e \in S : Success(e) /\ e.operation \in DeleteOps} : Principal(e) = b}) >= deletes}}
        = {Hit("s3-mass-delete", HIGH, a, Sum([e \in {e \in l : Principal(e) = a} |-> 1], {e \in l : Principal(e) = a}), first) : a \in {b \in {Principal(e) : e \in l} \ {""} : Sum([e \in {e \in l : Principal(e) = b} |-> 1], {e \in l : Principal(e) = b}) >= deletes}}
    BY Zenon, <1>5
  <2>13. {Hit("s3-large-egress", MEDIUM, a, Sum([e \in {e \in S : e.ip = a} |-> IF e.sent > 0 THEN e.sent ELSE 0], {e \in S : e.ip = a}), SpanOf(S).first) : a \in {b \in {e.ip : e \in S} \ {""} : Sum([e \in {e \in S : e.ip = b} |-> IF e.sent > 0 THEN e.sent ELSE 0], {e \in S : e.ip = b}) >= egress}}
        = {Hit("s3-large-egress", MEDIUM, a, Sum([e \in {e \in S : e.ip = a} |-> IF e.sent > 0 THEN e.sent ELSE 0], {e \in S : e.ip = a}), first) : a \in {b \in {e.ip : e \in S} \ {""} : Sum([e \in {e \in S : e.ip = b} |-> IF e.sent > 0 THEN e.sent ELSE 0], {e \in S : e.ip = b}) >= egress}}
    BY Zenon, <1>5
  <2>14. {Hit("s3-large-egress", MEDIUM, a, Sum([e \in {e \in {e \in S : e.requester # ""} : Principal(e) = a} |-> IF e.sent > 0 THEN e.sent ELSE 0], {e \in {e \in S : e.requester # ""} : Principal(e) = a}), SpanOf(S).first) : a \in {b \in {Principal(e) : e \in {e \in S : e.requester # ""}} \ {""} : Sum([e \in {e \in {e \in S : e.requester # ""} : Principal(e) = b} |-> IF e.sent > 0 THEN e.sent ELSE 0], {e \in {e \in S : e.requester # ""} : Principal(e) = b}) >= egress}}
        = {Hit("s3-large-egress", MEDIUM, a, Sum([e \in {e \in n : Principal(e) = a} |-> IF e.sent > 0 THEN e.sent ELSE 0], {e \in n : Principal(e) = a}), first) : a \in {b \in {Principal(e) : e \in n} \ {""} : Sum([e \in {e \in n : Principal(e) = b} |-> IF e.sent > 0 THEN e.sent ELSE 0], {e \in n : Principal(e) = b}) >= egress}}
    BY Zenon, <1>5
  <2>15. {Hit("s3-weak-tls", LOW, a, Sum([e \in {e \in {e \in S : WeakTLS(e)} : Principal(e) = a} |-> 1], {e \in {e \in S : WeakTLS(e)} : Principal(e) = a}), SpanOf(S).first) : a \in {b \in {Principal(e) : e \in {e \in S : WeakTLS(e)}} \ {""} : Sum([e \in {e \in {e \in S : WeakTLS(e)} : Principal(e) = b} |-> 1], {e \in {e \in S : WeakTLS(e)} : Principal(e) = b}) >= 1}}
        = {Hit("s3-weak-tls", LOW, a, Sum([e \in {e \in w : Principal(e) = a} |-> 1], {e \in w : Principal(e) = a}), first) : a \in {b \in {Principal(e) : e \in w} \ {""} : Sum([e \in {e \in w : Principal(e) = b} |-> 1], {e \in w : Principal(e) = b}) >= 1}}
    BY Zenon, <1>5
  <2>16. {Hit("s3-plain-http", LOW, a, Sum([e \in {e \in {e \in S : e.plainHTTP} : Principal(e) = a} |-> 1], {e \in {e \in S : e.plainHTTP} : Principal(e) = a}), SpanOf(S).first) : a \in {b \in {Principal(e) : e \in {e \in S : e.plainHTTP}} \ {""} : Sum([e \in {e \in {e \in S : e.plainHTTP} : Principal(e) = b} |-> 1], {e \in {e \in S : e.plainHTTP} : Principal(e) = b}) >= 1}}
        = {Hit("s3-plain-http", LOW, a, Sum([e \in {e \in p : Principal(e) = a} |-> 1], {e \in p : Principal(e) = a}), first) : a \in {b \in {Principal(e) : e \in p} \ {""} : Sum([e \in {e \in p : Principal(e) = b} |-> 1], {e \in p : Principal(e) = b}) >= 1}}
    BY Zenon, <1>5
  <2>17. {Hit("s3-sigv2", LOW, a, Sum([e \in {e \in {e \in S : SigV2(e)} : Principal(e) = a} |-> 1], {e \in {e \in S : SigV2(e)} : Principal(e) = a}), SpanOf(S).first) : a \in {b \in {Principal(e) : e \in {e \in S : SigV2(e)}} \ {""} : Sum([e \in {e \in {e \in S : SigV2(e)} : Principal(e) = b} |-> 1], {e \in {e \in S : SigV2(e)} : Principal(e) = b}) >= 1}}
        = {Hit("s3-sigv2", LOW, a, Sum([e \in {e \in g : Principal(e) = a} |-> 1], {e \in g : Principal(e) = a}), first) : a \in {b \in {Principal(e) : e \in g} \ {""} : Sum([e \in {e \in g : Principal(e) = b} |-> 1], {e \in g : Principal(e) = b}) >= 1}}
    BY Zenon, <1>5
  <2> QED  BY Zenon, <2>1, <2>10, <2>11, <2>12, <2>13, <2>14, <2>15, <2>16, <2>17
<1>10. {Hit("s3-access-denied-burst", HIGH, a, Sum([e \in {e \in d : e.ip = a} |-> 1], {e \in d : e.ip = a}), first) : a \in {b \in {e.ip : e \in d} \ {""} : Sum([e \in {e \in d : e.ip = b} |-> 1], {e \in d : e.ip = b}) >= denied}}
       = CountedHits(OnesIn(U), IpsIn(U), d, "s3-access-denied-burst", HIGH, denied, first)
  BY Zenon, <1>1, <1>7
<1>11. {Hit("s3-access-denied-burst", HIGH, a, Sum([e \in {e \in q : Principal(e) = a} |-> 1], {e \in q : Principal(e) = a}), first) : a \in {b \in {Principal(e) : e \in q} \ {""} : Sum([e \in {e \in q : Principal(e) = b} |-> 1], {e \in q : Principal(e) = b}) >= denied}}
       = CountedHits(OnesIn(U), PrincipalsIn(U), q, "s3-access-denied-burst", HIGH, denied, first)
  BY Zenon, <1>2, <1>7
<1>12. {Hit("s3-mass-delete", HIGH, a, Sum([e \in {e \in l : Principal(e) = a} |-> 1], {e \in l : Principal(e) = a}), first) : a \in {b \in {Principal(e) : e \in l} \ {""} : Sum([e \in {e \in l : Principal(e) = b} |-> 1], {e \in l : Principal(e) = b}) >= deletes}}
       = CountedHits(OnesIn(U), PrincipalsIn(U), l, "s3-mass-delete", HIGH, deletes, first)
  BY Zenon, <1>2, <1>7
<1>13. {Hit("s3-large-egress", MEDIUM, a, Sum([e \in {e \in S : e.ip = a} |-> IF e.sent > 0 THEN e.sent ELSE 0], {e \in S : e.ip = a}), first) : a \in {b \in {e.ip : e \in S} \ {""} : Sum([e \in {e \in S : e.ip = b} |-> IF e.sent > 0 THEN e.sent ELSE 0], {e \in S : e.ip = b}) >= egress}}
       = CountedHits(SentIn(U), IpsIn(U), S, "s3-large-egress", MEDIUM, egress, first)
  BY Zenon, <1>3, <1>7
<1>14. {Hit("s3-large-egress", MEDIUM, a, Sum([e \in {e \in n : Principal(e) = a} |-> IF e.sent > 0 THEN e.sent ELSE 0], {e \in n : Principal(e) = a}), first) : a \in {b \in {Principal(e) : e \in n} \ {""} : Sum([e \in {e \in n : Principal(e) = b} |-> IF e.sent > 0 THEN e.sent ELSE 0], {e \in n : Principal(e) = b}) >= egress}}
       = CountedHits(SentIn(U), PrincipalsIn(U), n, "s3-large-egress", MEDIUM, egress, first)
  BY Zenon, <1>4, <1>7
<1>15. {Hit("s3-weak-tls", LOW, a, Sum([e \in {e \in w : Principal(e) = a} |-> 1], {e \in w : Principal(e) = a}), first) : a \in {b \in {Principal(e) : e \in w} \ {""} : Sum([e \in {e \in w : Principal(e) = b} |-> 1], {e \in w : Principal(e) = b}) >= 1}}
       = CountedHits(OnesIn(U), PrincipalsIn(U), w, "s3-weak-tls", LOW, 1, first)
  BY Zenon, <1>2, <1>7
<1>16. {Hit("s3-plain-http", LOW, a, Sum([e \in {e \in p : Principal(e) = a} |-> 1], {e \in p : Principal(e) = a}), first) : a \in {b \in {Principal(e) : e \in p} \ {""} : Sum([e \in {e \in p : Principal(e) = b} |-> 1], {e \in p : Principal(e) = b}) >= 1}}
       = CountedHits(OnesIn(U), PrincipalsIn(U), p, "s3-plain-http", LOW, 1, first)
  BY Zenon, <1>2, <1>7
<1>17. {Hit("s3-sigv2", LOW, a, Sum([e \in {e \in g : Principal(e) = a} |-> 1], {e \in g : Principal(e) = a}), first) : a \in {b \in {Principal(e) : e \in g} \ {""} : Sum([e \in {e \in g : Principal(e) = b} |-> 1], {e \in g : Principal(e) = b}) >= 1}}
       = CountedHits(OnesIn(U), PrincipalsIn(U), g, "s3-sigv2", LOW, 1, first)
  BY Zenon, <1>2, <1>7
<1>20. S3Counted(S, denied, deletes, egress)
       = CountedHits(OnesIn(U), IpsIn(U), DeniedOnes(S), "s3-access-denied-burst", HIGH, denied, first)
         \cup CountedHits(OnesIn(U), PrincipalsIn(U), DeniedOnes(S) \cap KnownOnes(S), "s3-access-denied-burst", HIGH, denied, first)
         \cup CountedHits(OnesIn(U), PrincipalsIn(U), DeleteOnes(S), "s3-mass-delete", HIGH, deletes, first)
         \cup CountedHits(SentIn(U), IpsIn(U), S, "s3-large-egress", MEDIUM, egress, first)
         \cup CountedHits(SentIn(U), PrincipalsIn(U), KnownOnes(S), "s3-large-egress", MEDIUM, egress, first)
         \cup CountedHits(OnesIn(U), PrincipalsIn(U), WeakOnes(S), "s3-weak-tls", LOW, 1, first)
         \cup CountedHits(OnesIn(U), PrincipalsIn(U), PlainOnes(S), "s3-plain-http", LOW, 1, first)
         \cup CountedHits(OnesIn(U), PrincipalsIn(U), SigOnes(S), "s3-sigv2", LOW, 1, first)
  BY Zenon, <1>6, <1>8, <1>10, <1>11, <1>12, <1>13, <1>14, <1>15, <1>16, <1>17
<1> QED  BY Zenon, <1>20 DEF CountedFound

\* Their time is the first of the requests.
LEMMA CountedAre ==
  ASSUME NEW U, NEW S \in SUBSET U, NEW denied, NEW deletes, NEW egress
  PROVE  S3Counted(S, denied, deletes, egress) = CountedFound(U, S, denied, deletes, egress, SpanOf(S).first)
BY ZenonT(60), CountedSplit

\* What an entry adds to the counters that rules read.
LEMMA RuleKeys ==
  ASSUME NEW e
  PROVE  /\ s3Capped(e).DeniedByIP = OneKey(e.ip, One(Denied(e)))
         /\ s3Capped(e).DeniedByRequester = OneKey(Principal(e), One(Denied(e) /\ e.requester # ""))
         /\ s3Capped(e).DeletesByPrincipal = OneKey(Principal(e), One(Success(e) /\ e.operation \in DeleteOps))
         /\ s3Capped(e).BytesByIP = OneKey(e.ip, IF e.sent > 0 THEN e.sent ELSE 0)
         /\ s3Capped(e).BytesByRequester = OneKey(Principal(e), IF e.requester # "" THEN IF e.sent > 0 THEN e.sent ELSE 0 ELSE 0)
         /\ s3Capped(e).WeakTLSBy = OneKey(Principal(e), One(WeakTLS(e)))
         /\ s3Capped(e).PlainHTTPBy = OneKey(Principal(e), One(e.plainHTTP))
         /\ s3Capped(e).SigV2By = OneKey(Principal(e), One(SigV2(e)))
BY Zenon DEF s3Capped

\* A counter of what the requests X give the actors g, each v.
LEMMA CapPairs ==
  ASSUME NEW U, IsFiniteSet(U), \A e \in U : e.sent \in Int, NEW S \in SUBSET U, NEW s, S3Rep(s, S, U),
         NEW n \in s3CappedCounters, NEW X \in SUBSET S, NEW v, NEW g,
         \A e \in X : s3Capped(e)[n].key = g[e] /\ s3Capped(e)[n].n = v[e],
         \A e \in S \ X : s3Capped(e)[n].n = 0,
         NEW least \in Nat, least > 0, NEW rule, NEW severity, NEW first
  PROVE  PairUp(CapHits(s.capped[n], rule, severity, least, first), CountedHits(v, g, X, rule, severity, least, first),
                s.capped[n])
<1>1. PICK K : K = [e \in U |-> s3Capped(e)]
  OBVIOUS
<1>2. CapsAre(s.capped, K, s3CappedCounters, S) /\ Weighing(K, s3CappedCounters, U)
  BY <1>1, S3CappedAre, Zenon DEF S3Rep
<1>3. PICK f, w : f = KeyOf(K, n) /\ w = MuchOf(K, n)
  OBVIOUS
<1>4. CapIs(s.capped[n], f, w, S)
  BY <1>2, <1>3, Zenon DEF CapsAre
<1>5. \A e \in S : f[e] = s3Capped(e)[n].key /\ w[e] = s3Capped(e)[n].n /\ w[e] \in Nat
  <2>1. \A e \in S : e \in U /\ K[e] = s3Capped(e)
    BY <1>1
  <2>2. DOMAIN K = U /\ \A e \in U : K[e][n].n \in Nat
    BY <1>2 DEF Weighing
  <2> QED  BY <1>3, <2>1, <2>2 DEF KeyOf, MuchOf
<1>6. CountsOnly(f, w, S, v, g, X)
  <2>1. \A e \in X : e \in S
    OBVIOUS
  <2> QED  BY Zenon, <1>5, <2>1 DEF CountsOnly
<1>7. IsFiniteSet(S)
  BY FS_Subset
<1>8. \A e \in S : w[e] \in Nat
  BY <1>5
<1>9. PICK c : c = s.capped[n]
  OBVIOUS
<1>10. CapIs(c, f, w, S)
  BY <1>4, <1>9
<1>11. PairUp(CapHits(c, rule, severity, least, first), CountedHits(v, g, X, rule, severity, least, first), c)
  BY <1>6, <1>7, <1>8, <1>10, FoundByCap
<1> QED  BY <1>9, <1>11

\* The findings of the capped counters, rule by rule.
S3Pairs(c, S, U, denied, deletes, egress, first) ==
  /\ PairUp(CapHits(c["DeniedByIP"], "s3-access-denied-burst", HIGH, denied, first), CountedHits(OnesIn(U), IpsIn(U), DeniedOnes(S), "s3-access-denied-burst", HIGH, denied, first), c["DeniedByIP"])
  /\ PairUp(CapHits(c["DeniedByRequester"], "s3-access-denied-burst", HIGH, denied, first), CountedHits(OnesIn(U), PrincipalsIn(U), DeniedOnes(S) \cap KnownOnes(S), "s3-access-denied-burst", HIGH, denied, first), c["DeniedByRequester"])
  /\ PairUp(CapHits(c["DeletesByPrincipal"], "s3-mass-delete", HIGH, deletes, first), CountedHits(OnesIn(U), PrincipalsIn(U), DeleteOnes(S), "s3-mass-delete", HIGH, deletes, first), c["DeletesByPrincipal"])
  /\ PairUp(CapHits(c["BytesByIP"], "s3-large-egress", MEDIUM, egress, first), CountedHits(SentIn(U), IpsIn(U), S, "s3-large-egress", MEDIUM, egress, first), c["BytesByIP"])
  /\ PairUp(CapHits(c["BytesByRequester"], "s3-large-egress", MEDIUM, egress, first), CountedHits(SentIn(U), PrincipalsIn(U), KnownOnes(S), "s3-large-egress", MEDIUM, egress, first), c["BytesByRequester"])
  /\ PairUp(CapHits(c["WeakTLSBy"], "s3-weak-tls", LOW, 1, first), CountedHits(OnesIn(U), PrincipalsIn(U), WeakOnes(S), "s3-weak-tls", LOW, 1, first), c["WeakTLSBy"])
  /\ PairUp(CapHits(c["PlainHTTPBy"], "s3-plain-http", LOW, 1, first), CountedHits(OnesIn(U), PrincipalsIn(U), PlainOnes(S), "s3-plain-http", LOW, 1, first), c["PlainHTTPBy"])
  /\ PairUp(CapHits(c["SigV2By"], "s3-sigv2", LOW, 1, first), CountedHits(OnesIn(U), PrincipalsIn(U), SigOnes(S), "s3-sigv2", LOW, 1, first), c["SigV2By"])

\* So it is with each of the eight rules over the capped counters of an S3 summary.
LEMMA RulePairs ==
  ASSUME NEW U, IsFiniteSet(U), \A e \in U : e.sent \in Int, NEW S \in SUBSET U, NEW s, S3Rep(s, S, U),
         NEW denied \in Nat \ {0}, NEW deletes \in Nat \ {0}, NEW egress \in Nat \ {0}, NEW first
  PROVE  S3Pairs(s.capped, S, U, denied, deletes, egress, first)
<1>1. \A e \in U : /\ IpsIn(U)[e] = e.ip /\ PrincipalsIn(U)[e] = Principal(e) /\ OnesIn(U)[e] = 1
                  /\ SentIn(U)[e] = IF e.sent > 0 THEN e.sent ELSE 0
  BY Zenon DEF IpsIn, PrincipalsIn, OnesIn, SentIn
<1>2. \A k, m : OneKey(k, m).key = k /\ OneKey(k, m).n = m
  BY DEF OneKey
<1>3. \A e \in S : e \in U
  OBVIOUS
<1>4. denied \in Nat /\ denied > 0 /\ deletes \in Nat /\ deletes > 0 /\ egress \in Nat /\ egress > 0 /\ 1 \in Nat /\ 1 > 0
  OBVIOUS
<1>10. PairUp(CapHits(s.capped["DeniedByIP"], "s3-access-denied-burst", HIGH, denied, first), CountedHits(OnesIn(U), IpsIn(U), DeniedOnes(S), "s3-access-denied-burst", HIGH, denied, first), s.capped["DeniedByIP"])
  <2>1. PICK X, v, g : X = DeniedOnes(S) /\ v = OnesIn(U) /\ g = IpsIn(U)
    OBVIOUS
  <2>2. X \in SUBSET S /\ \A e \in S : e \in X <=> Denied(e)
    BY <2>1 DEF DeniedOnes
  <2>3. \A e \in S : s3Capped(e)["DeniedByIP"].key = e.ip /\ s3Capped(e)["DeniedByIP"].n = One(Denied(e))
    <3>1. \A e : s3Capped(e)["DeniedByIP"] = OneKey(e.ip, One(Denied(e)))
      BY Zenon, RuleKeys
    <3>2. ASSUME NEW e \in S PROVE s3Capped(e)["DeniedByIP"].key = e.ip /\ s3Capped(e)["DeniedByIP"].n = One(Denied(e))
      <4>1. PICK k, m : k = e.ip /\ m = One(Denied(e))
        OBVIOUS
      <4>2. s3Capped(e)["DeniedByIP"] = OneKey(k, m)
        BY Zenon, <3>1, <4>1
      <4>3. OneKey(k, m).key = k /\ OneKey(k, m).n = m
        BY <1>2
      <4> QED  BY Zenon, <4>1, <4>2, <4>3
    <3> QED  BY Zenon, <3>2
  <2>4. \A e \in X : s3Capped(e)["DeniedByIP"].key = g[e] /\ s3Capped(e)["DeniedByIP"].n = v[e]
    BY Zenon, <1>1, <1>3, <2>1, <2>2, <2>3 DEF One
  <2>5. \A e \in S \ X : s3Capped(e)["DeniedByIP"].n = 0
    BY Zenon, <2>2, <2>3 DEF One
  <2>6. "DeniedByIP" \in s3CappedCounters
    BY DEF s3CappedCounters
  <2>7. PairUp(CapHits(s.capped["DeniedByIP"], "s3-access-denied-burst", HIGH, denied, first), CountedHits(v, g, X, "s3-access-denied-burst", HIGH, denied, first), s.capped["DeniedByIP"])
    BY <1>4, <2>2, <2>4, <2>5, <2>6, CapPairs
  <2> QED  BY Zenon, <2>1, <2>7
<1>11. PairUp(CapHits(s.capped["DeniedByRequester"], "s3-access-denied-burst", HIGH, denied, first), CountedHits(OnesIn(U), PrincipalsIn(U), DeniedOnes(S) \cap KnownOnes(S), "s3-access-denied-burst", HIGH, denied, first), s.capped["DeniedByRequester"])
  <2>1. PICK X, v, g : X = DeniedOnes(S) \cap KnownOnes(S) /\ v = OnesIn(U) /\ g = PrincipalsIn(U)
    OBVIOUS
  <2>2. X \in SUBSET S /\ \A e \in S : e \in X <=> Denied(e) /\ e.requester # ""
    BY <2>1 DEF DeniedOnes, KnownOnes
  <2>3. \A e \in S : s3Capped(e)["DeniedByRequester"].key = Principal(e) /\ s3Capped(e)["DeniedByRequester"].n = One(Denied(e) /\ e.requester # "")
    <3>1. \A e : s3Capped(e)["DeniedByRequester"] = OneKey(Principal(e), One(Denied(e) /\ e.requester # ""))
      BY Zenon, RuleKeys
    <3>2. ASSUME NEW e \in S PROVE s3Capped(e)["DeniedByRequester"].key = Principal(e) /\ s3Capped(e)["DeniedByRequester"].n = One(Denied(e) /\ e.requester # "")
      <4>1. PICK k, m : k = Principal(e) /\ m = One(Denied(e) /\ e.requester # "")
        OBVIOUS
      <4>2. s3Capped(e)["DeniedByRequester"] = OneKey(k, m)
        BY Zenon, <3>1, <4>1
      <4>3. OneKey(k, m).key = k /\ OneKey(k, m).n = m
        BY <1>2
      <4> QED  BY Zenon, <4>1, <4>2, <4>3
    <3> QED  BY Zenon, <3>2
  <2>4. \A e \in X : s3Capped(e)["DeniedByRequester"].key = g[e] /\ s3Capped(e)["DeniedByRequester"].n = v[e]
    BY Zenon, <1>1, <1>3, <2>1, <2>2, <2>3 DEF One
  <2>5. \A e \in S \ X : s3Capped(e)["DeniedByRequester"].n = 0
    BY Zenon, <2>2, <2>3 DEF One
  <2>6. "DeniedByRequester" \in s3CappedCounters
    BY DEF s3CappedCounters
  <2>7. PairUp(CapHits(s.capped["DeniedByRequester"], "s3-access-denied-burst", HIGH, denied, first), CountedHits(v, g, X, "s3-access-denied-burst", HIGH, denied, first), s.capped["DeniedByRequester"])
    BY <1>4, <2>2, <2>4, <2>5, <2>6, CapPairs
  <2> QED  BY Zenon, <2>1, <2>7
<1>12. PairUp(CapHits(s.capped["DeletesByPrincipal"], "s3-mass-delete", HIGH, deletes, first), CountedHits(OnesIn(U), PrincipalsIn(U), DeleteOnes(S), "s3-mass-delete", HIGH, deletes, first), s.capped["DeletesByPrincipal"])
  <2>1. PICK X, v, g : X = DeleteOnes(S) /\ v = OnesIn(U) /\ g = PrincipalsIn(U)
    OBVIOUS
  <2>2. X \in SUBSET S /\ \A e \in S : e \in X <=> Success(e) /\ e.operation \in DeleteOps
    BY <2>1 DEF DeleteOnes
  <2>3. \A e \in S : s3Capped(e)["DeletesByPrincipal"].key = Principal(e) /\ s3Capped(e)["DeletesByPrincipal"].n = One(Success(e) /\ e.operation \in DeleteOps)
    <3>1. \A e : s3Capped(e)["DeletesByPrincipal"] = OneKey(Principal(e), One(Success(e) /\ e.operation \in DeleteOps))
      BY Zenon, RuleKeys
    <3>2. ASSUME NEW e \in S PROVE s3Capped(e)["DeletesByPrincipal"].key = Principal(e) /\ s3Capped(e)["DeletesByPrincipal"].n = One(Success(e) /\ e.operation \in DeleteOps)
      <4>1. PICK k, m : k = Principal(e) /\ m = One(Success(e) /\ e.operation \in DeleteOps)
        OBVIOUS
      <4>2. s3Capped(e)["DeletesByPrincipal"] = OneKey(k, m)
        BY Zenon, <3>1, <4>1
      <4>3. OneKey(k, m).key = k /\ OneKey(k, m).n = m
        BY <1>2
      <4> QED  BY Zenon, <4>1, <4>2, <4>3
    <3> QED  BY Zenon, <3>2
  <2>4. \A e \in X : s3Capped(e)["DeletesByPrincipal"].key = g[e] /\ s3Capped(e)["DeletesByPrincipal"].n = v[e]
    BY Zenon, <1>1, <1>3, <2>1, <2>2, <2>3 DEF One
  <2>5. \A e \in S \ X : s3Capped(e)["DeletesByPrincipal"].n = 0
    BY Zenon, <2>2, <2>3 DEF One
  <2>6. "DeletesByPrincipal" \in s3CappedCounters
    BY DEF s3CappedCounters
  <2>7. PairUp(CapHits(s.capped["DeletesByPrincipal"], "s3-mass-delete", HIGH, deletes, first), CountedHits(v, g, X, "s3-mass-delete", HIGH, deletes, first), s.capped["DeletesByPrincipal"])
    BY <1>4, <2>2, <2>4, <2>5, <2>6, CapPairs
  <2> QED  BY Zenon, <2>1, <2>7
<1>13. PairUp(CapHits(s.capped["BytesByIP"], "s3-large-egress", MEDIUM, egress, first), CountedHits(SentIn(U), IpsIn(U), S, "s3-large-egress", MEDIUM, egress, first), s.capped["BytesByIP"])
  <2>1. PICK X, v, g : X = S /\ v = SentIn(U) /\ g = IpsIn(U)
    OBVIOUS
  <2>2. X \in SUBSET S /\ \A e \in S : e \in X
    BY <2>1
  <2>3. \A e \in S : s3Capped(e)["BytesByIP"].key = e.ip /\ s3Capped(e)["BytesByIP"].n = IF e.sent > 0 THEN e.sent ELSE 0
    <3>1. \A e : s3Capped(e)["BytesByIP"] = OneKey(e.ip, IF e.sent > 0 THEN e.sent ELSE 0)
      BY Zenon, RuleKeys
    <3>2. ASSUME NEW e \in S PROVE s3Capped(e)["BytesByIP"].key = e.ip /\ s3Capped(e)["BytesByIP"].n = IF e.sent > 0 THEN e.sent ELSE 0
      <4>1. PICK k, m : k = e.ip /\ m = IF e.sent > 0 THEN e.sent ELSE 0
        OBVIOUS
      <4>2. s3Capped(e)["BytesByIP"] = OneKey(k, m)
        BY Zenon, <3>1, <4>1
      <4>3. OneKey(k, m).key = k /\ OneKey(k, m).n = m
        BY <1>2
      <4> QED  BY Zenon, <4>1, <4>2, <4>3
    <3> QED  BY Zenon, <3>2
  <2>4. \A e \in X : s3Capped(e)["BytesByIP"].key = g[e] /\ s3Capped(e)["BytesByIP"].n = v[e]
    BY Zenon, <1>1, <1>3, <2>1, <2>2, <2>3
  <2>5. \A e \in S \ X : s3Capped(e)["BytesByIP"].n = 0
    BY Zenon, <2>2, <2>3
  <2>6. "BytesByIP" \in s3CappedCounters
    BY DEF s3CappedCounters
  <2>7. PairUp(CapHits(s.capped["BytesByIP"], "s3-large-egress", MEDIUM, egress, first), CountedHits(v, g, X, "s3-large-egress", MEDIUM, egress, first), s.capped["BytesByIP"])
    BY <1>4, <2>2, <2>4, <2>5, <2>6, CapPairs
  <2> QED  BY Zenon, <2>1, <2>7
<1>14. PairUp(CapHits(s.capped["BytesByRequester"], "s3-large-egress", MEDIUM, egress, first), CountedHits(SentIn(U), PrincipalsIn(U), KnownOnes(S), "s3-large-egress", MEDIUM, egress, first), s.capped["BytesByRequester"])
  <2>1. PICK X, v, g : X = KnownOnes(S) /\ v = SentIn(U) /\ g = PrincipalsIn(U)
    OBVIOUS
  <2>2. X \in SUBSET S /\ \A e \in S : e \in X <=> e.requester # ""
    BY <2>1 DEF KnownOnes
  <2>3. \A e \in S : s3Capped(e)["BytesByRequester"].key = Principal(e) /\ s3Capped(e)["BytesByRequester"].n = IF e.requester # "" THEN IF e.sent > 0 THEN e.sent ELSE 0 ELSE 0
    <3>1. \A e : s3Capped(e)["BytesByRequester"] = OneKey(Principal(e), IF e.requester # "" THEN IF e.sent > 0 THEN e.sent ELSE 0 ELSE 0)
      BY Zenon, RuleKeys
    <3>2. ASSUME NEW e \in S PROVE s3Capped(e)["BytesByRequester"].key = Principal(e) /\ s3Capped(e)["BytesByRequester"].n = IF e.requester # "" THEN IF e.sent > 0 THEN e.sent ELSE 0 ELSE 0
      <4>1. PICK k, m : k = Principal(e) /\ m = IF e.requester # "" THEN IF e.sent > 0 THEN e.sent ELSE 0 ELSE 0
        OBVIOUS
      <4>2. s3Capped(e)["BytesByRequester"] = OneKey(k, m)
        BY Zenon, <3>1, <4>1
      <4>3. OneKey(k, m).key = k /\ OneKey(k, m).n = m
        BY <1>2
      <4> QED  BY Zenon, <4>1, <4>2, <4>3
    <3> QED  BY Zenon, <3>2
  <2>4. \A e \in X : s3Capped(e)["BytesByRequester"].key = g[e] /\ s3Capped(e)["BytesByRequester"].n = v[e]
    BY Zenon, <1>1, <1>3, <2>1, <2>2, <2>3
  <2>5. \A e \in S \ X : s3Capped(e)["BytesByRequester"].n = 0
    BY Zenon, <2>2, <2>3
  <2>6. "BytesByRequester" \in s3CappedCounters
    BY DEF s3CappedCounters
  <2>7. PairUp(CapHits(s.capped["BytesByRequester"], "s3-large-egress", MEDIUM, egress, first), CountedHits(v, g, X, "s3-large-egress", MEDIUM, egress, first), s.capped["BytesByRequester"])
    BY <1>4, <2>2, <2>4, <2>5, <2>6, CapPairs
  <2> QED  BY Zenon, <2>1, <2>7
<1>15. PairUp(CapHits(s.capped["WeakTLSBy"], "s3-weak-tls", LOW, 1, first), CountedHits(OnesIn(U), PrincipalsIn(U), WeakOnes(S), "s3-weak-tls", LOW, 1, first), s.capped["WeakTLSBy"])
  <2>1. PICK X, v, g : X = WeakOnes(S) /\ v = OnesIn(U) /\ g = PrincipalsIn(U)
    OBVIOUS
  <2>2. X \in SUBSET S /\ \A e \in S : e \in X <=> WeakTLS(e)
    BY <2>1 DEF WeakOnes
  <2>3. \A e \in S : s3Capped(e)["WeakTLSBy"].key = Principal(e) /\ s3Capped(e)["WeakTLSBy"].n = One(WeakTLS(e))
    <3>1. \A e : s3Capped(e)["WeakTLSBy"] = OneKey(Principal(e), One(WeakTLS(e)))
      BY Zenon, RuleKeys
    <3>2. ASSUME NEW e \in S PROVE s3Capped(e)["WeakTLSBy"].key = Principal(e) /\ s3Capped(e)["WeakTLSBy"].n = One(WeakTLS(e))
      <4>1. PICK k, m : k = Principal(e) /\ m = One(WeakTLS(e))
        OBVIOUS
      <4>2. s3Capped(e)["WeakTLSBy"] = OneKey(k, m)
        BY Zenon, <3>1, <4>1
      <4>3. OneKey(k, m).key = k /\ OneKey(k, m).n = m
        BY <1>2
      <4> QED  BY Zenon, <4>1, <4>2, <4>3
    <3> QED  BY Zenon, <3>2
  <2>4. \A e \in X : s3Capped(e)["WeakTLSBy"].key = g[e] /\ s3Capped(e)["WeakTLSBy"].n = v[e]
    BY Zenon, <1>1, <1>3, <2>1, <2>2, <2>3 DEF One
  <2>5. \A e \in S \ X : s3Capped(e)["WeakTLSBy"].n = 0
    BY Zenon, <2>2, <2>3 DEF One
  <2>6. "WeakTLSBy" \in s3CappedCounters
    BY DEF s3CappedCounters
  <2>7. PairUp(CapHits(s.capped["WeakTLSBy"], "s3-weak-tls", LOW, 1, first), CountedHits(v, g, X, "s3-weak-tls", LOW, 1, first), s.capped["WeakTLSBy"])
    BY <1>4, <2>2, <2>4, <2>5, <2>6, CapPairs
  <2> QED  BY Zenon, <2>1, <2>7
<1>16. PairUp(CapHits(s.capped["PlainHTTPBy"], "s3-plain-http", LOW, 1, first), CountedHits(OnesIn(U), PrincipalsIn(U), PlainOnes(S), "s3-plain-http", LOW, 1, first), s.capped["PlainHTTPBy"])
  <2>1. PICK X, v, g : X = PlainOnes(S) /\ v = OnesIn(U) /\ g = PrincipalsIn(U)
    OBVIOUS
  <2>2. X \in SUBSET S /\ \A e \in S : e \in X <=> e.plainHTTP
    BY <2>1 DEF PlainOnes
  <2>3. \A e \in S : s3Capped(e)["PlainHTTPBy"].key = Principal(e) /\ s3Capped(e)["PlainHTTPBy"].n = One(e.plainHTTP)
    <3>1. \A e : s3Capped(e)["PlainHTTPBy"] = OneKey(Principal(e), One(e.plainHTTP))
      BY Zenon, RuleKeys
    <3>2. ASSUME NEW e \in S PROVE s3Capped(e)["PlainHTTPBy"].key = Principal(e) /\ s3Capped(e)["PlainHTTPBy"].n = One(e.plainHTTP)
      <4>1. PICK k, m : k = Principal(e) /\ m = One(e.plainHTTP)
        OBVIOUS
      <4>2. s3Capped(e)["PlainHTTPBy"] = OneKey(k, m)
        BY Zenon, <3>1, <4>1
      <4>3. OneKey(k, m).key = k /\ OneKey(k, m).n = m
        BY <1>2
      <4> QED  BY Zenon, <4>1, <4>2, <4>3
    <3> QED  BY Zenon, <3>2
  <2>4. \A e \in X : s3Capped(e)["PlainHTTPBy"].key = g[e] /\ s3Capped(e)["PlainHTTPBy"].n = v[e]
    BY Zenon, <1>1, <1>3, <2>1, <2>2, <2>3 DEF One
  <2>5. \A e \in S \ X : s3Capped(e)["PlainHTTPBy"].n = 0
    BY Zenon, <2>2, <2>3 DEF One
  <2>6. "PlainHTTPBy" \in s3CappedCounters
    BY DEF s3CappedCounters
  <2>7. PairUp(CapHits(s.capped["PlainHTTPBy"], "s3-plain-http", LOW, 1, first), CountedHits(v, g, X, "s3-plain-http", LOW, 1, first), s.capped["PlainHTTPBy"])
    BY <1>4, <2>2, <2>4, <2>5, <2>6, CapPairs
  <2> QED  BY Zenon, <2>1, <2>7
<1>17. PairUp(CapHits(s.capped["SigV2By"], "s3-sigv2", LOW, 1, first), CountedHits(OnesIn(U), PrincipalsIn(U), SigOnes(S), "s3-sigv2", LOW, 1, first), s.capped["SigV2By"])
  <2>1. PICK X, v, g : X = SigOnes(S) /\ v = OnesIn(U) /\ g = PrincipalsIn(U)
    OBVIOUS
  <2>2. X \in SUBSET S /\ \A e \in S : e \in X <=> SigV2(e)
    BY <2>1 DEF SigOnes
  <2>3. \A e \in S : s3Capped(e)["SigV2By"].key = Principal(e) /\ s3Capped(e)["SigV2By"].n = One(SigV2(e))
    <3>1. \A e : s3Capped(e)["SigV2By"] = OneKey(Principal(e), One(SigV2(e)))
      BY Zenon, RuleKeys
    <3>2. ASSUME NEW e \in S PROVE s3Capped(e)["SigV2By"].key = Principal(e) /\ s3Capped(e)["SigV2By"].n = One(SigV2(e))
      <4>1. PICK k, m : k = Principal(e) /\ m = One(SigV2(e))
        OBVIOUS
      <4>2. s3Capped(e)["SigV2By"] = OneKey(k, m)
        BY Zenon, <3>1, <4>1
      <4>3. OneKey(k, m).key = k /\ OneKey(k, m).n = m
        BY <1>2
      <4> QED  BY Zenon, <4>1, <4>2, <4>3
    <3> QED  BY Zenon, <3>2
  <2>4. \A e \in X : s3Capped(e)["SigV2By"].key = g[e] /\ s3Capped(e)["SigV2By"].n = v[e]
    BY Zenon, <1>1, <1>3, <2>1, <2>2, <2>3 DEF One
  <2>5. \A e \in S \ X : s3Capped(e)["SigV2By"].n = 0
    BY Zenon, <2>2, <2>3 DEF One
  <2>6. "SigV2By" \in s3CappedCounters
    BY DEF s3CappedCounters
  <2>7. PairUp(CapHits(s.capped["SigV2By"], "s3-sigv2", LOW, 1, first), CountedHits(v, g, X, "s3-sigv2", LOW, 1, first), s.capped["SigV2By"])
    BY <1>4, <2>2, <2>4, <2>5, <2>6, CapPairs
  <2> QED  BY Zenon, <2>1, <2>7
<1> QED  BY Zenon, <1>10, <1>11, <1>12, <1>13, <1>14, <1>15, <1>16, <1>17 DEF S3Pairs

\* The findings of anonymous requests, and what they should be.
AnonFound(m, rule, severity) == {Hit(rule, severity, b, m[b].count, m[b].first) : b \in DOMAIN m}
AnonOf(X, rule, severity) ==
  {Hit(rule, severity, b, Cardinality({e \in X : e.bucket = b}), SpanOf({e \in X : e.bucket = b}).first) :
     b \in {e.bucket : e \in X}}

\* What is known of anonymous requests is enough for their findings.
LEMMA AnonFindings ==
  ASSUME NEW X, IsFiniteSet(X), NEW m, AnonIsOf(m, X), NEW rule, NEW severity
  PROVE  AnonFound(m, rule, severity) = AnonOf(X, rule, severity) /\ IsFiniteSet(AnonFound(m, rule, severity))
<1>1. PICK D : D = DOMAIN m
  OBVIOUS
<1>2. D = {e.bucket : e \in X}
  BY Zenon, <1>1 DEF AnonIsOf
<1>3. ASSUME NEW b \in D
      PROVE  /\ m[b].count = Cardinality({e \in X : e.bucket = b})
             /\ m[b].first = SpanOf({e \in X : e.bucket = b}).first
  BY Zenon, <1>1, <1>3 DEF AnonIsOf
<1>4. AnonFound(m, rule, severity) = AnonOf(X, rule, severity)
  <2>1. AnonFound(m, rule, severity) = {Hit(rule, severity, b, m[b].count, m[b].first) : b \in D}
    BY Zenon, <1>1 DEF AnonFound
  <2>2. AnonOf(X, rule, severity)
        = {Hit(rule, severity, b, Cardinality({e \in X : e.bucket = b}), SpanOf({e \in X : e.bucket = b}).first) : b \in D}
    BY Zenon, <1>2 DEF AnonOf
  <2>3. PICK n, t : n = [b \in D |-> m[b].count] /\ t = [b \in D |-> m[b].first]
    OBVIOUS
  <2>4. \A b \in D : /\ n[b] = m[b].count /\ t[b] = m[b].first
                   /\ n[b] = Cardinality({e \in X : e.bucket = b}) /\ t[b] = SpanOf({e \in X : e.bucket = b}).first
    BY Zenon, <1>3, <2>3
  <2>5. {Hit(rule, severity, b, m[b].count, m[b].first) : b \in D} = {Hit(rule, severity, b, n[b], t[b]) : b \in D}
    BY Zenon, <2>4
  <2>6. {Hit(rule, severity, b, Cardinality({e \in X : e.bucket = b}), SpanOf({e \in X : e.bucket = b}).first) : b \in D}
        = {Hit(rule, severity, b, n[b], t[b]) : b \in D}
    <3>1. PICK k, u : /\ k = [b \in D |-> Cardinality({e \in X : e.bucket = b})]
                      /\ u = [b \in D |-> SpanOf({e \in X : e.bucket = b}).first]
      OBVIOUS
    <3>2. \A b \in D : /\ k[b] = Cardinality({e \in X : e.bucket = b})
                     /\ u[b] = SpanOf({e \in X : e.bucket = b}).first
      BY Zenon, <3>1
    <3>3. {Hit(rule, severity, b, Cardinality({e \in X : e.bucket = b}), SpanOf({e \in X : e.bucket = b}).first) : b \in D}
          = {Hit(rule, severity, b, k[b], u[b]) : b \in D}
      BY Zenon, <3>2
    <3>4. \A b \in D : n[b] = k[b] /\ t[b] = u[b]
      BY Zenon, <2>4, <3>2
    <3>5. {Hit(rule, severity, b, k[b], u[b]) : b \in D} = {Hit(rule, severity, b, n[b], t[b]) : b \in D}
      BY Zenon, <3>4
    <3> QED  BY Zenon, <3>3, <3>5
  <2> QED  BY Zenon, <2>1, <2>2, <2>5, <2>6
<1>5. IsFiniteSet(D)
  <2>1. PICK h : h = [e \in X |-> e.bucket]
    OBVIOUS
  <2>2. D = {h[e] : e \in X}
    BY <1>2, <2>1
  <2>3. D \in SUBSET {h[e] : e \in X}
    BY <2>2
  <2> QED  BY Zenon, <2>3, ImageFinite
<1>6. IsFiniteSet(AnonFound(m, rule, severity))
  <2>1. PICK h : h = [b \in D |-> Hit(rule, severity, b, m[b].count, m[b].first)]
    OBVIOUS
  <2>2. \A b \in D : h[b] = Hit(rule, severity, b, m[b].count, m[b].first)
    BY Zenon, <2>1
  <2>3. AnonFound(m, rule, severity) = {h[b] : b \in D}
    BY Zenon, <1>1, <2>2 DEF AnonFound
  <2>4. {h[b] : b \in D} \in SUBSET {h[b] : b \in D}
    OBVIOUS
  <2> QED  BY Zenon, <1>5, <2>3, <2>4, ImageFinite
<1> QED  BY Zenon, <1>4, <1>6

\* The findings of access changes, and what they should be.
ChangesFound(c) ==
  {[Hit("s3-access-change", MEDIUM, x.principal, 1, x.time) EXCEPT !.detail = x.id] : x \in Range(c)}
ChangesToFind(S, kept) ==
  {[Hit("s3-access-change", MEDIUM, Principal(e), 1, e.time) EXCEPT !.detail = e.id] :
     e \in {x \in changes(S) : x.id \in kept}}

\* Each access change that is kept makes one finding, of the entry it is of.
LEMMA ChangeFindings ==
  ASSUME NEW U, OwnIds(U), NEW S \in SUBSET U, NEW M, NEW c, ListKept(c, ChangesOf(S), M)
  PROVE  /\ ChangesFound(c) = ChangesToFind(S, {x.id : x \in Range(c)})
         /\ IsFiniteSet(ChangesFound(c))
<1>1. PICK R : R = Range(c)
  OBVIOUS
<1>2. R = Held(c) /\ R \subseteq ChangesOf(S) /\ Single(c)
  BY <1>1, Zenon DEF ListKept, KeptOf, Range, Held
<1>3. PICK V : V = {e \in changes(S) : e.id \in {x.id : x \in R}}
  OBVIOUS
<1>4. \A e : change(e).id = e.id /\ change(e).time = e.time /\ change(e).principal = Principal(e)
  BY DEF change
<1>5. \A e \in changes(S) : e \in U
  BY DEF changes
<1>6. \A x \in R : \E e \in changes(S) : x = change(e)
  BY <1>2 DEF ChangesOf
<1>7. \A e \in V : change(e) \in R
  <2>1. ASSUME NEW e \in V PROVE change(e) \in R
    <3>1. PICK x \in R : e.id = x.id
      BY <1>3
    <3>2. PICK f \in changes(S) : x = change(f)
      BY <1>6
    <3>3. e \in changes(S) /\ f.id = e.id
      BY <1>3, <1>4, <3>1, <3>2
    <3>4. e = f
      BY <1>5, <3>3 DEF OwnIds
    <3> QED  BY <3>2, <3>4
  <2> QED  BY <2>1
<1>8. \A x \in R : \E e \in V : x = change(e)
  <2>1. ASSUME NEW x \in R PROVE \E e \in V : x = change(e)
    <3>1. PICK f \in changes(S) : x = change(f)
      BY <1>6
    <3>2. f.id = x.id
      BY <1>4, <3>1
    <3>3. f \in V
      BY <1>3, <3>2
    <3> QED  BY <3>1, <3>3
  <2> QED  BY <2>1
<1>9. ChangesFound(c) = ChangesToFind(S, {x.id : x \in Range(c)})
  <2>1. ChangesFound(c) = {[Hit("s3-access-change", MEDIUM, x.principal, 1, x.time) EXCEPT !.detail = x.id] : x \in R}
    BY Zenon, <1>1 DEF ChangesFound
  <2>2. ChangesToFind(S, {x.id : x \in Range(c)})
        = {[Hit("s3-access-change", MEDIUM, Principal(e), 1, e.time) EXCEPT !.detail = e.id] : e \in V}
    BY Zenon, <1>1, <1>3 DEF ChangesToFind
  <2>3. ASSUME NEW e, NEW x, x = change(e)
        PROVE  [Hit("s3-access-change", MEDIUM, x.principal, 1, x.time) EXCEPT !.detail = x.id]
               = [Hit("s3-access-change", MEDIUM, Principal(e), 1, e.time) EXCEPT !.detail = e.id]
    <3>1. x.principal = Principal(e) /\ x.time = e.time /\ x.id = e.id
      BY Zenon, <1>4, <2>3
    <3> QED  BY Zenon, <3>1
  <2>4. ASSUME NEW y \in ChangesFound(c) PROVE y \in ChangesToFind(S, {x.id : x \in Range(c)})
    <3>1. PICK x \in R : y = [Hit("s3-access-change", MEDIUM, x.principal, 1, x.time) EXCEPT !.detail = x.id]
      BY Zenon, <2>1, <2>4
    <3>2. PICK e \in V : x = change(e)
      BY Zenon, <1>8
    <3>3. y = [Hit("s3-access-change", MEDIUM, Principal(e), 1, e.time) EXCEPT !.detail = e.id]
      BY Zenon, <2>3, <3>1, <3>2
    <3> QED  BY Zenon, <2>2, <3>3
  <2>5. ASSUME NEW y \in ChangesToFind(S, {x.id : x \in Range(c)}) PROVE y \in ChangesFound(c)
    <3>1. PICK e \in V : y = [Hit("s3-access-change", MEDIUM, Principal(e), 1, e.time) EXCEPT !.detail = e.id]
      BY Zenon, <2>2, <2>5
    <3>2. PICK x \in R : x = change(e)
      BY Zenon, <1>7
    <3>3. y = [Hit("s3-access-change", MEDIUM, x.principal, 1, x.time) EXCEPT !.detail = x.id]
      BY Zenon, <2>3, <3>1, <3>2
    <3> QED  BY Zenon, <2>1, <3>3
  <2> QED  BY Zenon, <2>4, <2>5
<1>10. IsFiniteSet(ChangesFound(c))
  <2>0. IsFiniteSet(R)
    BY <1>2, SingleHolds
  <2>1. PICK h : h = [x \in R |-> [Hit("s3-access-change", MEDIUM, x.principal, 1, x.time) EXCEPT !.detail = x.id]]
    OBVIOUS
  <2>2. \A x \in R : h[x] = [Hit("s3-access-change", MEDIUM, x.principal, 1, x.time) EXCEPT !.detail = x.id]
    BY Zenon, <2>1
  <2>3. ChangesFound(c) = {h[x] : x \in R}
    <3>1. ChangesFound(c) = {[Hit("s3-access-change", MEDIUM, x.principal, 1, x.time) EXCEPT !.detail = x.id] : x \in R}
      BY Zenon, <1>1 DEF ChangesFound
    <3>2. {[Hit("s3-access-change", MEDIUM, x.principal, 1, x.time) EXCEPT !.detail = x.id] : x \in R} = {h[x] : x \in R}
      BY Zenon, <2>2
    <3> QED  BY Zenon, <3>1, <3>2
  <2>4. {h[x] : x \in R} \in SUBSET {h[x] : x \in R}
    OBVIOUS
  <2> QED  BY Zenon, <2>0, <2>3, <2>4, ImageFinite
<1> QED  BY Zenon, <1>9, <1>10

\* The findings over a summary, rule by rule.
CapFound(s, denied, deletes, egress) ==
  CapHits(s.capped["DeniedByIP"], "s3-access-denied-burst", HIGH, denied, s.span.first)
  \cup CapHits(s.capped["DeniedByRequester"], "s3-access-denied-burst", HIGH, denied, s.span.first)
  \cup CapHits(s.capped["DeletesByPrincipal"], "s3-mass-delete", HIGH, deletes, s.span.first)
  \cup CapHits(s.capped["BytesByIP"], "s3-large-egress", MEDIUM, egress, s.span.first)
  \cup CapHits(s.capped["BytesByRequester"], "s3-large-egress", MEDIUM, egress, s.span.first)
  \cup CapHits(s.capped["WeakTLSBy"], "s3-weak-tls", LOW, 1, s.span.first)
  \cup CapHits(s.capped["PlainHTTPBy"], "s3-plain-http", LOW, 1, s.span.first)
  \cup CapHits(s.capped["SigV2By"], "s3-sigv2", LOW, 1, s.span.first)

\* The findings of an S3 summary are those over its anonymous requests, its access changes and its
\* capped counters.
LEMMA S3HitsSplit ==
  ASSUME NEW s, NEW denied, NEW deletes, NEW egress
  PROVE  s3Hits(s, denied, deletes, egress)
         = AnonFound(s.AnonWrites, "s3-anonymous-write", CRITICAL) \cup AnonFound(s.AnonReads, "s3-anonymous-read", HIGH)
           \cup ChangesFound(s.AccessChanges) \cup CapFound(s, denied, deletes, egress)
<1>1. PICK A, B, C : /\ A = AnonFound(s.AnonWrites, "s3-anonymous-write", CRITICAL) /\ B = AnonFound(s.AnonReads, "s3-anonymous-read", HIGH)
                    /\ C = ChangesFound(s.AccessChanges)
  OBVIOUS
<1>2. PICK E0, E1, E2, E3, E4, E5, E6, E7 :
        /\ E0 = CapHits(s.capped["DeniedByIP"], "s3-access-denied-burst", HIGH, denied, s.span.first)
        /\ E1 = CapHits(s.capped["DeniedByRequester"], "s3-access-denied-burst", HIGH, denied, s.span.first)
        /\ E2 = CapHits(s.capped["DeletesByPrincipal"], "s3-mass-delete", HIGH, deletes, s.span.first)
        /\ E3 = CapHits(s.capped["BytesByIP"], "s3-large-egress", MEDIUM, egress, s.span.first)
        /\ E4 = CapHits(s.capped["BytesByRequester"], "s3-large-egress", MEDIUM, egress, s.span.first)
        /\ E5 = CapHits(s.capped["WeakTLSBy"], "s3-weak-tls", LOW, 1, s.span.first)
        /\ E6 = CapHits(s.capped["PlainHTTPBy"], "s3-plain-http", LOW, 1, s.span.first)
        /\ E7 = CapHits(s.capped["SigV2By"], "s3-sigv2", LOW, 1, s.span.first)
  OBVIOUS
<1>3. s3Hits(s, denied, deletes, egress) = A \cup B \cup E0 \cup E1 \cup E2 \cup C \cup E4 \cup E3 \cup E5 \cup E6 \cup E7
  BY Zenon, <1>1, <1>2 DEF s3Hits, AnonFound, ChangesFound, CapHits
<1>4. CapFound(s, denied, deletes, egress) = E0 \cup E1 \cup E2 \cup E3 \cup E4 \cup E5 \cup E6 \cup E7
  BY Zenon, <1>2 DEF CapFound
<1>5. A \cup B \cup E0 \cup E1 \cup E2 \cup C \cup E4 \cup E3 \cup E5 \cup E6 \cup E7 = A \cup B \cup C \cup (E0 \cup E1 \cup E2 \cup E3 \cup E4 \cup E5 \cup E6 \cup E7)
  BY SMT
<1> QED  BY Zenon, <1>1, <1>3, <1>4, <1>5

\* What the capped counters find is what counting finds, but for counts that are too low
\* where a counter folded.
CapFindings(E, C, c) ==
  /\ \A h \in E : \E d \in C : h.count <= d.count /\ h = [d EXCEPT !.count = h.count]
  /\ (\E n \in s3CappedCounters : OtherKey \in DOMAIN c[n]) \/ E = C
  /\ IsFiniteSet(E)

\* The capped counters of a summary find this of its entries.
LEMMA CapsFind ==
  ASSUME NEW U, IsFiniteSet(U), \A e \in U : e.sent \in Int, NEW S \in SUBSET U, NEW s, S3Rep(s, S, U),
         s.span.first = SpanOf(S).first, NEW denied \in Nat \ {0}, NEW deletes \in Nat \ {0}, NEW egress \in Nat \ {0}
  PROVE  CapFindings(CapFound(s, denied, deletes, egress), S3Counted(S, denied, deletes, egress), s.capped)
<1>0. S3Counted(S, denied, deletes, egress) = CountedFound(U, S, denied, deletes, egress, SpanOf(S).first)
  BY Zenon, CountedAre
<1>1. PICK first : first = s.span.first /\ first = SpanOf(S).first
  OBVIOUS
<1>2. PICK E0, E1, E2, E3, E4, E5, E6, E7 :
        /\ E0 = CapHits(s.capped["DeniedByIP"], "s3-access-denied-burst", HIGH, denied, first)
        /\ E1 = CapHits(s.capped["DeniedByRequester"], "s3-access-denied-burst", HIGH, denied, first)
        /\ E2 = CapHits(s.capped["DeletesByPrincipal"], "s3-mass-delete", HIGH, deletes, first)
        /\ E3 = CapHits(s.capped["BytesByIP"], "s3-large-egress", MEDIUM, egress, first)
        /\ E4 = CapHits(s.capped["BytesByRequester"], "s3-large-egress", MEDIUM, egress, first)
        /\ E5 = CapHits(s.capped["WeakTLSBy"], "s3-weak-tls", LOW, 1, first)
        /\ E6 = CapHits(s.capped["PlainHTTPBy"], "s3-plain-http", LOW, 1, first)
        /\ E7 = CapHits(s.capped["SigV2By"], "s3-sigv2", LOW, 1, first)
  OBVIOUS
<1>3. PICK C0, C1, C2, C3, C4, C5, C6, C7 :
        /\ C0 = CountedHits(OnesIn(U), IpsIn(U), DeniedOnes(S), "s3-access-denied-burst", HIGH, denied, first)
        /\ C1 = CountedHits(OnesIn(U), PrincipalsIn(U), DeniedOnes(S) \cap KnownOnes(S), "s3-access-denied-burst", HIGH, denied, first)
        /\ C2 = CountedHits(OnesIn(U), PrincipalsIn(U), DeleteOnes(S), "s3-mass-delete", HIGH, deletes, first)
        /\ C3 = CountedHits(SentIn(U), IpsIn(U), S, "s3-large-egress", MEDIUM, egress, first)
        /\ C4 = CountedHits(SentIn(U), PrincipalsIn(U), KnownOnes(S), "s3-large-egress", MEDIUM, egress, first)
        /\ C5 = CountedHits(OnesIn(U), PrincipalsIn(U), WeakOnes(S), "s3-weak-tls", LOW, 1, first)
        /\ C6 = CountedHits(OnesIn(U), PrincipalsIn(U), PlainOnes(S), "s3-plain-http", LOW, 1, first)
        /\ C7 = CountedHits(OnesIn(U), PrincipalsIn(U), SigOnes(S), "s3-sigv2", LOW, 1, first)
  OBVIOUS
<1>4. /\ PairUp(E0, C0, s.capped["DeniedByIP"])
      /\ PairUp(E1, C1, s.capped["DeniedByRequester"])
      /\ PairUp(E2, C2, s.capped["DeletesByPrincipal"])
      /\ PairUp(E3, C3, s.capped["BytesByIP"])
      /\ PairUp(E4, C4, s.capped["BytesByRequester"])
      /\ PairUp(E5, C5, s.capped["WeakTLSBy"])
      /\ PairUp(E6, C6, s.capped["PlainHTTPBy"])
      /\ PairUp(E7, C7, s.capped["SigV2By"])
  <2>1. S3Pairs(s.capped, S, U, denied, deletes, egress, first)
    BY RulePairs
  <2> QED  BY Zenon, <1>2, <1>3, <2>1 DEF S3Pairs
<1>5. CapFound(s, denied, deletes, egress) = E0 \cup E1 \cup E2 \cup E3 \cup E4 \cup E5 \cup E6 \cup E7
  BY Zenon, <1>1, <1>2 DEF CapFound
<1>6. S3Counted(S, denied, deletes, egress) = C0 \cup C1 \cup C2 \cup C3 \cup C4 \cup C5 \cup C6 \cup C7
  <2>1. S3Counted(S, denied, deletes, egress) = CountedFound(U, S, denied, deletes, egress, first)
    BY Zenon, <1>0, <1>1
  <2> QED  BY Zenon, <1>3, <2>1 DEF CountedFound
<1>7. PICK E, C : E = E0 \cup E1 \cup E2 \cup E3 \cup E4 \cup E5 \cup E6 \cup E7 /\ C = C0 \cup C1 \cup C2 \cup C3 \cup C4 \cup C5 \cup C6 \cup C7
  OBVIOUS
<1>8. ASSUME NEW h \in E PROVE \E d \in C : h.count <= d.count /\ h = [d EXCEPT !.count = h.count]
  <2>1. ASSUME h \in E0 PROVE \E d \in C : h.count <= d.count /\ h = [d EXCEPT !.count = h.count]
    <3>1. PICK d \in C0 : h.count <= d.count /\ h = [d EXCEPT !.count = h.count]
      BY Zenon, <1>4, <2>1 DEF PairUp
    <3>2. d \in C
      BY <1>7
    <3> QED  BY Zenon, <3>1, <3>2
  <2>2. ASSUME h \in E1 PROVE \E d \in C : h.count <= d.count /\ h = [d EXCEPT !.count = h.count]
    <3>1. PICK d \in C1 : h.count <= d.count /\ h = [d EXCEPT !.count = h.count]
      BY Zenon, <1>4, <2>2 DEF PairUp
    <3>2. d \in C
      BY <1>7
    <3> QED  BY Zenon, <3>1, <3>2
  <2>3. ASSUME h \in E2 PROVE \E d \in C : h.count <= d.count /\ h = [d EXCEPT !.count = h.count]
    <3>1. PICK d \in C2 : h.count <= d.count /\ h = [d EXCEPT !.count = h.count]
      BY Zenon, <1>4, <2>3 DEF PairUp
    <3>2. d \in C
      BY <1>7
    <3> QED  BY Zenon, <3>1, <3>2
  <2>4. ASSUME h \in E3 PROVE \E d \in C : h.count <= d.count /\ h = [d EXCEPT !.count = h.count]
    <3>1. PICK d \in C3 : h.count <= d.count /\ h = [d EXCEPT !.count = h.count]
      BY Zenon, <1>4, <2>4 DEF PairUp
    <3>2. d \in C
      BY <1>7
    <3> QED  BY Zenon, <3>1, <3>2
  <2>5. ASSUME h \in E4 PROVE \E d \in C : h.count <= d.count /\ h = [d EXCEPT !.count = h.count]
    <3>1. PICK d \in C4 : h.count <= d.count /\ h = [d EXCEPT !.count = h.count]
      BY Zenon, <1>4, <2>5 DEF PairUp
    <3>2. d \in C
      BY <1>7
    <3> QED  BY Zenon, <3>1, <3>2
  <2>6. ASSUME h \in E5 PROVE \E d \in C : h.count <= d.count /\ h = [d EXCEPT !.count = h.count]
    <3>1. PICK d \in C5 : h.count <= d.count /\ h = [d EXCEPT !.count = h.count]
      BY Zenon, <1>4, <2>6 DEF PairUp
    <3>2. d \in C
      BY <1>7
    <3> QED  BY Zenon, <3>1, <3>2
  <2>7. ASSUME h \in E6 PROVE \E d \in C : h.count <= d.count /\ h = [d EXCEPT !.count = h.count]
    <3>1. PICK d \in C6 : h.count <= d.count /\ h = [d EXCEPT !.count = h.count]
      BY Zenon, <1>4, <2>7 DEF PairUp
    <3>2. d \in C
      BY <1>7
    <3> QED  BY Zenon, <3>1, <3>2
  <2>8. ASSUME h \in E7 PROVE \E d \in C : h.count <= d.count /\ h = [d EXCEPT !.count = h.count]
    <3>1. PICK d \in C7 : h.count <= d.count /\ h = [d EXCEPT !.count = h.count]
      BY Zenon, <1>4, <2>8 DEF PairUp
    <3>2. d \in C
      BY <1>7
    <3> QED  BY Zenon, <3>1, <3>2
  <2> QED  BY Zenon, <1>7, <1>8, <2>1, <2>2, <2>3, <2>4, <2>5, <2>6, <2>7, <2>8
<1>9. (\E n \in s3CappedCounters : OtherKey \in DOMAIN s.capped[n]) \/ E = C
  <2>1. SUFFICES ASSUME \A n \in s3CappedCounters : OtherKey \notin DOMAIN s.capped[n] PROVE E = C
    BY Zenon
  <2>2. {"DeniedByIP", "DeniedByRequester", "DeletesByPrincipal", "BytesByIP", "BytesByRequester", "WeakTLSBy", "PlainHTTPBy", "SigV2By"} \subseteq s3CappedCounters
    BY DEF s3CappedCounters
  <2>3. E0 = C0
    <3>1. "DeniedByIP" \in s3CappedCounters
      BY <2>2
    <3> QED  BY Zenon, <1>4, <2>1, <3>1 DEF PairUp
  <2>4. E1 = C1
    <3>1. "DeniedByRequester" \in s3CappedCounters
      BY <2>2
    <3> QED  BY Zenon, <1>4, <2>1, <3>1 DEF PairUp
  <2>5. E2 = C2
    <3>1. "DeletesByPrincipal" \in s3CappedCounters
      BY <2>2
    <3> QED  BY Zenon, <1>4, <2>1, <3>1 DEF PairUp
  <2>6. E3 = C3
    <3>1. "BytesByIP" \in s3CappedCounters
      BY <2>2
    <3> QED  BY Zenon, <1>4, <2>1, <3>1 DEF PairUp
  <2>7. E4 = C4
    <3>1. "BytesByRequester" \in s3CappedCounters
      BY <2>2
    <3> QED  BY Zenon, <1>4, <2>1, <3>1 DEF PairUp
  <2>8. E5 = C5
    <3>1. "WeakTLSBy" \in s3CappedCounters
      BY <2>2
    <3> QED  BY Zenon, <1>4, <2>1, <3>1 DEF PairUp
  <2>9. E6 = C6
    <3>1. "PlainHTTPBy" \in s3CappedCounters
      BY <2>2
    <3> QED  BY Zenon, <1>4, <2>1, <3>1 DEF PairUp
  <2>10. E7 = C7
    <3>1. "SigV2By" \in s3CappedCounters
      BY <2>2
    <3> QED  BY Zenon, <1>4, <2>1, <3>1 DEF PairUp
  <2> QED  BY Zenon, <1>7, <2>3, <2>4, <2>5, <2>6, <2>7, <2>8, <2>9, <2>10
<1>10. IsFiniteSet(E)
  <2>1. /\ IsFiniteSet(E0)
        /\ IsFiniteSet(E1)
        /\ IsFiniteSet(E2)
        /\ IsFiniteSet(E3)
        /\ IsFiniteSet(E4)
        /\ IsFiniteSet(E5)
        /\ IsFiniteSet(E6)
        /\ IsFiniteSet(E7)
    BY Zenon, <1>4 DEF PairUp
  <2>2. IsFiniteSet(E0 \cup E1 \cup E2 \cup E3)
    BY <2>1, FS_Union
  <2>3. PICK G : G = E0 \cup E1 \cup E2 \cup E3
    OBVIOUS
  <2>4. IsFiniteSet(G \cup E4 \cup E5 \cup E6 \cup E7)
    BY <2>1, <2>2, <2>3, FS_Union
  <2> QED  BY Zenon, <1>7, <2>3, <2>4
<1>11. E = CapFound(s, denied, deletes, egress) /\ C = S3Counted(S, denied, deletes, egress)
  BY Zenon, <1>5, <1>6, <1>7
<1> QED  BY Zenon, <1>8, <1>9, <1>10, <1>11 DEF CapFindings

\* What the rules find over a summary of the requests S is what they should find.
LEMMA S3HitsTold ==
  ASSUME NEW U, IsFiniteSet(U), OwnIds(U), \A e \in U : e.time \in Nat /\ e.time > 0 /\ e.sent \in Int, NEW S \in SUBSET U,
         NEW s, S3Rep(s, S, U), Len(s.AccessChanges) <= S3MaxAccessChanges,
         NEW denied \in Nat \ {0}, NEW deletes \in Nat \ {0}, NEW egress \in Nat \ {0}
  PROVE  /\ S3HitsAre(s3Hits(s, denied, deletes, egress), s, S, denied, deletes, egress)
         /\ IsFiniteSet(s3Hits(s, denied, deletes, egress))
<1>1. S3IsOf(s, S)
  BY S3End
<1>2. s.span.first = SpanOf(S).first
  <2>1. s.span = SpanOf(S)
    BY Zenon, <1>1 DEF S3IsOf
  <2> QED  BY Zenon, <2>1
<1>3. PICK H, E, C : /\ H = s3Hits(s, denied, deletes, egress) /\ E = CapFound(s, denied, deletes, egress)
                    /\ C = S3Counted(S, denied, deletes, egress)
  OBVIOUS
<1>4. CapFindings(E, C, s.capped)
  <2>1. \A e \in U : e.sent \in Int
    OBVIOUS
  <2> QED  BY <1>2, <1>3, <2>1, CapsFind
<1>5. PICK P, Q : P = {e \in S : AnonWrite(e)} /\ Q = {e \in S : AnonRead(e)}
  OBVIOUS
<1>6. IsFiniteSet(P) /\ IsFiniteSet(Q)
  <2>1. P \in SUBSET U /\ Q \in SUBSET U
    BY <1>5
  <2> QED  BY <2>1, FS_Subset
<1>7. AnonIsOf(s.AnonWrites, P) /\ AnonIsOf(s.AnonReads, Q)
  BY Zenon, <1>1, <1>5 DEF S3IsOf
<1>8. PICK W, R, A, K : /\ W = AnonFound(s.AnonWrites, "s3-anonymous-write", CRITICAL)
                       /\ R = AnonFound(s.AnonReads, "s3-anonymous-read", HIGH)
                       /\ A = ChangesFound(s.AccessChanges) /\ K = {c.id : c \in Range(s.AccessChanges)}
  OBVIOUS
<1>9. /\ W = AnonOf(P, "s3-anonymous-write", CRITICAL) /\ IsFiniteSet(W)
      /\ R = AnonOf(Q, "s3-anonymous-read", HIGH) /\ IsFiniteSet(R)
  BY Zenon, <1>6, <1>7, <1>8, AnonFindings
<1>10. A = ChangesToFind(S, K) /\ IsFiniteSet(A)
  <2>1. ListKept(s.AccessChanges, ChangesOf(S), S3MaxAccessChanges)
    BY Zenon DEF S3Rep
  <2> QED  BY Zenon, <1>8, <2>1, ChangeFindings
<1>11. H = W \cup R \cup A \cup E
  BY Zenon, <1>3, <1>8, S3HitsSplit
<1>12. PICK D : D = S3Certain(S, {c.id : c \in Range(s.AccessChanges)})
  OBVIOUS
<1>13. D = W \cup R \cup A
  <2>1. S3Certain(S, K) = AnonOf(P, "s3-anonymous-write", CRITICAL) \cup AnonOf(Q, "s3-anonymous-read", HIGH)
                          \cup ChangesToFind(S, K)
    BY ZenonT(60), <1>5 DEF S3Certain, AnonOf, ChangesToFind
  <2> QED  BY Zenon, <1>8, <1>9, <1>10, <1>12, <2>1
<1>14. IsFiniteSet(H)
  <2>1. IsFiniteSet(E)
    BY Zenon, <1>4 DEF CapFindings
  <2> QED  BY <1>9, <1>10, <1>11, <2>1, FS_Union
<1>15. D \subseteq H
  BY <1>11, <1>13
<1>16. \A h \in H \ D : \E c \in C : h.count <= c.count /\ h = [c EXCEPT !.count = h.count]
  <2>1. \A h \in H \ D : h \in E
    BY <1>11, <1>13
  <2> QED  BY Zenon, <1>4, <2>1 DEF CapFindings
<1>17. (\E n \in s3CappedCounters : OtherKey \in DOMAIN s.capped[n]) \/ H = D \cup C
  <2>1. (\E n \in s3CappedCounters : OtherKey \in DOMAIN s.capped[n]) \/ E = C
    BY Zenon, <1>4 DEF CapFindings
  <2> QED  BY Zenon, <1>11, <1>13, <2>1
<1>18. S3HitsAre(H, s, S, denied, deletes, egress)
  BY Zenon, <1>3, <1>12, <1>15, <1>16, <1>17 DEF S3HitsAre
<1> QED  BY Zenon, <1>3, <1>14, <1>18

-----------------------------------------------------------------------------
(*****************************************************************************)
(* The findings over a summary of flow logs.                                 *)
(*****************************************************************************)

\* Whom a finding is about.
WhoOf(h) == IF h.key = "" THEN h.actor ELSE h.key

About(h, rule, name) == h.rule = rule /\ WhoOf(h) = name

\* The findings E are those of a rule about the names K.
AreAbout(E, rule, K) ==
  /\ \A h \in E : h.rule = rule /\ WhoOf(h) \in K
  /\ \A k \in K : \E h \in E : WhoOf(h) = k
  /\ IsFiniteSet(E)

\* The rule of a finding, and whom it is about.
LEMMA HitNamed ==
  ASSUME NEW r, NEW v, NEW a, NEW n, NEW t
  PROVE  About(Hit(r, v, a, n, t), r, a)
<1>1. PICK x : x = Hit(r, v, a, n, t)
  OBVIOUS
<1>2. x = [rule |-> r, severity |-> v, actor |-> a, count |-> n, time |-> t, detail |-> 0, key |-> ""]
  BY <1>1, Zenon DEF Hit
<1>3. x.rule = r /\ x.actor = a /\ x.key = ""
  BY <1>2
<1> QED  BY Zenon, <1>1, <1>3 DEF About, WhoOf

\* Those of a finding with a key.
KeyedHit(r, v, a, n, t, k) == [Hit(r, v, a, n, t) EXCEPT !.key = k]

\* It is about the key.
LEMMA HitKeyed ==
  ASSUME NEW r, NEW v, NEW a, NEW n, NEW t, NEW k, k # ""
  PROVE  About(KeyedHit(r, v, a, n, t, k), r, k)
<1>1. PICK x : x = Hit(r, v, a, n, t)
  OBVIOUS
<1>2. x = [rule |-> r, severity |-> v, actor |-> a, count |-> n, time |-> t, detail |-> 0, key |-> ""]
  BY <1>1, Zenon DEF Hit
<1>3. PICK y : y = [x EXCEPT !.key = k]
  OBVIOUS
<1>4. y.rule = r /\ y.key = k
  BY <1>2, <1>3
<1>6. y = KeyedHit(r, v, a, n, t, k)
  BY Zenon, <1>1, <1>3 DEF KeyedHit
<1> QED  BY Zenon, <1>4, <1>6 DEF About, WhoOf

\* One finding for each name.
LEMMA OneForEach ==
  ASSUME NEW K, IsFiniteSet(K), NEW h, NEW rule, \A k \in K : About(h[k], rule, k), NEW E, E = {h[k] : k \in K}
  PROVE  AreAbout(E, rule, K)
<1>1. \A x \in E : x.rule = rule /\ WhoOf(x) \in K
  BY Zenon DEF About
<1>2. \A k \in K : \E x \in E : WhoOf(x) = k
  BY Zenon DEF About
<1>3. IsFiniteSet(E)
  <2>1. E \in SUBSET {h[k] : k \in K}
    OBVIOUS
  <2> QED  BY Zenon, <2>1, ImageFinite
<1> QED  BY Zenon, <1>1, <1>2, <1>3 DEF AreAbout

\* One for each, about whom it names.
PlainSet(rule, severity, n, t, K) == {Hit(rule, severity, k, n[k], t[k]) : k \in K}

\* They are about the actors.
LEMMA PlainHits ==
  ASSUME NEW K, IsFiniteSet(K), NEW n, NEW t, NEW rule, NEW severity
  PROVE  AreAbout(PlainSet(rule, severity, n, t, K), rule, K)
<1>1. PICK h : h = [k \in K |-> Hit(rule, severity, k, n[k], t[k])]
  OBVIOUS
<1>2. \A k \in K : h[k] = Hit(rule, severity, k, n[k], t[k])
  BY Zenon, <1>1
<1>3. \A k \in K : About(h[k], rule, k)
  BY Zenon, <1>2, HitNamed
<1>4. PlainSet(rule, severity, n, t, K) = {h[k] : k \in K}
  BY Zenon, <1>2 DEF PlainSet
<1> QED  BY Zenon, <1>3, <1>4, OneForEach

\* One for each key, about whom the key is of.
KeyedSet(rule, severity, a, n, t, K) == {KeyedHit(rule, severity, a[k], n[k], t, k) : k \in K}

\* They are about the keys.
LEMMA KeyedHits ==
  ASSUME NEW K, IsFiniteSet(K), "" \notin K, NEW a, NEW n, NEW t, NEW rule, NEW severity
  PROVE  AreAbout(KeyedSet(rule, severity, a, n, t, K), rule, K)
<1>1. PICK h : h = [k \in K |-> KeyedHit(rule, severity, a[k], n[k], t, k)]
  OBVIOUS
<1>2. \A k \in K : h[k] = KeyedHit(rule, severity, a[k], n[k], t, k)
  BY Zenon, <1>1
<1>3. \A k \in K : About(h[k], rule, k)
  <2>1. \A k \in K : k # ""
    OBVIOUS
  <2> QED  BY Zenon, <1>2, <2>1, HitKeyed
<1>4. KeyedSet(rule, severity, a, n, t, K) = {h[k] : k \in K}
  BY Zenon, <1>2 DEF KeyedSet
<1> QED  BY Zenon, <1>3, <1>4, OneForEach

\* Whom a rule has findings about.
FoundBy(hits, rule) == {IF h.key = "" THEN h.actor ELSE h.key : h \in {x \in hits : x.rule = rule}}
FoundAre(hits, rule, K) == FoundBy(hits, rule) = K

\* Those that the rule made, when none of the others are of it.
LEMMA FoundIs ==
  ASSUME NEW rule, NEW K, NEW E, AreAbout(E, rule, K), NEW H, E \subseteq H, \A h \in H \ E : h.rule # rule
  PROVE  FoundAre(H, rule, K)
<1>1. FoundBy(H, rule) = {WhoOf(h) : h \in {x \in H : x.rule = rule}}
  BY Zenon DEF FoundBy, WhoOf
<1>2. {x \in H : x.rule = rule} = E
  <2>1. \A x \in E : x.rule = rule
    BY Zenon DEF AreAbout
  <2> QED  BY <2>1
<1>3. {WhoOf(h) : h \in E} = K
  BY Zenon DEF AreAbout
<1> QED  BY Zenon, <1>1, <1>2, <1>3 DEF FoundAre

\* The host of a legacy key.
HostOf(k) == CHOOSE a \in Addr : \E e \in {"in", "out"}, p \in VPCLegacyPorts, t \in {"tcp", "udp"} :
               k = LegacyKey(a, e, ToString(p) \o "/" \o t)

\* Whom the findings H of each rule are about.
VpcFound(H, scanned, exposed, swept, sent, legacy) ==
  /\ FoundBy(H, "vpc-port-scan") = scanned /\ FoundBy(H, "vpc-sensitive-port-exposed") = exposed
  /\ FoundBy(H, "vpc-host-sweep") = swept /\ FoundBy(H, "vpc-large-egress") = sent
  /\ FoundBy(H, "vpc-legacy-protocol") = legacy
  /\ IsFiniteSet(H)

\* The keys that a rule looks at of a summary are whom it has findings about.
LEMMA VpcHitsSplit ==
  ASSUME NEW s, NEW egress, NEW A, A = AtLeast(s.ScanPorts, ScanPorts), IsFiniteSet(A),
         NEW B, B = DOMAIN s.Exposed, IsFiniteSet(B), NEW C, C = AtLeast(s.Sweep, SweepHosts), IsFiniteSet(C),
         NEW D, D = {k \in DOMAIN s.capped.EgressBytes \ {OtherKey} : s.capped.EgressBytes[k] >= egress}, IsFiniteSet(D),
         NEW L, L = DOMAIN s.capped.Legacy \ {OtherKey}, IsFiniteSet(L), "" \notin L
  PROVE  VpcFound(vpcHits(s, egress), A, B, C, D, L)
<1>1. PICK f : f = s.span.first
  OBVIOUS
<1>2. PICK na, nb, tb, nc, h :
        /\ na = [a \in A |-> Cardinality(s.ScanPorts.sets[a])] /\ nb = [k \in B |-> s.Exposed[k].flows]
        /\ tb = [k \in B |-> IF s.Exposed[k].first = 0 THEN s.span.first ELSE s.Exposed[k].first]
        /\ nc = [a \in C |-> Cardinality(s.Sweep.sets[a])] /\ h = [k \in L |-> HostOf(k)]
  OBVIOUS
<1>3. PICK ta, tc, td : ta = [a \in A |-> f] /\ tc = [a \in C |-> f] /\ td = [a \in D |-> f]
  OBVIOUS
<1>4. PICK e, l : e = s.capped.EgressBytes /\ l = s.capped.Legacy
  OBVIOUS
<1>5. PICK E1, E2, E3, E4, E5 :
        /\ E1 = PlainSet("vpc-port-scan", HIGH, na, ta, A)
        /\ E2 = PlainSet("vpc-sensitive-port-exposed", HIGH, nb, tb, B)
        /\ E3 = PlainSet("vpc-host-sweep", MEDIUM, nc, tc, C)
        /\ E4 = PlainSet("vpc-large-egress", MEDIUM, e, td, D)
        /\ E5 = KeyedSet("vpc-legacy-protocol", LOW, h, l, f, L)
  OBVIOUS
<1>6. /\ AreAbout(E1, "vpc-port-scan", A) /\ AreAbout(E2, "vpc-sensitive-port-exposed", B)
      /\ AreAbout(E3, "vpc-host-sweep", C) /\ AreAbout(E4, "vpc-large-egress", D)
      /\ AreAbout(E5, "vpc-legacy-protocol", L)
  BY Zenon, <1>5, PlainHits, KeyedHits
<1>7. vpcHits(s, egress)
      = {Hit("vpc-port-scan", HIGH, a, Cardinality(s.ScanPorts.sets[a]), s.span.first) : a \in AtLeast(s.ScanPorts, ScanPorts)}
        \cup {Hit("vpc-sensitive-port-exposed", HIGH, k, s.Exposed[k].flows,
                  IF s.Exposed[k].first = 0 THEN s.span.first ELSE s.Exposed[k].first) : k \in DOMAIN s.Exposed}
        \cup {Hit("vpc-host-sweep", MEDIUM, a, Cardinality(s.Sweep.sets[a]), s.span.first) : a \in AtLeast(s.Sweep, SweepHosts)}
        \cup {Hit("vpc-large-egress", MEDIUM, a, s.capped.EgressBytes[a], s.span.first) :
                a \in {k \in DOMAIN s.capped.EgressBytes \ {OtherKey} : s.capped.EgressBytes[k] >= egress}}
        \cup {KeyedHit("vpc-legacy-protocol", LOW, HostOf(k), s.capped.Legacy[k], s.span.first, k) :
                k \in DOMAIN s.capped.Legacy \ {OtherKey}}
  BY Zenon DEF vpcHits, KeyedHit, HostOf
<1>8. {Hit("vpc-port-scan", HIGH, a, Cardinality(s.ScanPorts.sets[a]), s.span.first) : a \in AtLeast(s.ScanPorts, ScanPorts)} = E1
  <2>1. \A a \in A : na[a] = Cardinality(s.ScanPorts.sets[a]) /\ ta[a] = s.span.first
    BY Zenon, <1>1, <1>2, <1>3
  <2>2. {Hit("vpc-port-scan", HIGH, a, Cardinality(s.ScanPorts.sets[a]), s.span.first) : a \in A} = E1
    BY Zenon, <1>5, <2>1 DEF PlainSet
  <2> QED  BY Zenon, <2>2
<1>9. {Hit("vpc-sensitive-port-exposed", HIGH, k, s.Exposed[k].flows,
           IF s.Exposed[k].first = 0 THEN s.span.first ELSE s.Exposed[k].first) : k \in DOMAIN s.Exposed} = E2
  <2>1. \A k \in B : /\ nb[k] = s.Exposed[k].flows
                     /\ tb[k] = IF s.Exposed[k].first = 0 THEN s.span.first ELSE s.Exposed[k].first
    BY Zenon, <1>2
  <2>2. {Hit("vpc-sensitive-port-exposed", HIGH, k, s.Exposed[k].flows,
             IF s.Exposed[k].first = 0 THEN s.span.first ELSE s.Exposed[k].first) : k \in B} = E2
    <3>1. PICK t : t = [k \in B |-> IF s.Exposed[k].first = 0 THEN s.span.first ELSE s.Exposed[k].first]
      OBVIOUS
    <3>2. \A k \in B : t[k] = IF s.Exposed[k].first = 0 THEN s.span.first ELSE s.Exposed[k].first
      BY Zenon, <3>1
    <3>3. \A k \in B : tb[k] = t[k]
      BY Zenon, <2>1, <3>2
    <3>4. {Hit("vpc-sensitive-port-exposed", HIGH, k, s.Exposed[k].flows, t[k]) : k \in B} = E2
      <4>1. \A k \in B : nb[k] = s.Exposed[k].flows
        BY Zenon, <1>2
      <4>2. E2 = {Hit("vpc-sensitive-port-exposed", HIGH, k, nb[k], tb[k]) : k \in B}
        BY Zenon, <1>5 DEF PlainSet
      <4> QED  BY Zenon, <4>1, <4>2, <3>3
    <3>5. {Hit("vpc-sensitive-port-exposed", HIGH, k, s.Exposed[k].flows,
               IF s.Exposed[k].first = 0 THEN s.span.first ELSE s.Exposed[k].first) : k \in B}
          = {Hit("vpc-sensitive-port-exposed", HIGH, k, s.Exposed[k].flows, t[k]) : k \in B}
      BY ZenonT(60), <3>2
    <3> QED  BY Zenon, <3>4, <3>5
  <2> QED  BY Zenon, <2>2
<1>10. {Hit("vpc-host-sweep", MEDIUM, a, Cardinality(s.Sweep.sets[a]), s.span.first) : a \in AtLeast(s.Sweep, SweepHosts)} = E3
  <2>1. \A a \in C : nc[a] = Cardinality(s.Sweep.sets[a]) /\ tc[a] = s.span.first
    BY Zenon, <1>1, <1>2, <1>3
  <2>2. {Hit("vpc-host-sweep", MEDIUM, a, Cardinality(s.Sweep.sets[a]), s.span.first) : a \in C} = E3
    BY Zenon, <1>5, <2>1 DEF PlainSet
  <2> QED  BY Zenon, <2>2
<1>11. {Hit("vpc-large-egress", MEDIUM, a, s.capped.EgressBytes[a], s.span.first) :
          a \in {k \in DOMAIN s.capped.EgressBytes \ {OtherKey} : s.capped.EgressBytes[k] >= egress}} = E4
  <2>1. \A a \in D : e[a] = s.capped.EgressBytes[a] /\ td[a] = s.span.first
    BY Zenon, <1>1, <1>3, <1>4
  <2>2. {Hit("vpc-large-egress", MEDIUM, a, s.capped.EgressBytes[a], s.span.first) : a \in D} = E4
    BY Zenon, <1>5, <2>1 DEF PlainSet
  <2> QED  BY Zenon, <2>2
<1>12. {KeyedHit("vpc-legacy-protocol", LOW, HostOf(k), s.capped.Legacy[k], s.span.first, k) :
          k \in DOMAIN s.capped.Legacy \ {OtherKey}} = E5
  <2>1. \A k \in L : h[k] = HostOf(k) /\ l[k] = s.capped.Legacy[k] /\ f = s.span.first
    BY Zenon, <1>1, <1>2, <1>4
  <2>2. {KeyedHit("vpc-legacy-protocol", LOW, HostOf(k), s.capped.Legacy[k], s.span.first, k) : k \in L} = E5
    BY Zenon, <1>5, <2>1 DEF KeyedSet
  <2> QED  BY Zenon, <2>2
<1>13. PICK H : H = vpcHits(s, egress)
  OBVIOUS
<1>14. H = E1 \cup E2 \cup E3 \cup E4 \cup E5
  BY Zenon, <1>7, <1>8, <1>9, <1>10, <1>11, <1>12, <1>13
<1>15. /\ \A x \in E1 : x.rule = "vpc-port-scan"
       /\ \A x \in E2 : x.rule = "vpc-sensitive-port-exposed"
       /\ \A x \in E3 : x.rule = "vpc-host-sweep"
       /\ \A x \in E4 : x.rule = "vpc-large-egress"
       /\ \A x \in E5 : x.rule = "vpc-legacy-protocol"
  BY Zenon, <1>6 DEF AreAbout
<1>16. /\ \A x \in H \ E1 : x.rule # "vpc-port-scan"
       /\ \A x \in H \ E2 : x.rule # "vpc-sensitive-port-exposed"
       /\ \A x \in H \ E3 : x.rule # "vpc-host-sweep"
       /\ \A x \in H \ E4 : x.rule # "vpc-large-egress"
       /\ \A x \in H \ E5 : x.rule # "vpc-legacy-protocol"
  BY <1>14, <1>15
<1>17. E1 \subseteq H /\ E2 \subseteq H /\ E3 \subseteq H /\ E4 \subseteq H /\ E5 \subseteq H
  BY <1>14
<1>18. /\ FoundBy(H, "vpc-port-scan") = A /\ FoundBy(H, "vpc-sensitive-port-exposed") = B
       /\ FoundBy(H, "vpc-host-sweep") = C /\ FoundBy(H, "vpc-large-egress") = D
       /\ FoundBy(H, "vpc-legacy-protocol") = L
  <2>1. FoundAre(H, "vpc-port-scan", A)
    <3>1. AreAbout(E1, "vpc-port-scan", A) /\ E1 \subseteq H /\ \A x \in H \ E1 : x.rule # "vpc-port-scan"
      BY Zenon, <1>6, <1>16, <1>17
    <3> QED  BY Zenon, <3>1, FoundIs
  <2>2. FoundAre(H, "vpc-sensitive-port-exposed", B)
    <3>1. AreAbout(E2, "vpc-sensitive-port-exposed", B) /\ E2 \subseteq H /\ \A x \in H \ E2 : x.rule # "vpc-sensitive-port-exposed"
      BY Zenon, <1>6, <1>16, <1>17
    <3> QED  BY Zenon, <3>1, FoundIs
  <2>3. FoundAre(H, "vpc-host-sweep", C)
    <3>1. AreAbout(E3, "vpc-host-sweep", C) /\ E3 \subseteq H /\ \A x \in H \ E3 : x.rule # "vpc-host-sweep"
      BY Zenon, <1>6, <1>16, <1>17
    <3> QED  BY Zenon, <3>1, FoundIs
  <2>4. FoundAre(H, "vpc-large-egress", D)
    <3>1. AreAbout(E4, "vpc-large-egress", D) /\ E4 \subseteq H /\ \A x \in H \ E4 : x.rule # "vpc-large-egress"
      BY Zenon, <1>6, <1>16, <1>17
    <3> QED  BY Zenon, <3>1, FoundIs
  <2>5. FoundAre(H, "vpc-legacy-protocol", L)
    <3>1. AreAbout(E5, "vpc-legacy-protocol", L) /\ E5 \subseteq H /\ \A x \in H \ E5 : x.rule # "vpc-legacy-protocol"
      BY Zenon, <1>6, <1>16, <1>17
    <3> QED  BY Zenon, <3>1, FoundIs
  <2> QED  BY Zenon, <2>1, <2>2, <2>3, <2>4, <2>5 DEF FoundAre
<1>19. IsFiniteSet(H)
  <2>1. IsFiniteSet(E1) /\ IsFiniteSet(E2) /\ IsFiniteSet(E3) /\ IsFiniteSet(E4) /\ IsFiniteSet(E5)
    BY Zenon, <1>6 DEF AreAbout
  <2> QED  BY <1>14, <2>1, FS_Union
<1> QED  BY Zenon, <1>13, <1>18, <1>19 DEF VpcFound

\* The sources f of at least n values g.
Busy(f, g, S, n) == {a \in FoundIn(f, S) : Cardinality(ShownBy(f, g, S, a)) >= n}

\* The findings about A are right: of the names in truth, and all of them unless some are lost.
RightFor(A, truth, lost) == A \subseteq truth /\ (lost \/ A = truth) /\ IsFiniteSet(A)

\* A tracker of as many values as a rule asks for is enough for the rule.
LEMMA TrackerFinds ==
  ASSUME NEW f, NEW g, NEW S, IsFiniteSet(S), NEW n \in Nat, NEW d, DistinctIs(d, f, g, S, n)
  PROVE  RightFor(AtLeast(d, n), Busy(f, g, S, n), d.truncated)
<1>1. PICK D : D = DOMAIN d.sets
  OBVIOUS
<1>2. IsFiniteSet(D) /\ D \subseteq FoundIn(f, S) /\ (d.truncated \/ D = FoundIn(f, S))
  BY <1>1, Zenon DEF DistinctIs
<1>3. ASSUME NEW a \in D
      PROVE  Filled(d.sets[a], ShownBy(f, g, S, a), n) /\ (d.truncated \/ Full(d.sets[a], ShownBy(f, g, S, a), n))
  BY <1>1, <1>3, Zenon DEF DistinctIs
<1>4. ASSUME NEW a PROVE IsFiniteSet(ShownBy(f, g, S, a))
  <2>1. PICK X : X = {x \in S : f[x] = a}
    OBVIOUS
  <2>2. IsFiniteSet(X)
    <3>1. X \in SUBSET S
      BY <2>1
    <3> QED  BY <3>1, FS_Subset
  <2>3. ShownBy(f, g, S, a) = {g[e] : e \in X}
    BY <2>1 DEF ShownBy
  <2>4. {g[e] : e \in X} \in SUBSET {g[e] : e \in X}
    OBVIOUS
  <2> QED  BY Zenon, <2>2, <2>3, <2>4, ImageFinite
<1>5. ASSUME NEW a \in D
      PROVE  /\ Cardinality(d.sets[a]) >= n => Cardinality(ShownBy(f, g, S, a)) >= n
             /\ d.truncated \/ (Cardinality(ShownBy(f, g, S, a)) >= n => Cardinality(d.sets[a]) >= n)
  <2>1. PICK X, V, c, v : X = d.sets[a] /\ V = ShownBy(f, g, S, a) /\ c = Cardinality(X) /\ v = Cardinality(V)
    OBVIOUS
  <2>2. X \subseteq V /\ IsFiniteSet(X) /\ IsFiniteSet(V)
    BY <1>3, <1>4, <2>1 DEF Filled
  <2>3. c \in Nat /\ v \in Nat /\ c <= v
    BY <2>1, <2>2, FS_CardinalityType, FS_Subset
  <2>4. d.truncated \/ c = n \/ X = V
    BY <1>3, <2>1 DEF Full
  <2>5. X = V => c = v
    BY <2>1
  <2>6. c >= n => v >= n
    BY <2>3
  <2>7. d.truncated \/ (v >= n => c >= n)
    BY <2>3, <2>4, <2>5
  <2> QED  BY <2>1, <2>6, <2>7
<1>6. AtLeast(d, n) = {a \in D : Cardinality(d.sets[a]) >= n}
  BY <1>1 DEF AtLeast
<1>7. AtLeast(d, n) \subseteq Busy(f, g, S, n)
  BY <1>2, <1>5, <1>6 DEF Busy
<1>8. d.truncated \/ AtLeast(d, n) = Busy(f, g, S, n)
  BY <1>2, <1>5, <1>6, <1>7 DEF Busy
<1>9. IsFiniteSet(AtLeast(d, n))
  <2>1. AtLeast(d, n) \in SUBSET D
    BY <1>6
  <2> QED  BY <1>2, <2>1, FS_Subset
<1> QED  BY Zenon, <1>7, <1>8, <1>9 DEF RightFor

\* What the names of a capped counter are.
CapNames(c, f, w, S) ==
  /\ DOMAIN c \ {OtherKey} \subseteq {f[e] : e \in Weighty(f, w, S)}
  /\ OtherKey \in DOMAIN c \/ DOMAIN c \ {OtherKey} = {f[e] : e \in Weighty(f, w, S)}
  /\ IsFiniteSet(DOMAIN c \ {OtherKey})
  /\ \A k : k \notin {f[e] : e \in Weighty(f, w, S)} => Truth(f, w, S, k) = 0

\* The named keys of a capped counter are keys of entries, and all of them if it never folded.
LEMMA NamesOfCap ==
  ASSUME NEW S, NEW f, NEW w, NEW c, CapIs(c, f, w, S)
  PROVE  CapNames(c, f, w, S)
<1>1. PICK D, F : D = DOMAIN c \ {OtherKey} /\ F = {f[e] : e \in Weighty(f, w, S)}
  OBVIOUS
<1>2. ASSUME NEW k, k \notin F PROVE Truth(f, w, S, k) = 0
  <2>1. {e \in Weighty(f, w, S) : f[e] = k} = {}
    BY <1>1, <1>2
  <2> QED  BY <2>1, SumEmpty DEF Truth
<1>3. ASSUME NEW k \in D PROVE k \in F
  <2>1. c[k] \in Int /\ c[k] > 0 /\ c[k] <= Truth(f, w, S, k)
    BY <1>1 DEF CapIs
  <2>2. Truth(f, w, S, k) # 0
    <3>1. ASSUME Truth(f, w, S, k) = 0 PROVE FALSE
      BY <2>1, <3>1
    <3> QED  BY <3>1
  <2> QED  BY <1>2, <2>2
<1>4. OtherKey \in DOMAIN c \/ D = F
  BY <1>1 DEF CapIs
<1>5. IsFiniteSet(D)
  <2>1. IsFiniteSet(DOMAIN c) /\ D \in SUBSET DOMAIN c
    BY <1>1 DEF CapIs
  <2> QED  BY <2>1, FS_Subset
<1> QED  BY Zenon, <1>1, <1>2, <1>3, <1>4, <1>5 DEF CapNames

\* What is no less than a number that is enough, is enough; zero is not.
LEMMA NoLess == \A l \in Nat, p \in Int, q \in Nat : p <= q /\ p >= l => q >= l
OBVIOUS

\* A number that is enough is not zero.
LEMMA ZeroIsLess == \A l \in Nat, q \in Nat : l > 0 /\ q >= l => q # 0
OBVIOUS

\* The actors that were given enough.
Enough(v, g, X, least) == {a \in {g[e] : e \in X} : GivenTo(v, g, X, a) >= least}

\* A capped counter of what the entries X give is enough for a rule that asks for least.
LEMMA CapFinds ==
  ASSUME NEW S, IsFiniteSet(S), NEW X \in SUBSET S, NEW f, NEW w, NEW v, NEW g, CountsOnly(f, w, S, v, g, X),
         \A e \in S : w[e] \in Nat, \A e \in X : g[e] # "", NEW c, CapIs(c, f, w, S), NEW least \in Nat, least > 0
  PROVE  RightFor({k \in DOMAIN c \ {OtherKey} : c[k] >= least}, Enough(v, g, X, least), OtherKey \in DOMAIN c)
<1>0. least \in Nat /\ least > 0
  OBVIOUS
<1>1. PICK D, F, A : /\ D = DOMAIN c \ {OtherKey} /\ F = {f[e] : e \in Weighty(f, w, S)}
                    /\ A = {k \in D : c[k] >= least}
  OBVIOUS
<1>2. PICK T : T = [k \in F \cup D \cup {g[e] : e \in X} |-> Truth(f, w, S, k)]
  OBVIOUS
<1>3. /\ D \subseteq F /\ (OtherKey \in DOMAIN c \/ D = F) /\ IsFiniteSet(D)
      /\ \A k \in {g[e] : e \in X} : k \notin F => T[k] = 0
  <2>1. CapNames(c, f, w, S)
    BY NamesOfCap
  <2>2. \A k : k \notin F => Truth(f, w, S, k) = 0
    BY Zenon, <1>1, <2>1 DEF CapNames
  <2>3. D \subseteq F /\ (OtherKey \in DOMAIN c \/ D = F) /\ IsFiniteSet(D)
    BY Zenon, <1>1, <2>1 DEF CapNames
  <2> QED  BY <1>2, <2>2, <2>3
<1>4. /\ F \subseteq ActorsOf(g, X) /\ \A k \in {g[e] : e \in X} : T[k] = GivenTo(v, g, X, k)
  <2>1. GivenAre(f, w, S, v, g, X)
    BY GivenIs
  <2>2. F \subseteq ActorsOf(g, X)
    BY Zenon, <1>1, <2>1 DEF GivenAre
  <2>3. \A k : k # "" => Truth(f, w, S, k) = GivenTo(v, g, X, k)
    BY Zenon, <2>1 DEF GivenAre
  <2>4. \A k \in {g[e] : e \in X} : T[k] = Truth(f, w, S, k) /\ k # ""
    BY <1>2
  <2> QED  BY Zenon, <2>2, <2>3, <2>4
<1>5. F \subseteq {g[e] : e \in X}
  BY <1>4 DEF ActorsOf
<1>6. \A k \in D : c[k] \in Int /\ c[k] <= T[k] /\ (OtherKey \in DOMAIN c \/ c[k] = T[k])
  <2>1. \A k \in D : T[k] = Truth(f, w, S, k)
    BY <1>2
  <2>2. \A k \in D : c[k] \in Int /\ c[k] <= Truth(f, w, S, k)
    BY <1>1 DEF CapIs
  <2>3. OtherKey \in DOMAIN c \/ \A k \in D : c[k] = Truth(f, w, S, k)
    BY <1>1 DEF CapIs
  <2> QED  BY <2>1, <2>2, <2>3
<1>7. ASSUME NEW k \in F PROVE T[k] \in Nat
  <2>1. T[k] = Truth(f, w, S, k)
    BY <1>2
  <2>2. PICK B : B = {e \in Weighty(f, w, S) : f[e] = k}
    OBVIOUS
  <2>3. B \in SUBSET S
    BY <2>2 DEF Weighty, Keyed
  <2>4. IsFiniteSet(B) /\ \A e \in B : w[e] \in Nat
    BY <2>3, FS_Subset
  <2>5. Sum(w, B) \in Nat
    BY <2>4, SumNat
  <2> QED  BY <2>1, <2>2, <2>5 DEF Truth
<1>8. PICK E : E = Enough(v, g, X, least)
  OBVIOUS
<1>9. E = {a \in {g[e] : e \in X} : T[a] >= least}
  <2>1. E = {a \in {g[e] : e \in X} : GivenTo(v, g, X, a) >= least}
    BY <1>8 DEF Enough
  <2> QED  BY <1>4, <2>1
<1>10. A \subseteq E
  <2>1. ASSUME NEW k \in A PROVE k \in E
    <3>1. k \in D /\ c[k] >= least
      BY <1>1
    <3>2. k \in F /\ k \in {g[e] : e \in X}
      BY <1>3, <1>5, <3>1
    <3>3. T[k] >= least
      <4>1. PICK p, q : p = c[k] /\ q = T[k]
        OBVIOUS
      <4>2. p \in Int /\ p <= q /\ p >= least
        BY <1>6, <3>1, <4>1
      <4>3. q \in Nat
        BY <1>7, <3>2, <4>1
      <4>4. q >= least
        BY Zenon, <1>0, <4>2, <4>3, NoLess
      <4> QED  BY <4>1, <4>4
    <3> QED  BY <1>9, <3>2, <3>3
  <2> QED  BY <2>1
<1>11. OtherKey \in DOMAIN c \/ A = E
  <2>1. ASSUME OtherKey \notin DOMAIN c, NEW k \in E PROVE k \in A
    <3>1. k \in {g[e] : e \in X} /\ T[k] >= least
      BY <1>9
    <3>2. k \in F
      <4>1. ASSUME T[k] = 0 PROVE FALSE
        <5>1. PICK q : q = T[k]
          OBVIOUS
        <5>2. q = 0 /\ q >= least
          BY <3>1, <4>1, <5>1
        <5>3. q \in Nat
          BY <5>2
        <5> QED  BY Zenon, <1>0, <5>2, <5>3, ZeroIsLess
      <4> QED  BY <1>3, <3>1, <4>1
    <3>3. k \in D /\ c[k] = T[k]
      BY <1>3, <1>6, <2>1, <3>2
    <3> QED  BY <1>1, <3>1, <3>3
  <2> QED  BY <1>10, <2>1
<1>12. IsFiniteSet(A)
  <2>1. A \in SUBSET D
    BY <1>1
  <2> QED  BY <1>3, <2>1, FS_Subset
<1>13. RightFor(A, E, OtherKey \in DOMAIN c)
  BY Zenon, <1>10, <1>11, <1>12 DEF RightFor
<1> QED  BY Zenon, <1>1, <1>8, <1>13

\* The flows that the rules over counters look at, and the keys of those to legacy services.
EgressOf(F) == {e \in F : Egress(e)}
LegacyOf(F) == {e \in F : Legacy(e)}
LegacyNames(F) == {vpcCapped(e).Legacy.key : e \in LegacyOf(F)} \ {""}

\* What a flow adds to the counters that rules read.
LEMMA FlowKeys ==
  ASSUME NEW e
  PROVE  /\ vpcCapped(e)["EgressBytes"] = OneKey(e.src, IF Egress(e) THEN e.bytes ELSE 0)
         /\ vpcCapped(e)["Legacy"].n = One(Legacy(e))
<1>1. PICK l, r, q : /\ l = IF LegacyIn(e) THEN LegacyKey(e.dst, "in", Service(e)) ELSE LegacyKey(e.src, "out", Service(e))
                     /\ r = (IF Egress(e) THEN e.bytes ELSE 0) /\ q = One(Legacy(e))
  OBVIOUS
<1>2. vpcCapped(e)["EgressBytes"] = OneKey(e.src, r) /\ vpcCapped(e)["Legacy"] = OneKey(l, q)
  BY <1>1, Zenon DEF vpcCapped
<1>3. OneKey(l, q).n = q
  BY DEF OneKey
<1> QED  BY Zenon, <1>1, <1>2, <1>3

\* The counters of egress and of legacy keys.
CapOfFlows(c, n, F) ==
  \E f, w : /\ CapIs(c, f, w, F)
            /\ \A e \in F : f[e] = vpcCapped(e)[n].key /\ w[e] = vpcCapped(e)[n].n /\ w[e] \in Nat

\* Each of the capped counters of a flow summary is one.
LEMMA FlowCaps ==
  ASSUME NEW U, VpcTyped(U), NEW F \in SUBSET U, NEW s, CapsAre(s.capped, CappedIn(U), vpcCounters, F),
         NEW n \in vpcCounters
  PROVE  CapOfFlows(s.capped[n], n, F)
<1>1. PICK K, f, w : K = CappedIn(U) /\ f = KeyOf(K, n) /\ w = MuchOf(K, n)
  OBVIOUS
<1>2. CapIs(s.capped[n], f, w, F)
  BY Zenon, <1>1 DEF CapsAre
<1>3. Weighing(K, vpcCounters, U)
  <2>1. \A e \in U : e.bytes \in Nat
    BY DEF VpcTyped
  <2> QED  BY <1>1, <2>1, VpcCappedAre DEF CappedIn
<1>4. \A e \in F : f[e] = vpcCapped(e)[n].key /\ w[e] = vpcCapped(e)[n].n /\ w[e] \in Nat
  <2>1. \A e \in F : e \in U /\ K[e] = vpcCapped(e)
    BY <1>1 DEF CappedIn
  <2>2. DOMAIN K = U /\ \A e \in U : K[e][n].n \in Nat
    BY <1>3 DEF Weighing
  <2> QED  BY <1>1, <2>1, <2>2 DEF KeyOf, MuchOf
<1> QED  BY Zenon, <1>2, <1>4 DEF CapOfFlows

\* Large egress.
LEMMA EgressFinds ==
  ASSUME NEW U, IsFiniteSet(U), VpcTyped(U), NEW F \in SUBSET U, NEW s, CapsAre(s.capped, CappedIn(U), vpcCounters, F),
         NEW least \in Nat, least > 0, NEW c, c = s.capped["EgressBytes"]
  PROVE  RightFor({k \in DOMAIN c \ {OtherKey} : c[k] >= least},
                  Enough(BytesIn(U), SrcsIn(U), EgressOf(F), least), OtherKey \in DOMAIN c)
<1>1. "EgressBytes" \in vpcCounters
  BY DEF vpcCounters
<1>2. PICK f, w : /\ CapIs(c, f, w, F)
                  /\ \A e \in F : /\ f[e] = vpcCapped(e)["EgressBytes"].key /\ w[e] = vpcCapped(e)["EgressBytes"].n
                                  /\ w[e] \in Nat
  <2>1. CapOfFlows(s.capped["EgressBytes"], "EgressBytes", F)
    BY Zenon, <1>1, FlowCaps
  <2> QED  BY Zenon, <2>1 DEF CapOfFlows
<1>3. PICK X, v, g : X = EgressOf(F) /\ v = BytesIn(U) /\ g = SrcsIn(U)
  OBVIOUS
<1>4. X \in SUBSET F /\ IsFiniteSet(F) /\ \A e \in F : e \in U /\ (e \in X <=> Egress(e))
  BY <1>3, FS_Subset DEF EgressOf
<1>5. \A e \in F : v[e] = e.bytes /\ g[e] = e.src
  BY <1>3, <1>4 DEF BytesIn, SrcsIn
<1>6. \A e \in F : f[e] = e.src /\ w[e] = IF Egress(e) THEN e.bytes ELSE 0
  <2>1. ASSUME NEW e \in F PROVE f[e] = e.src /\ w[e] = IF Egress(e) THEN e.bytes ELSE 0
    <3>1. PICK m : m = IF Egress(e) THEN e.bytes ELSE 0
      OBVIOUS
    <3>2. vpcCapped(e)["EgressBytes"] = OneKey(e.src, m)
      BY Zenon, <3>1, FlowKeys
    <3>3. OneKey(e.src, m).key = e.src /\ OneKey(e.src, m).n = m
      BY DEF OneKey
    <3> QED  BY Zenon, <1>2, <3>1, <3>2, <3>3
  <2> QED  BY Zenon, <2>1
<1>7. CountsOnly(f, w, F, v, g, X)
  <2>1. \A e \in X : f[e] = g[e] /\ w[e] = v[e]
    BY Zenon, <1>4, <1>5, <1>6
  <2>2. \A e \in F \ X : w[e] = 0
    BY Zenon, <1>4, <1>6
  <2> QED  BY Zenon, <2>1, <2>2 DEF CountsOnly
<1>8. \A e \in X : g[e] # ""
  <2>1. \A e \in X : g[e] \in IsPrivate
    BY Zenon, <1>4, <1>5 DEF Egress
  <2> QED  BY <2>1, AddressAssumption
<1>9. \A e \in F : w[e] \in Nat
  BY <1>2
<1>10. RightFor({k \in DOMAIN c \ {OtherKey} : c[k] >= least}, Enough(v, g, X, least), OtherKey \in DOMAIN c)
  <2>1. least \in Nat /\ least > 0
    OBVIOUS
  <2> HIDE <1>3, <1>5, <1>6
  <2> QED  BY <1>2, <1>4, <1>7, <1>8, <1>9, <2>1, CapFinds
<1> QED  BY Zenon, <1>3, <1>10

\* Legacy protocols.
LEMMA LegacyFinds ==
  ASSUME NEW U, IsFiniteSet(U), VpcTyped(U), NEW F \in SUBSET U, NEW s, CapsAre(s.capped, CappedIn(U), vpcCounters, F),
         NEW c, c = s.capped["Legacy"]
  PROVE  RightFor(DOMAIN c \ {OtherKey}, LegacyNames(F), OtherKey \in DOMAIN c)
<1>1. "Legacy" \in vpcCounters
  BY DEF vpcCounters
<1>2. PICK f, w : /\ CapIs(c, f, w, F)
                  /\ \A e \in F : f[e] = vpcCapped(e)["Legacy"].key /\ w[e] = vpcCapped(e)["Legacy"].n /\ w[e] \in Nat
  <2>1. CapOfFlows(s.capped["Legacy"], "Legacy", F)
    BY Zenon, <1>1, FlowCaps
  <2> QED  BY Zenon, <2>1 DEF CapOfFlows
<1>3. \A e \in F : w[e] = One(Legacy(e))
  BY Zenon, <1>2, FlowKeys
<1>4. \A e : Legacy(e) => One(Legacy(e)) > 0
  <2>1. \A e : Legacy(e) => One(Legacy(e)) = 1
    BY Zenon DEF One
  <2>2. ASSUME NEW e, Legacy(e) PROVE One(Legacy(e)) > 0
    <3>1. PICK m : m = One(Legacy(e))
      OBVIOUS
    <3>2. m = 1
      BY Zenon, <2>1, <2>2, <3>1
    <3> QED  BY <3>1, <3>2
  <2> QED  BY Zenon, <2>2
<1>5. \A e : ~Legacy(e) => ~(One(Legacy(e)) > 0)
  <2>1. \A e : ~Legacy(e) => One(Legacy(e)) = 0
    BY Zenon DEF One
  <2>2. ASSUME NEW e, ~Legacy(e) PROVE ~(One(Legacy(e)) > 0)
    <3>1. PICK m : m = One(Legacy(e))
      OBVIOUS
    <3>2. m = 0
      BY Zenon, <2>1, <2>2, <3>1
    <3> QED  BY <3>1, <3>2
  <2> QED  BY Zenon, <2>2
<1>6. Weighty(f, w, F) = {e \in LegacyOf(F) : f[e] # ""}
  <2>1. \A e \in F : w[e] > 0 <=> Legacy(e)
    BY Zenon, <1>3, <1>4, <1>5
  <2> QED  BY <2>1 DEF Weighty, Keyed, Positive, LegacyOf
<1>7. {f[e] : e \in Weighty(f, w, F)} = LegacyNames(F)
  <2>1. \A e \in LegacyOf(F) : f[e] = vpcCapped(e).Legacy.key
    BY <1>2 DEF LegacyOf
  <2> QED  BY Zenon, <1>6, <2>1 DEF LegacyNames
<1>8. CapNames(c, f, w, F)
  BY Zenon, <1>2, NamesOfCap
<1> QED  BY Zenon, <1>7, <1>8 DEF CapNames, RightFor

\* T is the sources that showed n ports among the flows X, n hosts; that gave n bytes among the egress of F.
PortsBusy(T, X, n) == T = {a \in {e.src : e \in X} : Cardinality({e.dstport : e \in {x \in X : x.src = a}}) >= n}
HostsBusy(T, X, n) == T = {a \in {e.src : e \in X} : Cardinality({e.dst : e \in {x \in X : x.src = a}}) >= n}
GivesMuch(T, F, n) == T = {a \in {e.src : e \in {x \in F : Egress(x)}} :
                             SumOf({e \in F : Egress(e) /\ e.src = a}, LAMBDA e : e.bytes) >= n}

\* The names that should be found, as the flows say.
LEMMA BusyIs ==
  ASSUME NEW U, NEW X \in SUBSET U, NEW n
  PROVE  /\ PortsBusy(Busy(SrcsIn(U), PortsIn(U), X, n), X, n)
         /\ HostsBusy(Busy(SrcsIn(U), DstsIn(U), X, n), X, n)
         /\ FoundIn(ServicesIn(U), X) = {exposedKey(e) : e \in X}
<1>1. PICK f, g, h, k : f = SrcsIn(U) /\ g = PortsIn(U) /\ h = DstsIn(U) /\ k = ServicesIn(U)
  OBVIOUS
<1>2. \A e \in X : f[e] = e.src /\ g[e] = e.dstport /\ h[e] = e.dst /\ k[e] = exposedKey(e)
  BY <1>1 DEF SrcsIn, PortsIn, DstsIn, ServicesIn
<1>3. FoundIn(f, X) = {e.src : e \in X}
  BY <1>2 DEF FoundIn
<1>4. ASSUME NEW a
      PROVE  /\ ShownBy(f, g, X, a) = {e.dstport : e \in {x \in X : x.src = a}}
             /\ ShownBy(f, h, X, a) = {e.dst : e \in {x \in X : x.src = a}}
  <2>1. PICK Y : Y = {x \in X : x.src = a}
    OBVIOUS
  <2>2. {x \in X : f[x] = a} = Y /\ Y \subseteq X
    BY <1>2, <2>1
  <2>3. ShownBy(f, g, X, a) = {g[e] : e \in Y} /\ ShownBy(f, h, X, a) = {h[e] : e \in Y}
    BY <2>2 DEF ShownBy
  <2>4. {g[e] : e \in Y} = {e.dstport : e \in Y} /\ {h[e] : e \in Y} = {e.dst : e \in Y}
    BY <1>2, <2>2
  <2> QED  BY Zenon, <2>1, <2>3, <2>4
<1>5. FoundIn(k, X) = {exposedKey(e) : e \in X}
  BY Zenon, <1>2 DEF FoundIn
<1> QED  BY Zenon, <1>1, <1>3, <1>4, <1>5 DEF Busy, PortsBusy, HostsBusy

\* Those that were given enough, too.
LEMMA EnoughIs ==
  ASSUME NEW U, NEW F \in SUBSET U, NEW n
  PROVE  GivesMuch(Enough(BytesIn(U), SrcsIn(U), EgressOf(F), n), F, n)
<1>1. PICK X, v, g : X = EgressOf(F) /\ v = BytesIn(U) /\ g = SrcsIn(U)
  OBVIOUS
<1>2. X = {x \in F : Egress(x)}
  BY Zenon, <1>1 DEF EgressOf
<1>3. X \in SUBSET U
  BY <1>2
<1>4. \A e \in X : v[e] = e.bytes /\ g[e] = e.src
  BY <1>1, <1>3 DEF BytesIn, SrcsIn
<1>5. {g[e] : e \in X} = {e.src : e \in X}
  BY <1>4
<1>6. ASSUME NEW a PROVE GivenTo(v, g, X, a) = SumOf({e \in F : Egress(e) /\ e.src = a}, LAMBDA e : e.bytes)
  <2>1. PICK Y : Y = {x \in X : g[x] = a}
    OBVIOUS
  <2>2. {e \in F : Egress(e) /\ e.src = a} = Y
    BY <1>2, <1>4, <2>1
  <2>3. [e \in Y |-> v[e]] = [e \in Y |-> e.bytes]
    BY <1>4, <2>1
  <2>4. GivenTo(v, g, X, a) = Sum([e \in Y |-> v[e]], Y)
    BY <2>1 DEF GivenTo
  <2>5. SumOf(Y, LAMBDA e : e.bytes) = Sum([e \in Y |-> e.bytes], Y)
    BY DEF SumOf
  <2>6. SumOf({e \in F : Egress(e) /\ e.src = a}, LAMBDA e : e.bytes) = Sum([e \in Y |-> e.bytes], Y)
    BY <2>2 DEF SumOf
  <2> QED  BY <2>3, <2>4, <2>6
<1>7. Enough(v, g, X, n) = {a \in {g[e] : e \in X} : GivenTo(v, g, X, a) >= n}
  BY DEF Enough
<1> QED  BY Zenon, <1>1, <1>2, <1>5, <1>6, <1>7 DEF GivesMuch

\* Exposed services.
LEMMA ExposedFinds ==
  ASSUME NEW m, NEW dropped, NEW h, NEW U, NEW X, ExposedIs(m, dropped, h, U, X)
  PROVE  RightFor(DOMAIN m, FoundIn(h, X), dropped > 0)
<1>1. DOMAIN m \subseteq FoundIn(h, X) /\ IsFiniteSet(DOMAIN m) /\ dropped \in Nat
  BY DEF ExposedIs
<1>2. dropped = 0 => DOMAIN m = FoundIn(h, X)
  BY DEF ExposedIs, ServicesBy, KeyedBy, KeySet, FoundIn
<1>3. dropped > 0 \/ DOMAIN m = FoundIn(h, X)
  BY <1>1, <1>2
<1> QED  BY Zenon, <1>1, <1>3 DEF RightFor

\* What the rules find over a summary of flows is what they should find.
LEMMA VpcHitsTold ==
  ASSUME NEW U, IsFiniteSet(U), VpcTyped(U), NEW S \in SUBSET U, NEW F, F = FlowRows(S), NEW s, VpcRep(s, S, U),
         NEW egress \in Nat, egress > 0
  PROVE  VpcHitsAre(vpcHits(s, egress), s, F, egress) /\ IsFiniteSet(vpcHits(s, egress))
<1>1. FlowsRep(s, F, U) /\ F \in SUBSET U /\ IsFiniteSet(F)
  <2>1. F \in SUBSET U
    BY DEF FlowRows
  <2> QED  BY <2>1, FS_Subset DEF VpcRep
<1>2. PICK P, W, X : P = ProbesOf(F) /\ W = SweepsOf(F) /\ X = ExposuresOf(F)
  OBVIOUS
<1>3. /\ P = {e \in F : Probe(e)} /\ W = {e \in F : Swept(e)} /\ X = {e \in F : Exposure(e)}
      /\ P \in SUBSET U /\ W \in SUBSET U /\ X \in SUBSET U
  BY <1>1, <1>2 DEF ProbesOf, SweepsOf, ExposuresOf
<1>4. IsFiniteSet(P) /\ IsFiniteSet(W)
  BY <1>3, FS_Subset
<1>5. ScanPorts \in Nat /\ SweepHosts \in Nat
  BY VpcLimitsAssumption
<1>6. PICK A, B, C, D, L : /\ A = AtLeast(s.ScanPorts, ScanPorts) /\ B = DOMAIN s.Exposed /\ C = AtLeast(s.Sweep, SweepHosts)
                           /\ D = {k \in DOMAIN s.capped.EgressBytes \ {OtherKey} : s.capped.EgressBytes[k] >= egress}
                           /\ L = DOMAIN s.capped.Legacy \ {OtherKey}
  OBVIOUS
<1>7. /\ DistinctIs(s.ScanPorts, SrcsIn(U), PortsIn(U), P, ScanPorts)
      /\ DistinctIs(s.Sweep, SrcsIn(U), DstsIn(U), W, SweepHosts)
      /\ ExposedIs(s.Exposed, s.ExposedDropped, ServicesIn(U), U, X)
      /\ CapsAre(s.capped, CappedIn(U), vpcCounters, F)
  BY Zenon, <1>1, <1>2 DEF FlowsRep
<1>8. RightFor(A, Busy(SrcsIn(U), PortsIn(U), P, ScanPorts), s.ScanPorts.truncated)
  BY Zenon, <1>4, <1>5, <1>6, <1>7, TrackerFinds
<1>9. RightFor(C, Busy(SrcsIn(U), DstsIn(U), W, SweepHosts), s.Sweep.truncated)
  BY Zenon, <1>4, <1>5, <1>6, <1>7, TrackerFinds
<1>10. RightFor(B, FoundIn(ServicesIn(U), X), s.ExposedDropped > 0)
  BY Zenon, <1>6, <1>7, ExposedFinds
<1>11. RightFor(D, Enough(BytesIn(U), SrcsIn(U), EgressOf(F), egress), OtherKey \in DOMAIN s.capped["EgressBytes"])
  <2>1. PICK c : c = s.capped["EgressBytes"]
    OBVIOUS
  <2>2. RightFor({k \in DOMAIN c \ {OtherKey} : c[k] >= egress}, Enough(BytesIn(U), SrcsIn(U), EgressOf(F), egress), OtherKey \in DOMAIN c)
    BY Zenon, <1>1, <1>7, <2>1, EgressFinds
  <2> QED  BY Zenon, <1>6, <2>1, <2>2
<1>12. RightFor(L, LegacyNames(F), OtherKey \in DOMAIN s.capped["Legacy"])
  <2>1. PICK c : c = s.capped["Legacy"]
    OBVIOUS
  <2>2. RightFor(DOMAIN c \ {OtherKey}, LegacyNames(F), OtherKey \in DOMAIN c)
    BY Zenon, <1>1, <1>7, <2>1, LegacyFinds
  <2> QED  BY Zenon, <1>6, <2>1, <2>2
<1>13. PICK H : H = vpcHits(s, egress)
  OBVIOUS
<1>14. VpcFound(H, A, B, C, D, L)
  <2>1. IsFiniteSet(A) /\ IsFiniteSet(B) /\ IsFiniteSet(C) /\ IsFiniteSet(D) /\ IsFiniteSet(L)
    BY Zenon, <1>8, <1>9, <1>10, <1>11, <1>12 DEF RightFor
  <2>2. "" \notin L
    <3>1. L \subseteq LegacyNames(F)
      BY Zenon, <1>12 DEF RightFor
    <3> QED  BY <3>1 DEF LegacyNames
  <2> QED  BY Zenon, <1>6, <1>13, <2>1, <2>2, VpcHitsSplit
<1>15. PICK TA, TB, TC, TD, TL :
         /\ TA = Busy(SrcsIn(U), PortsIn(U), P, ScanPorts) /\ TC = Busy(SrcsIn(U), DstsIn(U), W, SweepHosts)
         /\ TB = FoundIn(ServicesIn(U), X) /\ TD = Enough(BytesIn(U), SrcsIn(U), EgressOf(F), egress)
         /\ TL = LegacyNames(F)
  OBVIOUS
<1>16. /\ TA = {a \in {e.src : e \in {e \in F : Probe(e)}} :
                  Cardinality({e.dstport : e \in {x \in {e \in F : Probe(e)} : x.src = a}}) >= ScanPorts}
       /\ TC = {a \in {e.src : e \in {e \in F : Swept(e)}} :
                  Cardinality({e.dst : e \in {x \in {e \in F : Swept(e)} : x.src = a}}) >= SweepHosts}
       /\ TB = {exposedKey(e) : e \in {x \in F : Exposure(x)}}
       /\ TD = {a \in {e.src : e \in {x \in F : Egress(x)}} :
                  SumOf({e \in F : Egress(e) /\ e.src = a}, LAMBDA e : e.bytes) >= egress}
       /\ TL = {vpcCapped(e).Legacy.key : e \in {x \in F : Legacy(x)}} \ {""}
  <2>1. TA = {a \in {e.src : e \in P} : Cardinality({e.dstport : e \in {x \in P : x.src = a}}) >= ScanPorts}
    <3>1. PortsBusy(Busy(SrcsIn(U), PortsIn(U), P, ScanPorts), P, ScanPorts)
      BY Zenon, <1>3, BusyIs
    <3>2. PortsBusy(TA, P, ScanPorts)
      BY Zenon, <1>15, <3>1
    <3> QED  BY Zenon, <3>2 DEF PortsBusy
  <2>2. TC = {a \in {e.src : e \in W} : Cardinality({e.dst : e \in {x \in W : x.src = a}}) >= SweepHosts}
    <3>1. HostsBusy(Busy(SrcsIn(U), DstsIn(U), W, SweepHosts), W, SweepHosts)
      BY Zenon, <1>3, BusyIs
    <3>2. HostsBusy(TC, W, SweepHosts)
      BY Zenon, <1>15, <3>1
    <3> QED  BY Zenon, <3>2 DEF HostsBusy
  <2>3. TB = {exposedKey(e) : e \in X}
    BY <1>3, <1>15, BusyIs
  <2>4. TD = {a \in {e.src : e \in {x \in F : Egress(x)}} :
                SumOf({e \in F : Egress(e) /\ e.src = a}, LAMBDA e : e.bytes) >= egress}
    <3>1. GivesMuch(Enough(BytesIn(U), SrcsIn(U), EgressOf(F), egress), F, egress)
      BY Zenon, <1>1, EnoughIs
    <3>2. GivesMuch(TD, F, egress)
      BY Zenon, <1>15, <3>1
    <3> QED  BY Zenon, <3>2 DEF GivesMuch
  <2>5. TL = {vpcCapped(e).Legacy.key : e \in {x \in F : Legacy(x)}} \ {""}
    BY Zenon, <1>15 DEF LegacyNames, LegacyOf
  <2> QED  BY Zenon, <1>3, <2>1, <2>2, <2>3, <2>4, <2>5
<1>17. /\ FoundBy(H, "vpc-port-scan") = A /\ FoundBy(H, "vpc-sensitive-port-exposed") = B
       /\ FoundBy(H, "vpc-host-sweep") = C /\ FoundBy(H, "vpc-large-egress") = D
       /\ FoundBy(H, "vpc-legacy-protocol") = L /\ IsFiniteSet(H)
  BY Zenon, <1>14 DEF VpcFound
<1>18. /\ A \subseteq TA /\ (s.ScanPorts.truncated \/ A = TA)
       /\ C \subseteq TC /\ (s.Sweep.truncated \/ C = TC)
       /\ B \subseteq TB /\ (s.ExposedDropped > 0 \/ B = TB)
       /\ D \subseteq TD /\ (OtherKey \in DOMAIN s.capped["EgressBytes"] \/ D = TD)
       /\ L \subseteq TL /\ (OtherKey \in DOMAIN s.capped["Legacy"] \/ L = TL)
  BY Zenon, <1>8, <1>9, <1>10, <1>11, <1>12, <1>15 DEF RightFor
<1>19. VpcHitsAre(H, s, F, egress)
  BY Zenon, <1>16, <1>17, <1>18 DEF VpcHitsAre, FoundBy
<1> QED  BY Zenon, <1>13, <1>17, <1>19

-----------------------------------------------------------------------------
(*****************************************************************************)
(* A run counts every good line of every object once.                        *)
(*****************************************************************************)

\* The entry made of line p[2] of object p[1].
EntryAt(p) == Entry(p[1], p[1].lines[p[2]])

\* What the number c of part k counts.
Numbers == {"matched", "connsRead"}
Counts(c, k, e) == IF c = "matched" THEN kindOf(e) = k /\ Match(e)
                   ELSE k = "conn" /\ kindOf(e) = "conn"

\* A shard or a result has its parts, each with its numbers.
HasParts(sh) == /\ DOMAIN sh = Kinds
                /\ \A k \in Kinds : /\ Numbers \subseteq DOMAIN sh[k]
                                    /\ \A c \in Numbers : sh[k][c] \in Nat

\* The lines read by the workers W, when by[o] took object o; and those of them that
\* the number c of part k counts.
Lines(by, W) == UNION {{o} \X decode(o) : o \in {p \in DOMAIN by : by[p] \in W}}
Tallied(by, W, c, k) == {p \in Lines(by, W) : Counts(c, k, EntryAt(p))}

\* What a worker that met the failing objects B has recorded of them: all, or as many as it may.
Recorded(E, B) == /\ E \subseteq B /\ IsFiniteSet(E) /\ Cardinality(E) \in 0 .. MaxErrs
                  /\ Cardinality(E) < MaxErrs => E = B

Scanned(by) ==
  /\ by \in [InRun \ todo -> Worker] /\ todo \subseteq InRun
  /\ \A w \in Worker :
       /\ read[w] = {o.key : o \in {p \in DOMAIN by : by[p] = w /\ complete(p)}}
       /\ Recorded(errs[w], {o.key : o \in {p \in DOMAIN by : by[p] = w /\ failure(p)}})
       /\ records[w] = Cardinality(Lines(by, {w}))
       /\ \A k \in Kinds, c \in Numbers : shard[w][k][c] = Cardinality(Tallied(by, {w}, c, k))

AddedUp(by) ==
  /\ result.records = Cardinality(Lines(by, 1 .. next - 1))
  /\ \A k \in Kinds, c \in Numbers :
       result.parts[k][c] = Cardinality(Tallied(by, 1 .. next - 1, c, k))

\* Nothing is read before the scan.
Untouched == /\ read = [w \in Worker |-> {}] /\ errs = [w \in Worker |-> {}]
             /\ records = [w \in Worker |-> 0]
             /\ \A k \in Kinds, c \in Numbers :
                  result.parts[k][c] = 0 /\ \A w \in Worker : shard[w][k][c] = 0
             /\ result.records = 0

Shapes == /\ log \in DOMAIN Objects
          /\ next \in 1 .. Workers + 1
          /\ DOMAIN shard = Worker /\ \A w \in Worker : HasParts(shard[w])
          /\ DOMAIN read = Worker /\ DOMAIN errs = Worker /\ DOMAIN records = Worker
          /\ {"records", "parts"} \subseteq DOMAIN result /\ HasParts(result.parts)

IInv == /\ Shapes
        /\ phase \in {"start", "scan", "merge", "done", "failed"}
        /\ phase = "start" => Untouched
        /\ phase \in {"start", "scan"} => next = 1
        /\ phase \in {"scan", "merge", "done"} => \E by : Scanned(by) /\ AddedUp(by)
        /\ phase \in {"merge", "done"} => todo = {}
        /\ phase = "done" => next = Workers + 1 \/ InRun = {}
        /\ phase = "done" /\ log = "vpc" => InRun # {} \/ ~HiveFound
-----------------------------------------------------------------------------
\* The objects of a run, and their lines.
LEMMA ObjectFacts ==
  ASSUME log \in DOMAIN Objects
  PROVE  /\ IsFiniteSet(InRun)
         /\ \A o \in InRun : /\ Len(o.lines) \in Nat /\ DOMAIN o.lines = 1 .. Len(o.lines)
                             /\ decode(o) \subseteq Good(o) /\ Good(o) \subseteq DOMAIN o.lines
                             /\ IsFiniteSet(decode(o)) /\ Cardinality(decode(o)) \in Nat
         /\ \A o, p \in InRun : o.key = p.key => o = p
         /\ \A o, p \in InRun : \A i \in DOMAIN o.lines, j \in DOMAIN p.lines :
              o.lines[i].id = p.lines[j].id => o = p /\ i = j
<1>1. InRun \subseteq Objects[log] /\ IsFiniteSet(Objects[log])
  BY TypedAssumption DEF InRun
<1>2. IsFiniteSet(InRun)
  BY <1>1, FS_Subset
<1>3. ASSUME NEW o \in InRun
      PROVE  /\ Len(o.lines) \in Nat /\ DOMAIN o.lines = 1 .. Len(o.lines)
             /\ decode(o) \subseteq Good(o) /\ Good(o) \subseteq DOMAIN o.lines
             /\ IsFiniteSet(decode(o)) /\ Cardinality(decode(o)) \in Nat
  <2>1. \E S : o.lines \in Seq(S)
    BY <1>1, TypedAssumption
  <2>2. Len(o.lines) \in Nat /\ DOMAIN o.lines = 1 .. Len(o.lines)
    BY <2>1
  <2>3. decode(o) \subseteq Good(o) /\ Good(o) \subseteq DOMAIN o.lines
    BY DEF decode, Good
  <2>4. IsFiniteSet(1 .. Len(o.lines))
    BY <2>2, FS_Interval
  <2>5. decode(o) \in SUBSET (1 .. Len(o.lines))
    BY <2>2, <2>3
  <2>6. IsFiniteSet(decode(o)) /\ Cardinality(decode(o)) \in Nat
    BY <2>4, <2>5, FS_Subset, FS_CardinalityType
  <2> QED  BY <2>2, <2>3, <2>6
<1>4. /\ \A o, p \in InRun : o.key = p.key => o = p
      /\ \A o, p \in InRun : \A i \in DOMAIN o.lines, j \in DOMAIN p.lines :
           o.lines[i].id = p.lines[j].id => o = p /\ i = j
  BY <1>1, TypedAssumption
<1> QED  BY <1>2, <1>3, <1>4

\* A visit adds an entry to the numbers that count it.
LEMMA VisitCounts ==
  ASSUME log \in DOMAIN Objects, NEW sh, HasParts(sh), NEW e
  PROVE  /\ HasParts(visit(sh, e))
         /\ \A k \in Kinds, c \in Numbers :
              visit(sh, e)[k][c] = sh[k][c] + (IF Counts(c, k, e) THEN 1 ELSE 0)
<1>1. PICK k : k = kindOf(e)
  OBVIOUS
<1>2. k \in Kinds
  BY <1>1 DEF kindOf, Kinds
<1>3. PICK p : p = sh[k]
  OBVIOUS
<1>4. Numbers \subseteq DOMAIN p /\ \A c \in Numbers : p[c] \in Nat
  BY <1>2, <1>3 DEF HasParts
<1> DEFINE counted == [p EXCEPT !.connsRead = @ + One(k = "conn")]
           part == IF k = "vpc" /\ ~IsFlow(e)
                   THEN IF InTime(opts.filter, e) THEN [p EXCEPT !.summary = AddStatus(@, e)] ELSE p
                   ELSE IF ~Match(e) THEN counted
                   ELSE [counted EXCEPT !.matched = @ + 1, !.summary = AddTo(k, @, e), !.matches = rows(k, @, e)]
<1>5. visit(sh, e) = [sh EXCEPT ![k] = part]
  BY <1>1, <1>3 DEF visit
<1>6. /\ "matched" \in DOMAIN p /\ "connsRead" \in DOMAIN p
      /\ p.matched \in Nat /\ p.connsRead \in Nat
  BY <1>4 DEF Numbers
<1>7. /\ Numbers \subseteq DOMAIN part
      /\ part.matched = p.matched + (IF Match(e) THEN 1 ELSE 0)
      /\ part.connsRead = p.connsRead + (IF k = "conn" THEN 1 ELSE 0)
  <2>1. One(k = "conn") = IF k = "conn" THEN 1 ELSE 0
    BY DEF One
  <2>2. CASE k = "vpc" /\ ~IsFlow(e)
    <3>1. log = "vpc"
      BY <1>1, <2>2 DEF kindOf
    <3>2. ~Match(e)
      BY <1>1, <2>2 DEF Match
    <3>3. /\ DOMAIN part = DOMAIN p
          /\ part.matched = p.matched /\ part.connsRead = p.connsRead
      BY <1>6, <2>2
    <3> HIDE DEF part
    <3> QED  BY <1>4, <1>6, <2>2, <3>2, <3>3
  <2>3. CASE ~(k = "vpc" /\ ~IsFlow(e)) /\ ~Match(e)
    <3>1. part = counted
      BY <2>3
    <3>2. /\ DOMAIN counted = DOMAIN p
          /\ counted.matched = p.matched /\ counted.connsRead = p.connsRead + One(k = "conn")
      BY <1>6
    <3> HIDE DEF part, counted
    <3> QED  BY <1>4, <1>6, <2>1, <2>3, <3>1, <3>2
  <2>4. CASE ~(k = "vpc" /\ ~IsFlow(e)) /\ Match(e)
    <3>1. /\ DOMAIN counted = DOMAIN p
          /\ counted.matched = p.matched /\ counted.connsRead = p.connsRead + One(k = "conn")
      BY <1>6
    <3>2. part = [counted EXCEPT !.matched = @ + 1, !.summary = AddTo(k, @, e), !.matches = rows(k, @, e)]
      BY <2>4
    <3> HIDE DEF part, counted
    <3>3. /\ DOMAIN part = DOMAIN counted
          /\ part.matched = counted.matched + 1 /\ part.connsRead = counted.connsRead
      BY <1>6, <3>1, <3>2
    <3> QED  BY <1>4, <1>6, <2>1, <2>4, <3>1, <3>3
  <2> QED  BY <2>2, <2>3, <2>4
<1> HIDE DEF part
<1>8. DOMAIN visit(sh, e) = Kinds /\ \A j \in Kinds : visit(sh, e)[j] = IF j = k THEN part ELSE sh[j]
  BY <1>2, <1>5 DEF HasParts
<1>9. ASSUME NEW j \in Kinds, NEW c \in Numbers
      PROVE  visit(sh, e)[j][c] = sh[j][c] + (IF Counts(c, j, e) THEN 1 ELSE 0)
  <2>1. sh[j][c] \in Nat
    BY DEF HasParts
  <2>2. c = "matched" \/ c = "connsRead"
    BY DEF Numbers
  <2>3. CASE j # k
    <3>1. ~Counts(c, j, e)
      BY <1>1, <2>3 DEF Counts
    <3> QED  BY <1>8, <2>1, <2>3, <3>1
  <2>4. CASE j = k
    <3>1. visit(sh, e)[j][c] = part[c] /\ sh[j][c] = p[c]
      BY <1>3, <1>8, <2>4
    <3>2. c = "matched" => (Counts(c, j, e) <=> Match(e))
      BY <1>1, <2>4 DEF Counts
    <3>3. c = "connsRead" => (Counts(c, j, e) <=> k = "conn")
      BY <1>1, <2>4 DEF Counts
    <3> QED  BY <1>7, <2>2, <3>1, <3>2, <3>3
  <2> QED  BY <2>3, <2>4
<1>10. \A j \in Kinds : Numbers \subseteq DOMAIN visit(sh, e)[j]
  BY <1>7, <1>8 DEF HasParts
<1>11. \A j \in Kinds, c \in Numbers : visit(sh, e)[j][c] \in Nat
  BY <1>9 DEF HasParts
<1> QED  BY <1>8, <1>9, <1>10, <1>11 DEF HasParts

\* f[n] is the shard sh after n lines of o: the recursion of visitAll.
Visits(f, sh, o, N) ==
  f = [n \in 0 .. N |-> IF n = 0 THEN sh
                       ELSE IF n \in decode(o) THEN visit(f[n - 1], Entry(o, o.lines[n])) ELSE f[n - 1]]

\* It has a solution: up to line 0, and up to each line after it.
LEMMA UpToExists ==
  ASSUME NEW N \in Nat, NEW o, NEW sh
  PROVE  \E f : Visits(f, sh, o, N)
<1> DEFINE Step(f, n) == IF n = 0 THEN sh
                         ELSE IF n \in decode(o) THEN visit(f[n - 1], Entry(o, o.lines[n])) ELSE f[n - 1]
           Is(f, M) == f = [n \in 0 .. M |-> Step(f, n)]
           Q == {M \in Nat : \E f : Is(f, M)}
<1>1. 0 \in Q
  <2> DEFINE f == [n \in 0 .. 0 |-> sh]
  <2>1. \A n \in 0 .. 0 : n = 0
    OBVIOUS
  <2>2. Is(f, 0)
    BY <2>1
  <2> HIDE DEF f, Is
  <2> QED  BY <2>2
<1>2. ASSUME NEW M \in Nat, M \in Q PROVE M + 1 \in Q
  <2>1. PICK f : Is(f, M)
    BY <1>2
  <2> HIDE DEF Step
  <2> DEFINE g == [n \in 0 .. M + 1 |-> IF n <= M THEN f[n] ELSE Step(f, M + 1)]
  <2>2. \A n \in 0 .. M : g[n] = f[n] /\ f[n] = Step(f, n)
    BY <2>1
  <2>3. g[M + 1] = Step(f, M + 1)
    OBVIOUS
  <2>4. ASSUME NEW n \in 0 .. M + 1 PROVE Step(g, n) = Step(f, n)
    <3>1. CASE n = 0
      BY <3>1 DEF Step
    <3>2. CASE n # 0
      <4>1. n - 1 \in 0 .. M
        BY <3>2
      <4>2. g[n - 1] = f[n - 1]
        BY <2>2, <4>1
      <4> HIDE DEF g
      <4> QED  BY <4>2 DEF Step
    <3> QED  BY <3>1, <3>2
  <2>5. \A n \in 0 .. M + 1 : g[n] = Step(g, n)
    <3> SUFFICES ASSUME NEW n \in 0 .. M + 1 PROVE g[n] = Step(g, n)
      OBVIOUS
    <3>1. n \in 0 .. M \/ n = M + 1
      OBVIOUS
    <3> HIDE DEF g
    <3> QED  BY <2>2, <2>3, <2>4, <3>1
  <2>6. g = [n \in 0 .. M + 1 |-> g[n]]
    OBVIOUS
  <2> HIDE DEF g
  <2>7. Is(g, M + 1)
    BY <2>5, <2>6
  <2> HIDE DEF Is
  <2> QED  BY <2>7
<1> HIDE DEF Q
<1>3. N \in Q
  BY <1>1, <1>2, EveryNumber
<1> QED  BY <1>3 DEF Q, Visits

\* A line more that counts, or does not.
LEMMA OneLineMore ==
  ASSUME NEW D, IsFiniteSet(D), D \subseteq Nat, NEW P, NEW n \in Nat
  PROVE  Cardinality({i \in D : i <= n + 1 /\ i \in P})
           = Cardinality({i \in D : i <= n /\ i \in P}) + (IF n + 1 \in D /\ n + 1 \in P THEN 1 ELSE 0)
<1> DEFINE A == {i \in D : i <= n /\ i \in P}
           B == {i \in D : i <= n + 1 /\ i \in P}
<1>1. A \in SUBSET D /\ n + 1 \notin A
  OBVIOUS
<1>2. IsFiniteSet(A) /\ Cardinality(A) \in Nat
  <2> HIDE DEF A
  <2> QED  BY <1>1, FS_Subset, FS_CardinalityType
<1>7. \A i \in D : i <= n + 1 <=> i <= n \/ i = n + 1
  OBVIOUS
<1>3. n + 1 \in D /\ n + 1 \in P => B = A \cup {n + 1}
  BY <1>7
<1>4. ~(n + 1 \in D /\ n + 1 \in P) => B = A
  BY <1>7
<1>5. Cardinality(A \cup {n + 1}) = Cardinality(A) + 1
  <2> HIDE DEF A
  <2> QED  BY <1>1, <1>2, FS_AddElement
<1> HIDE DEF A, B
<1>6. Cardinality(B) = Cardinality(A) + (IF n + 1 \in D /\ n + 1 \in P THEN 1 ELSE 0)
  BY <1>2, <1>3, <1>4, <1>5
<1> QED  BY <1>6 DEF A, B

\* A worker that visits an object counts its good lines.
LEMMA VisitAllCounts ==
  ASSUME log \in DOMAIN Objects, NEW o \in InRun, NEW sh, HasParts(sh)
  PROVE  /\ HasParts(visitAll(sh, o))
         /\ \A k \in Kinds, c \in Numbers :
              visitAll(sh, o)[k][c]
                = sh[k][c] + Cardinality({i \in decode(o) : Counts(c, k, Entry(o, o.lines[i]))})
<1>1. PICK N : N = Len(o.lines)
  OBVIOUS
<1>2. N \in Nat /\ decode(o) \subseteq 1 .. N /\ IsFiniteSet(decode(o))
  BY <1>1, ObjectFacts
<1>3. PICK f : Visits(f, sh, o, N) /\ visitAll(sh, o) = f[N]
  <2>1. \E f : Visits(f, sh, o, N)
    BY <1>2, UpToExists
  <2>2. visitAll(sh, o) = (CHOOSE f : Visits(f, sh, o, N))[N]
    BY <1>1 DEF visitAll, Visits
  <2> QED  BY <2>1, <2>2
<1>4. f[0] = sh
  BY <1>2, <1>3 DEF Visits
<1>5. ASSUME NEW n \in 0 .. N, n + 1 <= N
      PROVE  f[n + 1] = IF n + 1 \in decode(o) THEN visit(f[n], Entry(o, o.lines[n + 1])) ELSE f[n]
  <2>1. n + 1 \in 0 .. N /\ n + 1 # 0 /\ (n + 1) - 1 = n
    BY <1>2, <1>5
  <2> QED  BY <1>3, <2>1 DEF Visits
<1> DEFINE Here(c, k) == {i \in 1 .. N : Counts(c, k, Entry(o, o.lines[i]))}
           Upto(n, c, k) == Cardinality({i \in decode(o) : i <= n /\ i \in Here(c, k)})
           Good2(n) == HasParts(f[n]) /\ \A k \in Kinds, c \in Numbers : f[n][k][c] = sh[k][c] + Upto(n, c, k)
           Q == {n \in Nat : n <= N => Good2(n)}
<1>6. \A k \in Kinds, c \in Numbers : sh[k][c] \in Nat
  BY DEF HasParts
<1>7. 0 \in Q
  <2>1. \A k \in Kinds, c \in Numbers : Upto(0, c, k) = 0
    <3> SUFFICES ASSUME NEW k \in Kinds, NEW c \in Numbers PROVE Upto(0, c, k) = 0
      OBVIOUS
    <3>1. {i \in decode(o) : i <= 0 /\ i \in Here(c, k)} = {}
      BY <1>2
    <3> HIDE DEF Here
    <3> QED  BY <3>1, FS_EmptySet
  <2> HIDE DEF Upto
  <2> QED  BY <1>4, <1>6, <2>1
<1>8. ASSUME NEW n \in Nat, n \in Q PROVE n + 1 \in Q
  <2> SUFFICES ASSUME n + 1 <= N PROVE Good2(n + 1)
    OBVIOUS
  <2>1. n \in 0 .. N /\ n <= N
    BY <1>2
  <2>2. Good2(n)
    BY <1>8, <2>1
  <2>3. PICK e : e = Entry(o, o.lines[n + 1])
    OBVIOUS
  <2>4. f[n + 1] = IF n + 1 \in decode(o) THEN visit(f[n], e) ELSE f[n]
    BY <1>5, <2>1, <2>3
  <2>5. ASSUME NEW k \in Kinds, NEW c \in Numbers
        PROVE  /\ Upto(n + 1, c, k) = Upto(n, c, k) + (IF n + 1 \in decode(o) /\ Counts(c, k, e) THEN 1 ELSE 0)
               /\ Upto(n, c, k) \in Nat
    <3>1. n + 1 \in 1 .. N
      BY <1>2, <2>1
    <3>2. n + 1 \in Here(c, k) <=> Counts(c, k, e)
      BY <2>3, <3>1
    <3>3. decode(o) \subseteq Nat
      BY <1>2
    <3> HIDE DEF Here
    <3>4. Upto(n + 1, c, k) = Upto(n, c, k) + (IF n + 1 \in decode(o) /\ n + 1 \in Here(c, k) THEN 1 ELSE 0)
      BY <1>2, <3>3, OneLineMore
    <3>5. {i \in decode(o) : i <= n /\ i \in Here(c, k)} \in SUBSET decode(o)
      OBVIOUS
    <3>6. Upto(n, c, k) \in Nat
      BY <1>2, <3>5, FS_Subset, FS_CardinalityType
    <3> HIDE DEF Upto
    <3> QED  BY <3>2, <3>4, <3>6
  <2> HIDE DEF Upto
  <2>6. CASE n + 1 \in decode(o)
    <3>1. /\ HasParts(visit(f[n], e))
          /\ \A k \in Kinds, c \in Numbers :
               visit(f[n], e)[k][c] = f[n][k][c] + (IF Counts(c, k, e) THEN 1 ELSE 0)
      BY <2>2, VisitCounts
    <3>2. f[n + 1] = visit(f[n], e)
      BY <2>4, <2>6
    <3>3. ASSUME NEW k \in Kinds, NEW c \in Numbers PROVE f[n + 1][k][c] = sh[k][c] + Upto(n + 1, c, k)
      BY <1>6, <2>2, <2>5, <2>6, <3>1, <3>2
    <3> QED  BY <3>1, <3>2, <3>3
  <2>7. CASE n + 1 \notin decode(o)
    <3>1. f[n + 1] = f[n]
      BY <2>4, <2>7
    <3>2. \A k \in Kinds, c \in Numbers : Upto(n + 1, c, k) = Upto(n, c, k)
      BY <2>5, <2>7
    <3> QED  BY <2>2, <3>1, <3>2
  <2> QED  BY <2>6, <2>7
<1> HIDE DEF Q
<1>9. N \in Q
  BY <1>2, <1>7, <1>8, EveryNumber
<1>10. N <= N
  BY <1>2
<1>11. Good2(N)
  BY <1>9, <1>10 DEF Q
<1>12. ASSUME NEW k \in Kinds, NEW c \in Numbers
       PROVE  Upto(N, c, k) = Cardinality({i \in decode(o) : Counts(c, k, Entry(o, o.lines[i]))})
  <2>1. {i \in decode(o) : i <= N /\ i \in Here(c, k)} = {i \in decode(o) : Counts(c, k, Entry(o, o.lines[i]))}
    BY <1>2
  <2> QED  BY <2>1
<1> HIDE DEF Upto
<1> QED  BY <1>3, <1>11, <1>12

-----------------------------------------------------------------------------
\* The lines that are read are finitely many, whoever read them; R are those of them
\* that count for something.
LEMMA LinesFacts ==
  ASSUME log \in DOMAIN Objects, NEW by, DOMAIN by \subseteq InRun, NEW W
  PROVE  /\ Lines(by, W) \subseteq InRun \X Nat
         /\ IsFiniteSet(Lines(by, W)) /\ Cardinality(Lines(by, W)) \in Nat
         /\ \A R : /\ IsFiniteSet(Lines(by, W) \cap R)
                   /\ Cardinality(Lines(by, W) \cap R) \in Nat
<1> DEFINE T == {p \in DOMAIN by : by[p] \in W}
<1>1. PICK D : D = UNION {decode(o) : o \in InRun}
  OBVIOUS
<1>2. IsFiniteSet(D) /\ D \subseteq Nat
  <2>1. \A X \in {decode(o) : o \in InRun} : IsFiniteSet(X) /\ X \subseteq Nat
    BY ObjectFacts
  <2>2. IsFiniteSet({decode(o) : o \in InRun})
    <3> DEFINE f == [o \in InRun |-> decode(o)]
    <3>1. f \in Surjection(InRun, {decode(o) : o \in InRun})
      BY DEF Surjection
    <3> HIDE DEF f
    <3> QED  BY <3>1, ObjectFacts, FS_Surjection
  <2> QED  BY <1>1, <2>1, <2>2, FS_UNION
<1>3. Lines(by, W) \in SUBSET (InRun \X D)
  BY <1>1 DEF Lines
<1>4. IsFiniteSet(InRun \X D)
  BY <1>2, ObjectFacts, FS_Product
<1>5. IsFiniteSet(Lines(by, W)) /\ Cardinality(Lines(by, W)) \in Nat
  BY <1>3, <1>4, FS_Subset, FS_CardinalityType
<1>6. ASSUME NEW R PROVE IsFiniteSet(Lines(by, W) \cap R) /\ Cardinality(Lines(by, W) \cap R) \in Nat
  BY <1>5, FS_Intersection, FS_CardinalityType
<1>7. Lines(by, W) \subseteq InRun \X Nat
  BY <1>2, <1>3
<1> QED  BY <1>5, <1>6, <1>7

\* Two sets that share nothing make up a third.
Apart(U, V, W) == U = V \cup W /\ V \cap W = {}

\* What two sets of workers read is read once.
LEMMA LinesTogether ==
  ASSUME log \in DOMAIN Objects, NEW by, DOMAIN by \subseteq InRun,
         NEW U, NEW V, NEW W, Apart(U, V, W), NEW R
  PROVE  Cardinality(Lines(by, U) \cap R)
           = Cardinality(Lines(by, V) \cap R) + Cardinality(Lines(by, W) \cap R)
<1>1. Lines(by, U) = Lines(by, V) \cup Lines(by, W)
  BY DEF Lines, Apart
<1>2. Lines(by, V) \cap Lines(by, W) = {}
  BY DEF Lines, Apart
<1>3. PICK A, B : A = Lines(by, V) \cap R /\ B = Lines(by, W) \cap R
  OBVIOUS
<1>4. Lines(by, U) \cap R = A \cup B /\ A \cap B = {}
  BY <1>1, <1>2, <1>3
<1>5. IsFiniteSet(A) /\ IsFiniteSet(B) /\ Cardinality(A) \in Nat /\ Cardinality(B) \in Nat
  BY <1>3, LinesFacts
<1>6. Cardinality(A \cup B) = Cardinality(A) + Cardinality(B)
  BY <1>4, <1>5, ApartAddUp
<1> QED  BY <1>3, <1>4, <1>6

\* Nobody reads nothing.
LEMMA LinesOfNone ==
  ASSUME NEW by, NEW W, DOMAIN by = {} \/ W = {}, NEW R
  PROVE  Lines(by, W) = {} /\ Cardinality(Lines(by, W) \cap R) = 0
<1>1. Lines(by, W) = {}
  BY DEF Lines
<1>2. Lines(by, W) \cap R = {}
  BY <1>1
<1> QED  BY <1>1, <1>2, FS_EmptySet

\* Worker w takes an object o that nobody had.
Takes(to, by, o, w) == to = [p \in DOMAIN by \cup {o} |-> IF p = o THEN w ELSE by[p]]

\* The others have the lines they had.
LEMMA LinesOfOthers ==
  ASSUME log \in DOMAIN Objects, NEW by, DOMAIN by \subseteq InRun, NEW o \in InRun \ DOMAIN by, NEW w,
         NEW to, Takes(to, by, o, w)
  PROVE  \A v : v # w => Lines(to, {v}) = Lines(by, {v})
<1>1. \A v : v # w => {p \in DOMAIN to : to[p] \in {v}} = {p \in DOMAIN by : by[p] \in {v}}
  BY DEF Takes
<1> QED  BY <1>1 DEF Lines

\* The lines of o that are in R.
LinesOf(o, R) == {i \in decode(o) : <<o, i>> \in R}

\* And w has those of o too.
LEMMA LinesWith ==
  ASSUME log \in DOMAIN Objects, NEW by, DOMAIN by \subseteq InRun, NEW o \in InRun \ DOMAIN by, NEW w,
         NEW to, Takes(to, by, o, w)
  PROVE  \A R : Cardinality(Lines(to, {w}) \cap R)
             = Cardinality(Lines(by, {w}) \cap R) + Cardinality(LinesOf(o, R))
<1>1. {p \in DOMAIN to : to[p] \in {w}} = {p \in DOMAIN by : by[p] \in {w}} \cup {o}
  BY DEF Takes
<1>2. Lines(to, {w}) = Lines(by, {w}) \cup ({o} \X decode(o))
  BY <1>1 DEF Lines
<1>3. ASSUME NEW R
      PROVE  Cardinality(Lines(to, {w}) \cap R) = Cardinality(Lines(by, {w}) \cap R) + Cardinality(LinesOf(o, R))
  <2>1. PICK D : D = LinesOf(o, R)
    OBVIOUS
  <2>2. PICK A, B : A = Lines(by, {w}) \cap R /\ B = {o} \X D
    OBVIOUS
  <2>3. Lines(to, {w}) \cap R = A \cup B
    <3>1. ({o} \X decode(o)) \cap R = {o} \X D
      BY <2>1 DEF LinesOf
    <3> QED  BY <1>2, <2>2, <3>1
  <2>4. A \cap B = {}
    <3>1. \A p \in Lines(by, {w}) : p[1] \in DOMAIN by
      BY DEF Lines
    <3> QED  BY <2>2, <3>1
  <2>5. IsFiniteSet(D) /\ Cardinality(D) \in Nat
    <3>1. D \in SUBSET decode(o) /\ IsFiniteSet(decode(o))
      BY <2>1, ObjectFacts DEF LinesOf
    <3> QED  BY <3>1, FS_Subset, FS_CardinalityType
  <2>6. IsFiniteSet(B) /\ Cardinality(B) = Cardinality(D)
    <3>1. IsFiniteSet({o}) /\ Cardinality({o}) = 1
      BY FS_Singleton
    <3>2. IsFiniteSet({o} \X D) /\ Cardinality({o} \X D) = Cardinality({o}) * Cardinality(D)
      BY <2>5, <3>1, FS_Product
    <3> QED  BY <2>2, <2>5, <3>1, <3>2
  <2>7. IsFiniteSet(A) /\ Cardinality(A) \in Nat
    BY <2>2, LinesFacts
  <2>8. Cardinality(A \cup B) = Cardinality(A) + Cardinality(B)
    BY <2>4, <2>6, <2>7, ApartAddUp
  <2> QED  BY <2>1, <2>2, <2>3, <2>6, <2>8
<1> QED  BY <1>3

\* The lines that count for a number, whoever reads them.
Marked(c, k) == {p \in InRun \X Nat : Counts(c, k, EntryAt(p))}

\* They are a part of all lines.
LEMMA TalliedIs ==
  ASSUME log \in DOMAIN Objects, NEW by, DOMAIN by \subseteq InRun, NEW W
  PROVE  /\ Lines(by, W) = Lines(by, W) \cap (InRun \X Nat)
         /\ \A c, k : Tallied(by, W, c, k) = Lines(by, W) \cap Marked(c, k)
<1>1. Lines(by, W) \subseteq InRun \X Nat
  BY LinesFacts
<1> QED  BY <1>1 DEF Tallied, Marked

-----------------------------------------------------------------------------
\* A run keeps its log type and its options, and what is made of them.
LEMMA Same ==
  ASSUME log' = log, opts' = opts
  PROVE  /\ InRun' = InRun /\ Kinds' = Kinds /\ (HiveFound' <=> HiveFound)
         /\ \A o : /\ decode(o)' = decode(o)
                   /\ (complete(o)' <=> complete(o)) /\ (failure(o)' <=> failure(o))
         /\ \A c, k, p : Counts(c, k, EntryAt(p))' <=> Counts(c, k, EntryAt(p))
<1>1. \A o : Keep(o)' <=> Keep(o)
  BY DEF Keep, elbKeep, Wants
<1>2. (Discovers' <=> Discovers) /\ KeptDirs' = KeptDirs
  BY DEF Discovers, KeptDirs, Wants
<1>3. InRun' = InRun
  BY <1>1, <1>2 DEF InRun, InScope
<1>4. Kinds' = Kinds
  BY DEF Kinds
<1>5. HiveFound' <=> HiveFound
  BY DEF HiveFound, Wants
<1>6. ASSUME NEW o PROVE Good(o)' = Good(o)
  <2>1. \A l : Parses(o, l)' <=> Parses(o, l)
    BY DEF Parses
  <2> QED  BY <2>1 DEF Good
<1>7. ASSUME NEW o
      PROVE  /\ decode(o)' = decode(o)
             /\ (complete(o)' <=> complete(o)) /\ (failure(o)' <=> failure(o))
  <2>1. decode(o)' = decode(o)
    BY <1>6 DEF decode, streams
  <2>2. (streams' <=> streams) /\ (badHeader(o)' <=> badHeader(o))
    BY DEF streams, badHeader
  <2>3. failure(o)' <=> failure(o)
    BY <1>6, <2>2 DEF failure
  <2>4. complete(o)' <=> complete(o)
    BY <2>1, <2>2, <2>3 DEF complete
  <2> QED  BY <2>1, <2>3, <2>4
<1>8. ASSUME NEW c, NEW k, NEW p PROVE Counts(c, k, EntryAt(p))' <=> Counts(c, k, EntryAt(p))
  <2>1. EntryAt(p)' = EntryAt(p)
    BY DEF EntryAt, Entry
  <2>2. \A e : kindOf(e)' = kindOf(e)
    BY DEF kindOf
  <2>3. \A e : Match(e)' <=> Match(e)
    BY <2>2 DEF Match
  <2> QED  BY <2>1, <2>2, <2>3 DEF Counts
<1> QED  BY <1>3, <1>4, <1>5, <1>7, <1>8

\* Nor are other lines read, or counted otherwise.
LEMMA SameLines ==
  ASSUME log' = log, opts' = opts
  PROVE  \A by, W : /\ Lines(by, W)' = Lines(by, W)
                    /\ \A c, k : Tallied(by, W, c, k)' = Tallied(by, W, c, k)
<1>1. \A by, W : Lines(by, W)' = Lines(by, W)
  <2>1. \A o : decode(o)' = decode(o)
    BY Same
  <2> QED  BY <2>1 DEF Lines
<1>2. \A c, k, p : Counts(c, k, EntryAt(p))' <=> Counts(c, k, EntryAt(p))
  BY Same
<1> QED  BY <1>1, <1>2 DEF Tallied

\* A run begins with empty shards and an empty result.
LEMMA Opening == Init => IInv
<1> SUFFICES ASSUME Init PROVE IInv
  OBVIOUS
<1>1. Workers \in Nat \ {0}
  BY TypedAssumption
<1>2. next \in 1 .. Workers + 1 /\ next = 1 /\ phase = "start" /\ log \in DOMAIN Objects
  BY <1>1 DEF Init
<1>3. \A sh : sh = [k \in Kinds |-> NoPart(k)] =>
         HasParts(sh) /\ \A k \in Kinds, c \in Numbers : sh[k][c] = 0
  BY DEF NoPart, HasParts, Numbers
<1>4. \A w \in Worker : shard[w] = [k \in Kinds |-> NoPart(k)]
  BY DEF Init
<1>5. result.parts = [k \in Kinds |-> NoPart(k)] /\ result.records = 0 /\ {"records", "parts"} \subseteq DOMAIN result
  BY DEF Init
<1>6. Untouched
  <2>1. /\ read = [w \in Worker |-> {}] /\ errs = [w \in Worker |-> {}]
        /\ records = [w \in Worker |-> 0]
    BY DEF Init
  <2> QED  BY <1>3, <1>4, <1>5, <2>1 DEF Untouched
<1>7. /\ DOMAIN shard = Worker /\ \A w \in Worker : HasParts(shard[w])
      /\ HasParts(result.parts)
  <2>1. DOMAIN shard = Worker
    BY DEF Init
  <2> QED  BY <1>3, <1>4, <1>5, <2>1
<1>8. Shapes
  <2>1. DOMAIN read = Worker /\ DOMAIN errs = Worker /\ DOMAIN records = Worker
    BY DEF Init
  <2> QED  BY <1>2, <1>5, <1>7, <2>1 DEF Shapes
<1> QED  BY <1>2, <1>6, <1>8 DEF IInv

\* A step that leaves what is read alone.
LEMMA ShapesStay ==
  ASSUME Shapes, Unscanned
  PROVE  /\ Shapes' /\ log' = log /\ opts' = opts /\ next' = next
         /\ \A by : AddedUp(by) => AddedUp(by)'
         /\ todo' = todo => \A by : Scanned(by) => Scanned(by)'
<1>1. /\ log' = log /\ opts' = opts /\ shard' = shard /\ read' = read /\ records' = records
      /\ errs' = errs /\ next' = next /\ result' = result
  BY DEF Unscanned
<1>2. Kinds' = Kinds /\ InRun' = InRun
  BY <1>1, Same
<1>3. \A sh : HasParts(sh)' <=> HasParts(sh)
  BY <1>2 DEF HasParts
<1>4. Shapes'
  BY <1>1, <1>2, <1>3 DEF Shapes
<1>5. \A by, W : /\ Lines(by, W)' = Lines(by, W)
                 /\ \A c, k : Tallied(by, W, c, k)' = Tallied(by, W, c, k)
  BY <1>1, SameLines
<1>6. ASSUME NEW by, AddedUp(by) PROVE AddedUp(by)'
  <2>1. Lines(by, 1 .. next - 1)' = Lines(by, 1 .. next - 1)
    BY <1>1, <1>5
  <2>2. \A c, k : Tallied(by, 1 .. next - 1, c, k)' = Tallied(by, 1 .. next - 1, c, k)
    BY <1>1, <1>5
  <2> QED  BY <1>1, <1>2, <1>6, <2>1, <2>2 DEF AddedUp
<1>7. ASSUME NEW by, Scanned(by), todo' = todo PROVE Scanned(by)'
  <2>1. \A o : (complete(o)' <=> complete(o)) /\ (failure(o)' <=> failure(o))
    BY <1>1, Same
  <2> QED  BY <1>1, <1>2, <1>5, <1>7, <2>1 DEF Scanned
<1> QED  BY <1>1, <1>4, <1>6, <1>7

\* The scan starts with nothing read.
LEMMA StartKeeps ==
  ASSUME IInv, Start
  PROVE  IInv'
<1>1. /\ phase = "start" /\ todo' = InRun /\ Unscanned
      /\ phase' = IF Discovers /\ KeptDirs = {} THEN "done" ELSE "scan"
  BY DEF Start
<1>2. Shapes /\ Untouched /\ next = 1
  BY <1>1 DEF IInv
<1>3. Shapes' /\ log' = log /\ opts' = opts /\ next' = 1 /\ InRun' = InRun /\ Kinds' = Kinds
  BY <1>1, <1>2, ShapesStay, Same
<1>4. PICK by : by = [o \in {} |-> 1]
  OBVIOUS
<1>5. DOMAIN by = {} /\ by \in [(InRun \ todo)' -> Worker]
  BY <1>1, <1>3, <1>4
<1>6. \A W : /\ Cardinality(Lines(by, W))' = 0
             /\ \A c, k : Cardinality(Tallied(by, W, c, k))' = 0
  <2>1. \A W : Lines(by, W)' = {}
    BY <1>5 DEF Lines
  <2>2. \A W, c, k : Tallied(by, W, c, k)' = {}
    BY <2>1 DEF Tallied
  <2> QED  BY <2>1, <2>2, FS_EmptySet
<1>7. Scanned(by)'
  <2>1. /\ read' = [w \in Worker |-> {}] /\ errs' = [w \in Worker |-> {}]
        /\ records' = [w \in Worker |-> 0]
        /\ \A k \in Kinds, c \in Numbers : \A w \in Worker : shard'[w][k][c] = 0
    BY <1>1, <1>2 DEF Untouched, Unscanned
  <2>2. Recorded({}, {})
    <3>1. MaxErrs \in Nat
      BY TypedAssumption
    <3> QED  BY <3>1, FS_EmptySet DEF Recorded
  <2> QED  BY <1>1, <1>3, <1>5, <1>6, <2>1, <2>2 DEF Scanned
<1>8. AddedUp(by)'
  <2>1. result'.records = 0 /\ \A k \in Kinds, c \in Numbers : result'.parts[k][c] = 0
    BY <1>1, <1>2 DEF Untouched, Unscanned
  <2> QED  BY <1>3, <1>6, <2>1 DEF AddedUp
<1>9. phase' = "done" => InRun = {} /\ log # "vpc"
  <2>1. Discovers /\ KeptDirs = {} => InRun = {} /\ log # "vpc"
    BY DEF Discovers, InRun, InScope
  <2> QED  BY <1>1, <2>1
<1>10. phase' \in {"scan", "done"}
  BY <1>1
<1> QED  BY <1>1, <1>3, <1>7, <1>8, <1>9, <1>10 DEF IInv

\* A run that fails promises nothing.
LEMMA FailKeeps ==
  ASSUME IInv, DiscoveryFails \/ Cancelled \/ ProbeFails
  PROVE  IInv'
<1>1. phase' = "failed" /\ Unscanned
  BY DEF DiscoveryFails, Cancelled, ProbeFails
<1>2. Shapes'
  BY <1>1, ShapesStay DEF IInv
<1> QED  BY <1>1, <1>2 DEF IInv

\* The scan returns when no object is left.
LEMMA ScanReturnsKeeps ==
  ASSUME IInv, ScanReturns
  PROVE  IInv'
<1>1. phase = "scan" /\ todo = {} /\ phase' = "merge" /\ todo' = todo /\ Unscanned
  BY DEF ScanReturns
<1>2. PICK by : Scanned(by) /\ AddedUp(by)
  BY <1>1 DEF IInv
<1>3. Shapes' /\ Scanned(by)' /\ AddedUp(by)'
  BY <1>1, <1>2, ShapesStay DEF IInv
<1> QED  BY <1>1, <1>3 DEF IInv

\* A run that is over stays as it is.
LEMMA StopKeeps ==
  ASSUME IInv, UNCHANGED vars
  PROVE  IInv'
<1>1. phase' = phase /\ todo' = todo /\ Unscanned
  BY DEF vars, Unscanned
<1>2. /\ Shapes' /\ log' = log /\ opts' = opts /\ next' = next
      /\ \A by : Scanned(by) /\ AddedUp(by) => Scanned(by)' /\ AddedUp(by)'
  BY <1>1, ShapesStay DEF IInv
<1>3. InRun' = InRun /\ Kinds' = Kinds /\ (HiveFound' <=> HiveFound)
  BY <1>2, Same
<1>4. Untouched => Untouched'
  BY <1>1, <1>3 DEF Untouched, Unscanned
<1> QED  BY <1>1, <1>2, <1>3, <1>4 DEF IInv

\* A worker takes an object: it has its lines, and is told of what is bad in it.
LEMMA FetchKeeps ==
  ASSUME IInv, NEW w \in Worker, NEW o \in todo, Fetch(w, o)
  PROVE  IInv'
<1>1. /\ phase = "scan" /\ phase' = "scan" /\ next' = next /\ result' = result
      /\ log' = log /\ opts' = opts
      /\ todo' = todo \ {o}
      /\ errs' = (IF failure(o) /\ Cardinality(errs[w]) < MaxErrs
                  THEN [errs EXCEPT ![w] = @ \cup {o.key}] ELSE errs)
      /\ shard' = [shard EXCEPT ![w] = visitAll(@, o)]
      /\ read' = (IF complete(o) THEN [read EXCEPT ![w] = @ \cup {o.key}] ELSE read)
      /\ records' = [records EXCEPT ![w] = @ + Cardinality(decode(o))]
  BY DEF Fetch
<1>2. Shapes /\ next = 1
  BY <1>1 DEF IInv
<1>3. PICK by : Scanned(by) /\ AddedUp(by)
  BY <1>1 DEF IInv
<1>4. /\ InRun' = InRun /\ Kinds' = Kinds
      /\ \A p : (complete(p)' <=> complete(p)) /\ (failure(p)' <=> failure(p))
      /\ \A b, W : /\ Lines(b, W)' = Lines(b, W)
                   /\ \A c, k : Tallied(b, W, c, k)' = Tallied(b, W, c, k)
  BY <1>1, Same, SameLines
<1>5. /\ by \in [InRun \ todo -> Worker] /\ todo \subseteq InRun /\ log \in DOMAIN Objects
      /\ o \in InRun \ DOMAIN by /\ DOMAIN by \subseteq InRun
  BY <1>2, <1>3 DEF Scanned, Shapes
<1>6. PICK to : Takes(to, by, o, w)
  BY DEF Takes
<1>7. /\ DOMAIN to = DOMAIN by \cup {o} /\ DOMAIN to \subseteq InRun
      /\ to \in [InRun \ todo' -> Worker] /\ todo' \subseteq InRun
      /\ to[o] = w /\ \A p \in DOMAIN by : to[p] = by[p]
  <2>1. InRun \ todo' = DOMAIN by \cup {o}
    BY <1>1, <1>5
  <2> QED  BY <1>1, <1>5, <1>6, <2>1 DEF Takes
<1>8. ASSUME NEW R
      PROVE  /\ \A v \in Worker : v # w =>
                  Cardinality(Lines(to, {v}) \cap R) = Cardinality(Lines(by, {v}) \cap R)
             /\ Cardinality(Lines(to, {w}) \cap R)
                  = Cardinality(Lines(by, {w}) \cap R) + Cardinality(LinesOf(o, R))
  <2>1. log \in DOMAIN Objects /\ DOMAIN by \subseteq InRun /\ o \in InRun \ DOMAIN by
    BY <1>5
  <2>2. Cardinality(Lines(to, {w}) \cap R)
          = Cardinality(Lines(by, {w}) \cap R) + Cardinality(LinesOf(o, R))
    BY <1>6, <2>1, LinesWith
  <2>3. \A v : v # w => Lines(to, {v}) = Lines(by, {v})
    BY <1>6, <2>1, LinesOfOthers
  <2> QED  BY <2>2, <2>3
<1>9. Len(o.lines) \in Nat /\ decode(o) \subseteq Nat
  BY <1>5, ObjectFacts
<1>10. \A v \in Worker : Cardinality(Lines(to, {v}))
         = Cardinality(Lines(by, {v})) + (IF v = w THEN Cardinality(decode(o)) ELSE 0)
  <2> SUFFICES ASSUME NEW v \in Worker
               PROVE  Cardinality(Lines(to, {v}))
                        = Cardinality(Lines(by, {v})) + (IF v = w THEN Cardinality(decode(o)) ELSE 0)
    OBVIOUS
  <2>1. LinesOf(o, InRun \X Nat) = decode(o)
    BY <1>5, <1>9 DEF LinesOf
  <2>2. /\ Lines(to, {v}) = Lines(to, {v}) \cap (InRun \X Nat)
        /\ Lines(by, {v}) = Lines(by, {v}) \cap (InRun \X Nat)
    BY <1>5, <1>7, TalliedIs
  <2>3. Cardinality(Lines(by, {v})) \in Nat
    BY <1>5, LinesFacts
  <2>4. CASE v = w
    <3>1. Cardinality(Lines(to, {w}) \cap (InRun \X Nat))
            = Cardinality(Lines(by, {w}) \cap (InRun \X Nat)) + Cardinality(decode(o))
      BY <1>8, <2>1
    <3> QED  BY <2>2, <2>4, <3>1
  <2>5. CASE v # w
    <3>1. Cardinality(Lines(to, {v}) \cap (InRun \X Nat)) = Cardinality(Lines(by, {v}) \cap (InRun \X Nat))
      BY <1>8, <2>5
    <3>2. Cardinality(Lines(to, {v})) = Cardinality(Lines(by, {v}))
      BY <2>2, <3>1
    <3> QED  BY <2>3, <2>5, <3>2
  <2> QED  BY <2>4, <2>5
<1>11. ASSUME NEW v \in Worker, NEW c, NEW k
       PROVE  Cardinality(Tallied(to, {v}, c, k))
                = Cardinality(Tallied(by, {v}, c, k))
                  + (IF v = w THEN Cardinality({i \in decode(o) : Counts(c, k, Entry(o, o.lines[i]))}) ELSE 0)
  <2>1. LinesOf(o, Marked(c, k)) = {i \in decode(o) : Counts(c, k, Entry(o, o.lines[i]))}
    BY <1>5, <1>9 DEF LinesOf, Marked, EntryAt
  <2>2. /\ Tallied(to, {v}, c, k) = Lines(to, {v}) \cap Marked(c, k)
        /\ Tallied(by, {v}, c, k) = Lines(by, {v}) \cap Marked(c, k)
    BY <1>5, <1>7, TalliedIs
  <2>3. Cardinality(Lines(by, {v}) \cap Marked(c, k)) \in Nat
    BY <1>5, LinesFacts
  <2>4. CASE v = w
    <3>1. Cardinality(Lines(to, {w}) \cap Marked(c, k))
            = Cardinality(Lines(by, {w}) \cap Marked(c, k))
              + Cardinality(LinesOf(o, Marked(c, k)))
      BY <1>8
    <3> QED  BY <2>1, <2>2, <2>4, <3>1
  <2>5. CASE v # w
    <3>1. Cardinality(Lines(to, {v}) \cap Marked(c, k)) = Cardinality(Lines(by, {v}) \cap Marked(c, k))
      BY <1>8, <2>5
    <3>2. Cardinality(Tallied(to, {v}, c, k)) = Cardinality(Tallied(by, {v}, c, k))
      BY <2>2, <3>1
    <3>3. Cardinality(Tallied(by, {v}, c, k)) \in Nat
      BY <2>2, <2>3
    <3> QED  BY <2>5, <3>2, <3>3
  <2> QED  BY <2>4, <2>5
<1>12. /\ HasParts(visitAll(shard[w], o))
       /\ \A k \in Kinds, c \in Numbers :
            visitAll(shard[w], o)[k][c]
              = shard[w][k][c] + Cardinality({i \in decode(o) : Counts(c, k, Entry(o, o.lines[i]))})
  BY <1>2, <1>5, VisitAllCounts DEF Shapes
<1>13. /\ DOMAIN shard' = Worker
       /\ \A v \in Worker : shard'[v] = IF v = w THEN visitAll(shard[w], o) ELSE shard[v]
  BY <1>1, <1>2 DEF Shapes
<1>14. Shapes'
  <2>1. \A sh : HasParts(sh)' <=> HasParts(sh)
    BY <1>4 DEF HasParts
  <2>2. \A v \in Worker : HasParts(shard'[v])
    BY <1>2, <1>12, <1>13 DEF Shapes
  <2>3. DOMAIN read' = Worker /\ DOMAIN errs' = Worker /\ DOMAIN records' = Worker
    BY <1>1, <1>2 DEF Shapes
  <2> QED  BY <1>1, <1>2, <1>13, <2>1, <2>2, <2>3 DEF Shapes
<1>15. Scanned(to)'
  <2>1. ASSUME NEW v \in Worker
        PROVE  /\ read'[v] = {p.key : p \in {q \in DOMAIN to : to[q] = v /\ complete(q)}}
               /\ Recorded(errs'[v], {p.key : p \in {q \in DOMAIN to : to[q] = v /\ failure(q)}})
    <3> DEFINE B == {p.key : p \in {q \in DOMAIN by : by[q] = v /\ failure(q)}}
               T == {p.key : p \in {q \in DOMAIN to : to[q] = v /\ failure(q)}}
    <3>1. /\ read[v] = {p.key : p \in {q \in DOMAIN by : by[q] = v /\ complete(q)}}
          /\ Recorded(errs[v], B)
      BY <1>3 DEF Scanned
    <3>2. /\ read'[v] = read[v] \cup (IF v = w /\ complete(o) THEN {o.key} ELSE {})
          /\ errs'[v] = errs[v] \cup (IF v = w /\ failure(o) /\ Cardinality(errs[v]) < MaxErrs
                                       THEN {o.key} ELSE {})
      BY <1>1, <1>2 DEF Shapes
    <3>3. /\ {q \in DOMAIN to : to[q] = v /\ complete(q)}
               = {q \in DOMAIN by : by[q] = v /\ complete(q)} \cup (IF v = w /\ complete(o) THEN {o} ELSE {})
          /\ {q \in DOMAIN to : to[q] = v /\ failure(q)}
               = {q \in DOMAIN by : by[q] = v /\ failure(q)} \cup (IF v = w /\ failure(o) THEN {o} ELSE {})
      BY <1>5, <1>7
    <3>4. T = B \cup (IF v = w /\ failure(o) THEN {o.key} ELSE {})
      BY <3>3
    <3> HIDE DEF B, T
    <3>5. Recorded(errs'[v], T)
      <4>1. MaxErrs \in Nat
        BY TypedAssumption
      <4>2. CASE v = w /\ failure(o) /\ Cardinality(errs[v]) < MaxErrs
        <5>1. errs'[v] = errs[v] \cup {o.key} /\ errs[v] = B /\ T = B \cup {o.key}
          BY <3>1, <3>2, <3>4, <4>2 DEF Recorded
        <5>2. /\ IsFiniteSet(errs[v] \cup {o.key})
              /\ Cardinality(errs[v] \cup {o.key}) \in {Cardinality(errs[v]), Cardinality(errs[v]) + 1}
          BY <3>1, FS_AddElement DEF Recorded
        <5> QED  BY <3>1, <4>1, <4>2, <5>1, <5>2 DEF Recorded
      <4>3. CASE ~(v = w /\ failure(o)) /\ T = B
        BY <3>1, <3>2, <4>3
      <4>4. CASE v = w /\ failure(o) /\ ~(Cardinality(errs[v]) < MaxErrs)
        BY <3>1, <3>2, <3>4, <4>4 DEF Recorded
      <4> QED  BY <3>4, <4>2, <4>3, <4>4
    <3> QED  BY <3>1, <3>2, <3>3, <3>5 DEF T
  <2>2. ASSUME NEW v \in Worker PROVE records'[v] = Cardinality(Lines(to, {v}))
    <3>1. records'[v] = IF v = w THEN records[w] + Cardinality(decode(o)) ELSE records[v]
      BY <1>1, <1>2 DEF Shapes
    <3>2. records[v] = Cardinality(Lines(by, {v})) /\ Cardinality(Lines(by, {v})) \in Nat
      BY <1>3, <1>5, LinesFacts DEF Scanned
    <3> QED  BY <1>10, <3>1, <3>2
  <2>3. ASSUME NEW v \in Worker, NEW k \in Kinds, NEW c \in Numbers
        PROVE  shard'[v][k][c] = Cardinality(Tallied(to, {v}, c, k))
    <3>1. shard[v][k][c] = Cardinality(Tallied(by, {v}, c, k))
      BY <1>3 DEF Scanned
    <3>2. Cardinality(Tallied(by, {v}, c, k)) \in Nat
      <4>1. Tallied(by, {v}, c, k) = Lines(by, {v}) \cap Marked(c, k)
        BY <1>5, TalliedIs
      <4> QED  BY <1>5, <4>1, LinesFacts
    <3>3. CASE v = w
      <4>1. shard'[w][k][c] = shard[w][k][c] + Cardinality({i \in decode(o) : Counts(c, k, Entry(o, o.lines[i]))})
        BY <1>12, <1>13
      <4>2. Cardinality(Tallied(to, {w}, c, k))
              = Cardinality(Tallied(by, {w}, c, k)) + Cardinality({i \in decode(o) : Counts(c, k, Entry(o, o.lines[i]))})
        BY <1>11
      <4> QED  BY <3>1, <3>3, <4>1, <4>2
    <3>4. CASE v # w
      <4>1. Cardinality(Tallied(to, {v}, c, k)) = Cardinality(Tallied(by, {v}, c, k)) + 0
        BY <1>11, <3>4
      <4> QED  BY <1>13, <3>1, <3>2, <3>4, <4>1
    <3> QED  BY <3>3, <3>4
  <2> QED  BY <1>4, <1>7, <2>1, <2>2, <2>3 DEF Scanned
<1>16. AddedUp(to)'
  <2>1. \A b, R : Lines(b, 1 .. next - 1) = {} /\ Cardinality(Lines(b, 1 .. next - 1) \cap R) = 0
    <3>1. 1 .. next - 1 = {}
      BY <1>2
    <3> QED  BY <3>1, LinesOfNone
  <2>2. \A b : /\ Cardinality(Lines(b, 1 .. next - 1)) = 0
               /\ \A c, k : Cardinality(Tallied(b, 1 .. next - 1, c, k)) = 0
    <3>1. \A b, c, k : Tallied(b, 1 .. next - 1, c, k) = {}
      BY <2>1 DEF Tallied
    <3> QED  BY <2>1, <3>1, FS_EmptySet
  <2> QED  BY <1>1, <1>3, <1>4, <2>2 DEF AddedUp
<1> QED  BY <1>1, <1>2, <1>14, <1>15, <1>16 DEF IInv

\* A shard is merged: to what the shards before it had, its own is added.
LEMMA MergeShardKeeps ==
  ASSUME IInv, MergeShard
  PROVE  IInv'
<1>1. /\ phase = "merge" /\ phase' = "merge" /\ next \in Worker /\ next' = next + 1
      /\ log' = log /\ opts' = opts /\ todo' = todo /\ shard' = shard /\ read' = read
      /\ records' = records /\ errs' = errs
  BY SMTT(40) DEF MergeShard
<1>2. PICK s : result' = [result EXCEPT !.records = @ + records[next], !.parts = [k \in Kinds |->
         LET p == @[k]  q == shard[next][k]  all == p.matches \o q.matches IN
         [summary |-> s[k], matched |-> p.matched + q.matched, connsRead |-> p.connsRead + q.connsRead,
          matches |-> IF k = "trail" THEN SubSeq(all, 1, Min({Len(all), MaxEvents})) ELSE all]]]
  BY DEF MergeShard
<1>3. Shapes /\ todo = {}
  BY <1>1 DEF IInv
<1>4. PICK by : Scanned(by) /\ AddedUp(by)
  BY <1>1 DEF IInv
<1>5. /\ InRun' = InRun /\ Kinds' = Kinds
      /\ \A p : (complete(p)' <=> complete(p)) /\ (failure(p)' <=> failure(p))
      /\ \A b, W : /\ Lines(b, W)' = Lines(b, W)
                   /\ \A c, k : Tallied(b, W, c, k)' = Tallied(b, W, c, k)
  BY <1>1, Same, SameLines
<1>6. /\ DOMAIN result' = DOMAIN result /\ DOMAIN result'.parts = Kinds
      /\ result'.records = result.records + records[next]
      /\ \A k \in Kinds : /\ Numbers \subseteq DOMAIN result'.parts[k]
                          /\ result'.parts[k].matched = result.parts[k].matched + shard[next][k].matched
                          /\ result'.parts[k].connsRead = result.parts[k].connsRead + shard[next][k].connsRead
  <2>1. {"records", "parts"} \subseteq DOMAIN result
    BY <1>3 DEF Shapes
  <2>2. PICK parts : parts = [k \in Kinds |->
         LET p == result.parts[k]  q == shard[next][k]  all == p.matches \o q.matches IN
         [summary |-> s[k], matched |-> p.matched + q.matched, connsRead |-> p.connsRead + q.connsRead,
          matches |-> IF k = "trail" THEN SubSeq(all, 1, Min({Len(all), MaxEvents})) ELSE all]]
    OBVIOUS
  <2>3. result' = [result EXCEPT !.records = @ + records[next], !.parts = parts]
    BY <1>2, <2>2
  <2>4. /\ DOMAIN result' = DOMAIN result /\ result'.parts = parts
        /\ result'.records = result.records + records[next]
    BY <2>1, <2>3
  <2>5. DOMAIN parts = Kinds
    BY <2>2
  <2>6. ASSUME NEW k \in Kinds
        PROVE  /\ Numbers \subseteq DOMAIN parts[k]
               /\ parts[k].matched = result.parts[k].matched + shard[next][k].matched
               /\ parts[k].connsRead = result.parts[k].connsRead + shard[next][k].connsRead
    BY <2>2 DEF Numbers
  <2> QED  BY <2>4, <2>5, <2>6
<1>7. \A k \in Kinds, c \in Numbers : result'.parts[k][c] = result.parts[k][c] + shard[next][k][c]
  <2>1. \A c \in Numbers : c = "matched" \/ c = "connsRead"
    BY DEF Numbers
  <2> QED  BY <1>6, <2>1
<1>8. \A k \in Kinds, c \in Numbers : result.parts[k][c] \in Nat /\ shard[next][k][c] \in Nat
  BY <1>1, <1>3 DEF Shapes, HasParts
<1>9. Workers \in Nat /\ next \in 1 .. Workers /\ next' \in 1 .. Workers + 1
  <2>1. Workers \in Nat
    BY TypedAssumption
  <2> QED  BY <1>1, <2>1 DEF Worker
<1>10. Shapes'
  <2>1. \A sh : HasParts(sh)' <=> HasParts(sh)
    BY <1>5 DEF HasParts
  <2>2. HasParts(result'.parts)
    BY <1>6, <1>7, <1>8 DEF HasParts
  <2> QED  BY <1>1, <1>3, <1>6, <1>9, <2>1, <2>2 DEF Shapes
<1>11. Scanned(by)'
  BY <1>1, <1>4, <1>5 DEF Scanned
<1>12. \A R : Cardinality(Lines(by, 1 .. next) \cap R)
                = Cardinality(Lines(by, 1 .. next - 1) \cap R) + Cardinality(Lines(by, {next}) \cap R)
  <2>1. 1 .. next = (1 .. next - 1) \cup {next} /\ (1 .. next - 1) \cap {next} = {}
    BY <1>9
  <2>2. log \in DOMAIN Objects /\ DOMAIN by \subseteq InRun
    BY <1>3, <1>4 DEF Shapes, Scanned
  <2>3. PICK U, V, W : U = 1 .. next /\ V = 1 .. next - 1 /\ W = {next}
    OBVIOUS
  <2>4. Apart(U, V, W)
    BY <2>1, <2>3 DEF Apart
  <2>5. ASSUME NEW R
        PROVE  Cardinality(Lines(by, U) \cap R) = Cardinality(Lines(by, V) \cap R) + Cardinality(Lines(by, W) \cap R)
    BY <2>2, <2>4, LinesTogether
  <2> QED  BY <2>3, <2>5
<1>13. \A W : /\ Lines(by, W) = Lines(by, W) \cap (InRun \X Nat)
              /\ \A c, k : Tallied(by, W, c, k) = Lines(by, W) \cap Marked(c, k)
  <2>1. log \in DOMAIN Objects /\ DOMAIN by \subseteq InRun
    BY <1>3, <1>4 DEF Shapes, Scanned
  <2> QED  BY <2>1, TalliedIs
<1>14. AddedUp(by)'
  <2>1. next' - 1 = next
    BY <1>1, <1>9
  <2>2. result'.records = Cardinality(Lines(by, 1 .. next))
    <3>1. /\ result.records = Cardinality(Lines(by, 1 .. next - 1))
          /\ records[next] = Cardinality(Lines(by, {next}))
      BY <1>1, <1>4 DEF AddedUp, Scanned
    <3>2. Cardinality(Lines(by, 1 .. next))
            = Cardinality(Lines(by, 1 .. next - 1)) + Cardinality(Lines(by, {next}))
      BY <1>12, <1>13
    <3> QED  BY <1>6, <3>1, <3>2
  <2>3. ASSUME NEW k \in Kinds, NEW c \in Numbers
        PROVE  result'.parts[k][c] = Cardinality(Tallied(by, 1 .. next, c, k))
    <3>1. /\ result.parts[k][c] = Cardinality(Tallied(by, 1 .. next - 1, c, k))
          /\ shard[next][k][c] = Cardinality(Tallied(by, {next}, c, k))
      BY <1>1, <1>4 DEF AddedUp, Scanned
    <3>2. Cardinality(Tallied(by, 1 .. next, c, k))
            = Cardinality(Tallied(by, 1 .. next - 1, c, k)) + Cardinality(Tallied(by, {next}, c, k))
      <4>1. /\ Tallied(by, 1 .. next, c, k) = Lines(by, 1 .. next) \cap Marked(c, k)
            /\ Tallied(by, 1 .. next - 1, c, k) = Lines(by, 1 .. next - 1) \cap Marked(c, k)
            /\ Tallied(by, {next}, c, k) = Lines(by, {next}) \cap Marked(c, k)
        BY <1>13
      <4> QED  BY <1>12, <4>1
    <3> QED  BY <1>7, <3>1, <3>2
  <2> QED  BY <1>5, <2>1, <2>2, <2>3 DEF AddedUp
<1> QED  BY <1>1, <1>3, <1>10, <1>11, <1>14 DEF IInv

\* The tables are cut, the numbers stay.
LEMMA FinishKeeps ==
  ASSUME IInv, Finish
  PROVE  IInv'
<1>1. /\ phase = "merge" /\ phase' = "done" /\ next = Workers + 1 /\ ~(Probes /\ HiveFound)
      /\ log' = log /\ opts' = opts /\ todo' = todo /\ shard' = shard /\ read' = read
      /\ records' = records /\ errs' = errs /\ next' = next
  BY DEF Finish
<1>2. /\ result'.records = result.records /\ {"records", "parts"} \subseteq DOMAIN result'
      /\ result'.parts = [k \in Kinds |-> [result.parts[k] EXCEPT !.matches = earliest(@, MaxEvents)]]
  BY DEF Finish
<1>3. Shapes /\ todo = {}
  BY <1>1 DEF IInv
<1>4. PICK by : Scanned(by) /\ AddedUp(by)
  BY <1>1 DEF IInv
<1>5. /\ InRun' = InRun /\ Kinds' = Kinds /\ (HiveFound' <=> HiveFound)
      /\ \A p : (complete(p)' <=> complete(p)) /\ (failure(p)' <=> failure(p))
      /\ \A b, W : /\ Lines(b, W)' = Lines(b, W)
                   /\ \A c, k : Tallied(b, W, c, k)' = Tallied(b, W, c, k)
  BY <1>1, Same, SameLines
<1>6. \A k \in Kinds : /\ DOMAIN result'.parts[k] = DOMAIN result.parts[k]
                       /\ \A c \in Numbers : result'.parts[k][c] = result.parts[k][c]
  <2>1. ASSUME NEW k \in Kinds, NEW c \in Numbers PROVE c \in DOMAIN result.parts[k] /\ c # "matches"
    BY <1>3 DEF Shapes, HasParts, Numbers
  <2>2. ASSUME NEW k \in Kinds
        PROVE  result'.parts[k] = [result.parts[k] EXCEPT !.matches = earliest(@, MaxEvents)]
    BY <1>2
  <2> QED  BY <2>1, <2>2
<1>7. Shapes'
  <2>1. \A sh : HasParts(sh)' <=> HasParts(sh)
    BY <1>5 DEF HasParts
  <2>2. DOMAIN result'.parts = Kinds
    BY <1>2
  <2>3. HasParts(result'.parts)
    BY <1>3, <1>6, <2>2 DEF Shapes, HasParts
  <2> QED  BY <1>1, <1>2, <1>3, <2>1, <2>3 DEF Shapes
<1>8. Scanned(by)'
  BY <1>1, <1>4, <1>5 DEF Scanned
<1>9. AddedUp(by)'
  BY <1>1, <1>2, <1>4, <1>5, <1>6 DEF AddedUp
<1>10. log = "vpc" => InRun # {} \/ ~HiveFound
  BY <1>1 DEF Probes
<1> QED  BY <1>1, <1>3, <1>5, <1>7, <1>8, <1>9, <1>10 DEF IInv

\* The inductive invariant.
LEMMA StepKeeps == IInv /\ [Next]_vars => IInv'
<1> SUFFICES ASSUME IInv, [Next]_vars PROVE IInv'
  OBVIOUS
<1>1. CASE Start
  BY <1>1, StartKeeps
<1>2. CASE DiscoveryFails \/ Cancelled \/ ProbeFails
  BY <1>2, FailKeeps
<1>3. ASSUME NEW w \in Worker, NEW o \in todo, Fetch(w, o) PROVE IInv'
  BY <1>3, FetchKeeps
<1>4. CASE ScanReturns
  BY <1>4, ScanReturnsKeeps
<1>5. CASE MergeShard
  BY <1>5, MergeShardKeeps
<1>6. CASE Finish
  BY <1>6, FinishKeeps
<1>7. CASE Stop \/ UNCHANGED vars
  BY <1>7, StopKeeps DEF Stop
<1> QED  BY <1>1, <1>2, <1>3, <1>4, <1>5, <1>6, <1>7 DEF Next

\* So it holds throughout a run.
LEMMA Invariance == Spec => []IInv
<1>1. Init => IInv
  BY Opening
<1>2. IInv /\ [Next]_vars => IInv'
  BY StepKeeps
<1> QED  BY <1>1, <1>2, PTL DEF Spec
-----------------------------------------------------------------------------
\* Every entry keeps the id of its line.
LEMMA EntryIds ==
  ASSUME log \in DOMAIN Objects, NEW o, NEW l
  PROVE  Entry(o, l).id = l.id
<1>1. log \in {"elb", "waf", "s3", "trail", "vpc"}
  BY TypedAssumption
<1>2. EntryOf(o.fmt, l).id = l.id
  BY DEF EntryOf
<1>3. wafEntry(l).id = l.id
  BY DEF wafEntry
<1>4. s3Entry(l).id = l.id
  BY DEF s3Entry
<1>5. vpcEntry(o.header, l).id = l.id
  BY DEF vpcEntry
<1> QED  BY <1>1, <1>2, <1>3, <1>4, <1>5 DEF Entry

\* The good lines of a run: those of the objects whose lines can be had.
GoodLines == UNION {{o} \X decode(o) : o \in InRun}

\* So no two lines make the same entry, and there are as many entries as lines.
LEMMA AsManyEntries ==
  ASSUME log \in DOMAIN Objects, NEW P \in SUBSET GoodLines, IsFiniteSet(P)
  PROVE  Cardinality({EntryAt(p) : p \in P}) = Cardinality(P)
<1> DEFINE T == {EntryAt(p) : p \in P}
           f == [p \in P |-> EntryAt(p)]
<1>1. \A p \in P : \E o \in InRun : \E i \in DOMAIN o.lines : p = <<o, i>>
  <2>1. \A o \in InRun : decode(o) \subseteq DOMAIN o.lines
    BY ObjectFacts
  <2> QED  BY <2>1 DEF GoodLines
<1>2. ASSUME NEW p \in P, NEW q \in P, EntryAt(p) = EntryAt(q) PROVE p = q
  <2>1. PICK o, i : o \in InRun /\ i \in DOMAIN o.lines /\ p = <<o, i>>
    BY <1>1
  <2>2. PICK r, j : r \in InRun /\ j \in DOMAIN r.lines /\ q = <<r, j>>
    BY <1>1
  <2>3. /\ EntryAt(p) = Entry(o, o.lines[i]) /\ EntryAt(q) = Entry(r, r.lines[j])
    BY <2>1, <2>2 DEF EntryAt
  <2>4. o.lines[i].id = r.lines[j].id
    <3>1. PICK l, m : l = o.lines[i] /\ m = r.lines[j]
      OBVIOUS
    <3>2. Entry(o, l).id = l.id /\ Entry(r, m).id = m.id
      BY EntryIds
    <3>3. Entry(o, l) = Entry(r, m)
      BY <1>2, <2>3, <3>1
    <3>4. l.id = m.id
      BY <3>2, <3>3
    <3> QED  BY <3>1, <3>4
  <2>5. o = r /\ i = j
    <3>1. \A x, y \in InRun : \A h \in DOMAIN x.lines, g \in DOMAIN y.lines :
            x.lines[h].id = y.lines[g].id => x = y /\ h = g
      BY ObjectFacts
    <3> QED  BY <2>1, <2>2, <2>4, <3>1
  <2> QED  BY <2>1, <2>2, <2>5
<1>3. f \in [P -> T] /\ \A p \in P : f[p] = EntryAt(p)
  OBVIOUS
<1>4. \A t \in T : \E p \in P : f[p] = t
  OBVIOUS
<1> HIDE DEF f, T
<1>5. \A p, q \in P : f[p] = f[q] => p = q
  BY <1>2, <1>3
<1>6. DOMAIN f = P
  BY <1>3
<1>7. f \in Injection(P, T) /\ f \in Surjection(P, T)
  BY <1>3, <1>4, <1>5, <1>6 DEF Injection, Surjection, IsInjective
<1>8. Cardinality(T) = Cardinality(P)
  BY <1>7, FS_Surjection
<1> QED  BY <1>8 DEF T

\* What is read is made of the good lines: of a complete object they are all had, and of
\* one that is neither complete nor broken there are none.
LEMMA ReadFacts ==
  ASSUME log \in DOMAIN Objects, \A o \in InRun : o.key \in AllRead <=> complete(o)
  PROVE  /\ Read = {EntryAt(p) : p \in GoodLines}
         /\ Read = EntriesOf({o \in InRun : streams \/ ~o.broken})
<1>1. \A S, e : e \in EntriesOf(S) <=> \E o \in S : \E i \in Good(o) : e = EntryAt(<<o, i>>)
  BY DEF EntriesOf, EntryAt, Good
<1>2. ASSUME NEW o \in InRun
      PROVE  /\ ~streams /\ o.broken => decode(o) = {} /\ ~complete(o)
             /\ streams \/ ~o.broken => decode(o) = Good(o)
             /\ ~streams /\ ~o.broken /\ ~complete(o) => Good(o) = {}
  BY DEF decode, complete, failure
<1>3. PICK S : S = {o \in InRun : streams \/ o.key \in AllRead}
  OBVIOUS
<1>4. PICK T : T = {o \in InRun : streams \/ ~o.broken}
  OBVIOUS
<1>5. S \subseteq T /\ \A o \in T \ S : Good(o) = {}
  BY <1>2, <1>3, <1>4
<1>6. EntriesOf(S) = EntriesOf(T)
  <2>1. ASSUME NEW e \in EntriesOf(S) PROVE e \in EntriesOf(T)
    <3>1. PICK o \in S : \E i \in Good(o) : e = EntryAt(<<o, i>>)
      BY <1>1
    <3> QED  BY <1>1, <1>5, <3>1
  <2>2. ASSUME NEW e \in EntriesOf(T) PROVE e \in EntriesOf(S)
    <3>1. PICK o \in T : \E i \in Good(o) : e = EntryAt(<<o, i>>)
      BY <1>1
    <3>2. o \in S
      BY <1>5, <3>1
    <3> QED  BY <1>1, <3>1, <3>2
  <2> QED  BY <2>1, <2>2
<1>7. EntriesOf(T) = {EntryAt(p) : p \in GoodLines}
  <2>1. ASSUME NEW o \in T, NEW i \in Good(o) PROVE <<o, i>> \in GoodLines
    BY <1>2, <1>4 DEF GoodLines
  <2>2. ASSUME NEW p \in GoodLines PROVE \E o \in T : \E i \in Good(o) : p = <<o, i>>
    <3>1. PICK o \in InRun : p \in {o} \X decode(o)
      BY DEF GoodLines
    <3>2. PICK i \in decode(o) : p = <<o, i>>
      BY <3>1
    <3>3. o \in T /\ i \in Good(o)
      BY <1>2, <1>4, <3>2
    <3> QED  BY <3>2, <3>3
  <2>3. ASSUME NEW e \in EntriesOf(T) PROVE \E p \in GoodLines : e = EntryAt(p)
    <3>1. PICK o \in T : \E i \in Good(o) : e = EntryAt(<<o, i>>)
      BY <1>1
    <3>2. PICK i \in Good(o) : e = EntryAt(<<o, i>>)
      BY <3>1
    <3> QED  BY <2>1, <3>2
  <2>4. ASSUME NEW p \in GoodLines PROVE EntryAt(p) \in EntriesOf(T)
    BY <1>1, <2>2
  <2> QED  BY <2>3, <2>4
<1>8. Read = EntriesOf(S)
  BY <1>3 DEF Read
<1> QED  BY <1>4, <1>6, <1>7, <1>8

\* A finished run tells of an object that fails, or the worker that took it has recorded
\* all the errors it may; and it tells of no other.
ToldOf(o) ==
  /\ o.key \in UNION {errs[w] : w \in Worker} => failure(o)
  /\ failure(o) => \E w \in Worker :
       /\ o.key \in AllRead => o.key \in read[w]
       /\ o.key \in errs[w] \/ Cardinality(errs[w]) = MaxErrs

\* When every object was taken: a key names one object, so the worker that took it is the
\* only one that can have read it or recorded its error.
LEMMA KeyFacts ==
  ASSUME log \in DOMAIN Objects, NEW by, Scanned(by), todo = {}
  PROVE  /\ \A o \in InRun : (o.key \in AllRead <=> complete(o)) /\ ToldOf(o)
         /\ \A w \in Worker : IsFiniteSet(errs[w])
<1>1. by \in [InRun -> Worker]
  BY DEF Scanned
<1>2. /\ \A w \in Worker : read[w] = {p.key : p \in {q \in InRun : by[q] = w /\ complete(q)}}
      /\ \A w \in Worker : Recorded(errs[w], {p.key : p \in {q \in InRun : by[q] = w /\ failure(q)}})
  BY <1>1 DEF Scanned
<1>3. ASSUME NEW o \in InRun
      PROVE  (o.key \in AllRead <=> complete(o)) /\ ToldOf(o)
  <2>1. \A p \in InRun : p.key = o.key => p = o
    BY ObjectFacts
  <2>2. \A w \in Worker : o.key \in read[w] <=> by[o] = w /\ complete(o)
    BY <1>2, <2>1
  <2>3. by[o] \in Worker
    BY <1>1
  <2>4. \A w \in Worker : o.key \in errs[w] => failure(o)
    BY <1>2, <2>1 DEF Recorded
  <2>5. failure(o) => o.key \in errs[by[o]] \/ Cardinality(errs[by[o]]) = MaxErrs
    <3>1. /\ Cardinality(errs[by[o]]) \in 0 .. MaxErrs
          /\ Cardinality(errs[by[o]]) < MaxErrs =>
               errs[by[o]] = {p.key : p \in {q \in InRun : by[q] = by[o] /\ failure(q)}}
      BY <1>2, <2>3 DEF Recorded
    <3>2. MaxErrs \in Nat
      BY TypedAssumption
    <3>3. failure(o) => o.key \in {p.key : p \in {q \in InRun : by[q] = by[o] /\ failure(q)}}
      OBVIOUS
    <3> QED  BY <3>1, <3>2, <3>3
  <2>6. o.key \in AllRead => o.key \in read[by[o]]
    BY <2>2 DEF AllRead
  <2> QED  BY <2>2, <2>3, <2>4, <2>5, <2>6 DEF AllRead, ToldOf
<1> QED  BY <1>2, <1>3 DEF Recorded

\* And all good lines are counted.
LEMMA LineFacts ==
  ASSUME IInv, Done
  PROVE  /\ IsFiniteSet(GoodLines)
         /\ result.records = Cardinality(GoodLines)
         /\ \A k \in Kinds, c \in Numbers :
              result.parts[k][c] = Cardinality({p \in GoodLines : Counts(c, k, EntryAt(p))})
         /\ \A o \in InRun : (o.key \in AllRead <=> complete(o)) /\ ToldOf(o)
         /\ \A w \in Worker : IsFiniteSet(errs[w])
<1>1. Shapes /\ todo = {} /\ (next = Workers + 1 \/ InRun = {})
  BY DEF IInv, Done
<1>2. PICK by : Scanned(by) /\ AddedUp(by)
  BY DEF IInv, Done
<1>3. log \in DOMAIN Objects
  BY <1>1 DEF Shapes
<1>4. by \in [InRun -> Worker] /\ DOMAIN by = InRun
  BY <1>1, <1>2 DEF Scanned
<1>5. Lines(by, 1 .. next - 1) = GoodLines
  <2>1. CASE InRun = {}
    BY <1>4, <2>1 DEF Lines, GoodLines
  <2>2. CASE next = Workers + 1
    <3>1. 1 .. next - 1 = Worker
      <4>1. Workers \in Nat
        BY TypedAssumption
      <4> QED  BY <2>2, <4>1 DEF Worker
    <3>2. {p \in DOMAIN by : by[p] \in Worker} = InRun
      BY <1>4
    <3> QED  BY <3>1, <3>2 DEF Lines, GoodLines
  <2> QED  BY <1>1, <2>1, <2>2
<1>6. IsFiniteSet(GoodLines)
  <2>1. DOMAIN by \subseteq InRun
    BY <1>4
  <2>2. IsFiniteSet(Lines(by, 1 .. next - 1))
    BY <1>3, <2>1, LinesFacts
  <2> QED  BY <1>5, <2>2
<1>7. result.records = Cardinality(GoodLines)
  BY <1>2, <1>5 DEF AddedUp
<1>8. ASSUME NEW k \in Kinds, NEW c \in Numbers
      PROVE  result.parts[k][c] = Cardinality({p \in GoodLines : Counts(c, k, EntryAt(p))})
  <2>1. Tallied(by, 1 .. next - 1, c, k) = {p \in GoodLines : Counts(c, k, EntryAt(p))}
    BY <1>5 DEF Tallied
  <2> QED  BY <1>2, <2>1 DEF AddedUp
<1> QED  BY <1>1, <1>2, <1>3, <1>6, <1>7, <1>8, KeyFacts

\* Connections are told from requests.
LEMMA ConnFacts ==
  ASSUME IInv, Done, log = "elb"
  PROVE  /\ result.parts.conn.connsRead = Cardinality({p \in GoodLines : EntryAt(p).conn})
         /\ Cardinality({p \in GoodLines : EntryAt(p).conn}) \in Nat
<1>1. "conn" \in Kinds /\ "connsRead" \in Numbers
  BY DEF Kinds, Numbers
<1>2. \A e : Counts("connsRead", "conn", e) <=> e.conn
  BY DEF Counts, kindOf
<1>3. {p \in GoodLines : Counts("connsRead", "conn", EntryAt(p))} = {p \in GoodLines : EntryAt(p).conn}
  BY <1>2
<1>4. result.parts["conn"]["connsRead"] = Cardinality({p \in GoodLines : Counts("connsRead", "conn", EntryAt(p))})
  BY <1>1, LineFacts
<1>5. {p \in GoodLines : EntryAt(p).conn} \in SUBSET GoodLines
  OBVIOUS
<1>6. Cardinality({p \in GoodLines : EntryAt(p).conn}) \in Nat
  BY <1>5, LineFacts, FS_Subset, FS_CardinalityType
<1> QED  BY <1>3, <1>4, <1>6

\* LinesAccounted: whatever worker took which object in whatever order, a finished run
\* read every good line of every object it could get, counted each once, the connections
\* apart, and told of every object that is bad or has a bad line and of no other, unless
\* the worker that took the object had recorded all the errors it may: a run with such an
\* object has an error.
THEOREM LinesAreAccounted == Spec => []LinesAccounted
<1>1. IInv => LinesAccounted
  <2> SUFFICES ASSUME IInv, Done PROVE LinesAccounted
    BY DEF LinesAccounted
  <2>1. log \in DOMAIN Objects
    BY DEF IInv, Shapes
  <2>2. \A o \in InRun : (o.key \in AllRead <=> complete(o)) /\ ToldOf(o)
    BY LineFacts
  <2>3. Read = {EntryAt(p) : p \in GoodLines} /\ Read = EntriesOf({o \in InRun : streams \/ ~o.broken})
    BY <2>1, <2>2, ReadFacts
  <2>4. RecordsRead + (IF log = "elb" THEN Cardinality({e \in Read : e.conn}) ELSE 0) = Cardinality(Read)
    <3>1. IsFiniteSet(GoodLines) /\ result.records = Cardinality(GoodLines) /\ Cardinality(GoodLines) \in Nat
      BY LineFacts, FS_CardinalityType
    <3>2. Cardinality(Read) = Cardinality(GoodLines)
      BY <2>1, <2>3, <3>1, AsManyEntries
    <3>3. CASE log # "elb"
      <4>1. RecordsRead = result.records
        BY <3>1, <3>3 DEF RecordsRead
      <4> QED  BY <3>1, <3>2, <3>3, <4>1
    <3>4. CASE log = "elb"
      <4>1. PICK P : P = {p \in GoodLines : EntryAt(p).conn}
        OBVIOUS
      <4>2. {e \in Read : e.conn} = {EntryAt(p) : p \in P}
        BY <2>3, <4>1
      <4>3. P \in SUBSET GoodLines /\ IsFiniteSet(P)
        BY <3>1, <4>1, FS_Subset
      <4>4. Cardinality({e \in Read : e.conn}) = Cardinality(P)
        BY <2>1, <4>2, <4>3, AsManyEntries
      <4>5. result.parts.conn.connsRead = Cardinality(P) /\ Cardinality(P) \in Nat
        BY <3>4, <4>1, ConnFacts
      <4>6. RecordsRead = Cardinality(GoodLines) - Cardinality(P)
        BY <3>1, <3>4, <4>5 DEF RecordsRead
      <4> QED  BY <3>1, <3>2, <3>4, <4>4, <4>5, <4>6
    <3> QED  BY <3>3, <3>4
  <2>5. ASSUME NEW o \in InRun
        PROVE  /\ failure(o) <=> o.broken \/ badHeader(o) \/ \E i \in DOMAIN o.lines : ~Parses(o, o.lines[i])
               /\ complete(o) \/ failure(o)
               /\ o.broken \/ badHeader(o) => ~complete(o)
    <3>1. Good(o) # DOMAIN o.lines <=> \E i \in DOMAIN o.lines : ~Parses(o, o.lines[i])
      BY DEF Good
    <3>2. failure(o) <=> o.broken \/ badHeader(o) \/ Good(o) # DOMAIN o.lines
      BY DEF failure
    <3>3. complete(o) \/ failure(o)
      BY <3>2 DEF complete
    <3>4. o.broken \/ badHeader(o) => ~complete(o)
      BY <3>2 DEF complete, decode, badHeader
    <3> QED  BY <3>1, <3>2, <3>3, <3>4
  <2>6. log = "vpc" => InRun # {} \/ opts.dirs \cap HiveDirs = {}
    BY DEF IInv, Done, HiveFound, Wants
  <2>7. ASSUME NEW o \in InRun
        PROVE  LET bad == o.broken \/ badHeader(o) \/ \E i \in DOMAIN o.lines : ~Parses(o, o.lines[i])
                   told == o.key \in UNION {errs[w] : w \in Worker}
               IN  /\ told => bad
                   /\ bad => told \/ \E w \in Worker :
                        Cardinality(errs[w]) = MaxErrs /\ (o.key \in AllRead => o.key \in read[w])
                   /\ o.key \in AllRead \/ bad
                   /\ o.broken \/ badHeader(o) => o.key \notin AllRead
                   /\ bad => \E w \in Worker : errs[w] # {}
    <3>1. /\ failure(o) <=> o.broken \/ badHeader(o) \/ \E i \in DOMAIN o.lines : ~Parses(o, o.lines[i])
          /\ complete(o) \/ failure(o)
          /\ o.broken \/ badHeader(o) => ~complete(o)
          /\ o.key \in AllRead <=> complete(o)
          /\ ToldOf(o)
      BY <2>2, <2>5
    <3>2. o.key \in UNION {errs[w] : w \in Worker} <=> \E w \in Worker : o.key \in errs[w]
      OBVIOUS
    <3>3. \A w \in Worker : Cardinality(errs[w]) = MaxErrs => errs[w] # {}
      BY FS_EmptySet, TypedAssumption
    <3> QED  BY <3>1, <3>2, <3>3 DEF ToldOf
  <2> QED  BY <2>3, <2>4, <2>6, <2>7 DEF LinesAccounted
<1> QED  BY <1>1, Invariance, PTL

\* The number of matches of each part of a finished run is that of the entries that were
\* read, are of its kind and match the filter (the first claim of ResultIsWhole).
THEOREM MatchesAreCounted ==
  Spec => [](Done => \A k \in Kinds : result.parts[k].matched = Cardinality(Of(k)))
<1>1. IInv => (Done => \A k \in Kinds : result.parts[k].matched = Cardinality(Of(k)))
  <2> SUFFICES ASSUME IInv, Done, NEW k \in Kinds
               PROVE  result.parts[k].matched = Cardinality(Of(k))
    OBVIOUS
  <2>1. log \in DOMAIN Objects /\ "matched" \in Numbers
    BY DEF IInv, Shapes, Numbers
  <2>2. Read = {EntryAt(p) : p \in GoodLines}
    BY <2>1, LineFacts, ReadFacts
  <2>3. PICK P : P = {p \in GoodLines : Counts("matched", k, EntryAt(p))}
    OBVIOUS
  <2>4. Of(k) = {EntryAt(p) : p \in P}
    BY <2>2, <2>3 DEF Of, Counts
  <2>5. P \in SUBSET GoodLines /\ IsFiniteSet(P)
    BY <2>3, LineFacts, FS_Subset
  <2>6. Cardinality(Of(k)) = Cardinality(P)
    BY <2>1, <2>4, <2>5, AsManyEntries
  <2>7. result.parts[k]["matched"] = Cardinality(P)
    BY <2>1, <2>3, LineFacts
  <2> QED  BY <2>6, <2>7
<1> QED  BY <1>1, Invariance, PTL
-----------------------------------------------------------------------------
\* The lesser and the greater of two numbers.
LEMMA TwoNumbers ==
  ASSUME NEW a \in Int, NEW b \in Int
  PROVE  /\ Min({a, b}) = IF a <= b THEN a ELSE b
         /\ Max({a, b}) = IF a >= b THEN a ELSE b
<1>1. \E x \in {a, b} : \A y \in {a, b} : x <= y
  OBVIOUS
<1>2. Min({a, b}) \in {a, b} /\ \A y \in {a, b} : Min({a, b}) <= y
  BY <1>1 DEF Min
<1>3. \E x \in {a, b} : \A y \in {a, b} : x >= y
  OBVIOUS
<1>4. Max({a, b}) \in {a, b} /\ \A y \in {a, b} : Max({a, b}) >= y
  BY <1>3 DEF Max
<1> QED  BY <1>2, <1>4

\* The cap: what it keeps is at least as severe as what it drops, and never CRITICAL
\* is what it drops. Of finitely many hits, as many as it says.
Severities == {LOW, MEDIUM, HIGH, CRITICAL}
Minor(hits) == {h \in hits : h.severity < CRITICAL}
Kept(found, dropped, hits) ==
  /\ found \subseteq hits /\ dropped = Cardinality(hits \ found)
  /\ \A h \in hits \ found : h.severity < CRITICAL /\ \A g \in found : g.severity >= h.severity
  /\ IsFiniteSet(hits) => /\ Cardinality(Minor(found)) <= MaxFindings
                          /\ MaxSeverity(found) = MaxSeverity(hits)

\* What capped chooses is kept in this sense.
LEMMA CapKeeps ==
  ASSUME NEW hits, \A h \in hits : h.severity \in Severities, NEW f \in capped(hits, MaxFindings, TextRank)
  PROVE  Kept(f.found, f.dropped, hits)
<1>1. PICK critical, others : critical = {h \in hits : h.severity = CRITICAL} /\ others = hits \ critical
  OBVIOUS
<1>2. PICK room : room = Min({Max({MaxFindings - Cardinality(critical), 0}), Cardinality(others)})
  OBVIOUS
<1>3. PICK X : /\ X \in kSubset(room, others) /\ \A x \in X, y \in others \ X : ~Above(y, x, TextRank)
               /\ f = [found |-> critical \cup X, dropped |-> Cardinality(others \ X)]
  BY <1>1, <1>2 DEF capped
<1>4. X \subseteq others /\ Cardinality(X) = room
  BY <1>3 DEF kSubset
<1>5. f.found = critical \cup X /\ f.dropped = Cardinality(others \ X)
  BY <1>3
<1>6. f.found \subseteq hits /\ hits \ f.found = others \ X
  BY <1>1, <1>4, <1>5
<1>7. ASSUME NEW h \in hits \ f.found
      PROVE  h.severity < CRITICAL /\ \A g \in f.found : g.severity >= h.severity
  <2>1. h \in others \ X /\ h.severity \in {LOW, MEDIUM, HIGH}
    BY <1>1, <1>6 DEF Severities
  <2>2. \A x \in X : ~(h.severity > x.severity) /\ x.severity \in Severities
    BY <1>1, <1>3, <1>4, <2>1 DEF Above
  <2>3. \A x \in critical : x.severity = CRITICAL
    BY <1>1
  <2> QED  BY <1>5, <2>1, <2>2, <2>3 DEF Severities, LOW, MEDIUM, HIGH, CRITICAL
<1>8. MaxFindings \in Nat \ {0}
  BY TypedAssumption
<1>9. ASSUME IsFiniteSet(hits)
      PROVE  /\ Cardinality(Minor(f.found)) <= MaxFindings
             /\ MaxSeverity(f.found) = MaxSeverity(hits)
  <2>1. /\ IsFiniteSet(critical) /\ Cardinality(critical) \in Nat
        /\ IsFiniteSet(others) /\ Cardinality(others) \in Nat
    BY <1>1, <1>9, FS_Subset, FS_CardinalityType
  <2>2. /\ room \in Nat /\ room <= MaxFindings
        /\ critical = {} /\ others # {} => room > 0
    <3>1. PICK c, n \in Nat : c = Cardinality(critical) /\ n = Cardinality(others)
      BY <2>1
    <3>2. PICK m \in Int : m = MaxFindings - c
      BY <1>8, <3>1
    <3>3. Max({m, 0}) = IF m >= 0 THEN m ELSE 0
      <4>1. PICK z \in Int : z = 0
        OBVIOUS
      <4>2. Max({m, z}) = IF m >= z THEN m ELSE z
        BY TwoNumbers
      <4> QED  BY <4>1, <4>2
    <3>4. PICK g \in Nat : g = Max({m, 0}) /\ g <= MaxFindings
      BY <1>8, <3>1, <3>2, <3>3
    <3>5. Min({g, n}) = IF g <= n THEN g ELSE n
      BY <3>1, <3>4, TwoNumbers
    <3>6. room = Min({g, n})
      BY <1>2, <3>1, <3>2, <3>4
    <3>7. critical = {} => c = 0
      BY <3>1, FS_EmptySet
    <3>8. others # {} => n # 0
      BY <2>1, <3>1, FS_EmptySet
    <3> QED  BY <1>8, <3>1, <3>2, <3>3, <3>4, <3>5, <3>6, <3>7, <3>8
  <2>3. Minor(f.found) = X
    <3>1. \A h \in others : h.severity < CRITICAL
      BY <1>1 DEF Severities, LOW, MEDIUM, HIGH, CRITICAL
    <3>2. \A h \in critical : ~(h.severity < CRITICAL)
      BY <1>1 DEF CRITICAL
    <3> QED  BY <1>4, <1>5, <3>1, <3>2 DEF Minor
  <2>4. MaxSeverity(f.found) = MaxSeverity(hits)
    <3>1. CASE hits = {}
      BY <1>6, <3>1
    <3>2. CASE hits # {}
      <4>1. PICK S, T : S = {h.severity : h \in f.found} /\ T = {h.severity : h \in hits}
        OBVIOUS
      <4>2. S \subseteq T /\ T \subseteq Severities
        BY <1>6, <4>1
      <4>3. S # {}
        <5>1. X = {} => room = 0
          BY <1>4, FS_EmptySet
        <5>2. critical = {} => others # {}
          BY <1>1, <3>2
        <5>3. critical = {} => X # {}
          BY <2>2, <5>1, <5>2
        <5>4. f.found # {}
          BY <1>5, <5>3
        <5> QED  BY <4>1, <5>4
      <4>4. \A t \in T \ S : \A s \in S : s >= t
        BY <1>7, <4>1
      <4>5. Max(S) = Max(T)
        <5>0. Severities = {1, 2, 3, 4}
          BY DEF Severities, LOW, MEDIUM, HIGH, CRITICAL
        <5>1. \E x \in S : \A y \in S : x >= y
          <6>1. \A y \in S : y = 1 \/ y = 2 \/ y = 3 \/ y = 4
            BY <4>2, <5>0
          <6>2. CASE 4 \in S
            BY <6>1, <6>2
          <6>3. CASE 4 \notin S /\ 3 \in S
            BY <6>1, <6>3
          <6>4. CASE 4 \notin S /\ 3 \notin S /\ 2 \in S
            BY <6>1, <6>4
          <6>5. CASE 4 \notin S /\ 3 \notin S /\ 2 \notin S
            BY <4>3, <6>1, <6>5
          <6> QED  BY <6>2, <6>3, <6>4, <6>5
        <5>2. Max(S) \in S /\ \A y \in S : Max(S) >= y
          BY <5>1 DEF Max
        <5>3. Max(S) \in T /\ \A y \in T : Max(S) >= y
          BY <4>2, <4>4, <5>2
        <5>4. Max(T) \in T /\ \A y \in T : Max(T) >= y
          BY <5>3 DEF Max
        <5>5. PICK x, y : x = Max(S) /\ y = Max(T)
          OBVIOUS
        <5>6. x \in {1, 2, 3, 4} /\ y \in {1, 2, 3, 4} /\ x >= y /\ y >= x
          BY <4>2, <5>0, <5>3, <5>4, <5>5
        <5>7. x = y
          BY <5>6
        <5> QED  BY <5>5, <5>7
      <4> QED  BY <3>2, <4>1, <4>3, <4>5 DEF MaxSeverity
    <3> QED  BY <3>1, <3>2
  <2> QED  BY <1>4, <2>2, <2>3, <2>4
<1> QED  BY <1>5, <1>6, <1>7, <1>9 DEF Kept

\* Every hit of every rule has one of the severities.
LEMMA HitSeverities == \A h \in Hits : h.severity \in Severities
<1>1. {LOW, MEDIUM, HIGH, CRITICAL} = Severities
  BY DEF Severities
<1>2. \A r, v, a, c, t : Hit(r, v, a, c, t).severity = v
  BY DEF Hit
<1>3. ASSUME NEW s, NEW n, NEW h \in wafHits(s, n) PROVE h.severity \in Severities
  <2>1. \E r, a, c, t : \E v \in {LOW, MEDIUM, HIGH, CRITICAL} : h = Hit(r, v, a, c, t)
    BY DEF wafHits
  <2> QED  BY <1>1, <1>2, <2>1
<1>4. ASSUME NEW s, NEW n, NEW m, NEW b, NEW h \in s3Hits(s, n, m, b) PROVE h.severity \in Severities
  <2>1. PICK X : X = {[Hit("s3-access-change", MEDIUM, c.principal, 1, c.time) EXCEPT !.detail = c.id] : c \in Range(s.AccessChanges)}
    OBVIOUS
  <2>2. CASE h \in X
    <3>1. PICK c : h = [Hit("s3-access-change", MEDIUM, c.principal, 1, c.time) EXCEPT !.detail = c.id]
      BY <2>1, <2>2
    <3>2. h.severity = MEDIUM
      BY <3>1 DEF Hit
    <3> QED  BY <1>1, <3>2
  <2>3. CASE h \notin X
    <3>1. \E r, a, c, t : \E v \in {LOW, MEDIUM, HIGH, CRITICAL} : h = Hit(r, v, a, c, t)
      BY <2>1, <2>3 DEF s3Hits
    <3> QED  BY <1>1, <1>2, <3>1
  <2> QED  BY <2>2, <2>3
<1>5. ASSUME NEW s, NEW b, NEW h \in vpcHits(s, b) PROVE h.severity \in Severities
  <2>1. \/ \E r, a, c, t : \E v \in {LOW, MEDIUM, HIGH, CRITICAL} : h = Hit(r, v, a, c, t)
        \/ \E r, a, c, t, k : h = [Hit(r, LOW, a, c, t) EXCEPT !.key = k]
    BY DEF vpcHits
  <2>2. CASE \E r, a, c, t, k : h = [Hit(r, LOW, a, c, t) EXCEPT !.key = k]
    <3>1. PICK r, a, c, t, k : h = [Hit(r, LOW, a, c, t) EXCEPT !.key = k]
      BY <2>2
    <3>2. h.severity = LOW
      BY <3>1 DEF Hit
    <3> QED  BY <1>1, <3>2
  <2> QED  BY <1>1, <1>2, <2>1, <2>2
<1> QED  BY <1>3, <1>4, <1>5 DEF Hits

\* An empty summary is no finding.
LEMMA NoHits ==
  ASSUME log \in {"waf", "s3"}, \A k \in Kinds : result.parts[k].summary = Empty(k)
  PROVE  Hits = {}
<1>1. DOMAIN EmptyBag = {} /\ DOMAIN <<>> = {} /\ Range(<<>>) = {}
  BY DEF EmptyBag, SetToBag, Range
<1>2. ASSUME log = "waf" PROVE Hits = {}
  <2>1. result.parts["waf"].summary = NewWAFSummary
    BY <1>2 DEF Kinds, Empty
  <2>2. PICK s : s = NewWAFSummary
    OBVIOUS
  <2>3. /\ s.IPs = <<>> /\ s.Exploits = <<>> /\ s.RateByRule = <<>>
        /\ s.lists.ByCountRule = EmptyBag /\ s.sums.Oversize = 0
    BY <2>2 DEF NewWAFSummary, NoKeys, NoSums, wafTotals
  <2>4. wafHits(s, BlockThreshold) = {}
    BY <1>1, <2>3 DEF wafHits
  <2> QED  BY <1>2, <2>1, <2>2, <2>4 DEF Hits
<1>3. ASSUME log = "s3" PROVE Hits = {}
  <2>1. result.parts["s3"].summary = NewS3Summary
    BY <1>3 DEF Kinds, Empty
  <2>2. PICK s : s = NewS3Summary
    OBVIOUS
  <2>3. /\ s.AnonWrites = <<>> /\ s.AnonReads = <<>> /\ s.AccessChanges = <<>>
        /\ \A n \in s3CappedCounters : DOMAIN s.capped[n] = {}
    BY <1>1, <2>2 DEF NewS3Summary, NoKeys
  <2>4. s3Hits(s, DeniedThreshold, DeleteThreshold, EgressBytes) = {}
    BY <1>1, <2>3 DEF s3Hits, s3CappedCounters
  <2> QED  BY <1>3, <2>1, <2>2, <2>4 DEF Hits
<1> QED  BY <1>2, <1>3

\* What is kept of the hits, beside IInv.
FInv == /\ \A k \in Kinds : "summary" \in DOMAIN result.parts[k]
        /\ phase = "start" => /\ result.found = {} /\ result.dropped = 0
                              /\ \A k \in Kinds : result.parts[k].summary = Empty(k)
        /\ phase = "done" => Kept(result.found, result.dropped, Hits)

\* It holds at first.
LEMMA OpeningFinds == Init => FInv
<1> SUFFICES ASSUME Init PROVE FInv
  OBVIOUS
<1>1. /\ phase = "start" /\ result.found = {} /\ result.dropped = 0
      /\ result.parts = [k \in Kinds |-> NoPart(k)]
  BY DEF Init
<1>2. \A k \in Kinds : "summary" \in DOMAIN result.parts[k] /\ result.parts[k].summary = Empty(k)
  BY <1>1 DEF NoPart
<1> QED  BY <1>1, <1>2 DEF FInv

\* The hits are those of the summaries, and stay while those stay.
LEMMA SameHits ==
  ASSUME log' = log, opts' = opts, DOMAIN result.parts = Kinds,
         \A k \in Kinds : result'.parts[k].summary = result.parts[k].summary
  PROVE  Hits' = Hits
<1>1. log = "waf" => result'.parts.waf.summary = result.parts.waf.summary
  BY DEF Kinds
<1>2. log = "s3" => result'.parts.s3.summary = result.parts.s3.summary
  BY DEF Kinds
<1>3. log = "vpc" => result'.parts.vpc.summary = result.parts.vpc.summary
  BY DEF Kinds
<1>4. CASE log = "waf"
  BY <1>1, <1>4 DEF Hits
<1>5. CASE log = "s3"
  BY <1>2, <1>5 DEF Hits
<1>6. CASE log = "vpc"
  BY <1>3, <1>6 DEF Hits
<1>7. CASE log \notin {"waf", "s3", "vpc"}
  BY <1>7 DEF Hits
<1> QED  BY <1>4, <1>5, <1>6, <1>7

\* And at every step.
LEMMA StepFinds == IInv /\ FInv /\ [Next]_vars => FInv'
<1> SUFFICES ASSUME IInv, FInv, [Next]_vars PROVE FInv'
  OBVIOUS
<1>1. ASSUME log' = log, opts' = opts PROVE Kinds' = Kinds /\ \A k : Empty(k)' = Empty(k)
  BY <1>1, Same DEF Empty
<1>2. DOMAIN result.parts = Kinds /\ \A k \in Kinds : "summary" \in DOMAIN result.parts[k]
  BY DEF IInv, Shapes, HasParts, FInv
<1>3. ASSUME log' = log, opts' = opts, result' = result, phase' # "start", phase' = "done" => phase = "done"
      PROVE  FInv'
  <2>1. Kinds' = Kinds /\ Hits' = Hits
    BY <1>1, <1>2, <1>3, SameHits
  <2>2. \A f, d, h : Kept(f, d, h)' <=> Kept(f, d, h)
    BY DEF Kept, Minor, MaxSeverity
  <2> QED  BY <1>2, <1>3, <2>1, <2>2 DEF FInv
<1>4. CASE Start
  <2>1. /\ phase = "start" /\ log' = log /\ opts' = opts /\ result' = result /\ phase' # "start"
        /\ phase' = "done" => Discovers
    BY <1>4 DEF Start, Unscanned
  <2>2. Kinds' = Kinds /\ Hits' = Hits
    BY <1>1, <1>2, <2>1, SameHits
  <2>3. phase' = "done" => Kept(result.found, result.dropped, Hits)
    <3>1. Discovers => log \in {"waf", "s3"}
      BY DEF Discovers
    <3>2. phase' = "done" => Hits = {} /\ result.found = {} /\ result.dropped = 0
      BY <2>1, <3>1, NoHits DEF FInv
    <3>3. Kept({}, 0, {})
      <4>1. Cardinality({}) = 0 /\ Minor({}) = {} /\ MaxFindings \in Nat
        BY FS_EmptySet, TypedAssumption DEF Minor
      <4>2. {} \ {} = {}
        OBVIOUS
      <4> QED  BY <4>1, <4>2 DEF Kept
    <3> QED  BY <3>2, <3>3
  <2> QED  BY <1>2, <2>1, <2>2, <2>3 DEF FInv
<1>5. CASE DiscoveryFails \/ Cancelled \/ ProbeFails \/ ScanReturns
  BY <1>3, <1>5 DEF DiscoveryFails, Cancelled, ProbeFails, ScanReturns, Unscanned
<1>6. ASSUME NEW w \in Worker, NEW o \in todo, Fetch(w, o) PROVE FInv'
  BY <1>3, <1>6 DEF Fetch
<1>7. CASE MergeShard
  <2>1. phase' = "merge" /\ log' = log /\ opts' = opts
    BY SMTT(40), <1>7 DEF MergeShard
  <2>2. PICK s : result' = [result EXCEPT !.records = @ + records[next], !.parts = [k \in Kinds |->
         LET p == @[k]  q == shard[next][k]  all == p.matches \o q.matches IN
         [summary |-> s[k], matched |-> p.matched + q.matched, connsRead |-> p.connsRead + q.connsRead,
          matches |-> IF k = "trail" THEN SubSeq(all, 1, Min({Len(all), MaxEvents})) ELSE all]]]
    BY <1>7 DEF MergeShard
  <2>3. "parts" \in DOMAIN result
    BY DEF IInv, Shapes
  <2>4. \A k \in Kinds : "summary" \in DOMAIN result'.parts[k]
    BY <2>2, <2>3
  <2> QED  BY <1>1, <2>1, <2>4 DEF FInv
<1>8. CASE Finish
  <2>1. phase' = "done" /\ log' = log /\ opts' = opts
    BY <1>8 DEF Finish
  <2>2. PICK f \in capped(Hits, MaxFindings, TextRank) :
          /\ result'.found = f.found /\ result'.dropped = f.dropped
          /\ result'.parts = [k \in Kinds |-> [result.parts[k] EXCEPT !.matches = earliest(@, MaxEvents)]]
    BY <1>8 DEF Finish
  <2>3. \A k \in Kinds : /\ DOMAIN result'.parts[k] = DOMAIN result.parts[k]
                         /\ result'.parts[k].summary = result.parts[k].summary
    BY <1>2, <2>2
  <2>4. Kinds' = Kinds /\ Hits' = Hits
    BY <1>1, <1>2, <2>1, <2>3, SameHits
  <2>5. Kept(f.found, f.dropped, Hits)
    BY HitSeverities, CapKeeps
  <2> QED  BY <1>2, <2>1, <2>2, <2>3, <2>4, <2>5 DEF FInv
<1>9. CASE Stop \/ UNCHANGED vars
  <2>1. /\ log' = log /\ opts' = opts /\ result' = result /\ phase' = phase
    BY <1>9 DEF Stop, vars
  <2>2. Kinds' = Kinds /\ Hits' = Hits /\ \A k : Empty(k)' = Empty(k)
    BY <1>1, <1>2, <2>1, SameHits
  <2> QED  BY <2>1, <2>2 DEF FInv
<1> QED  BY <1>4, <1>5, <1>6, <1>7, <1>8, <1>9 DEF Next

\* The findings of a finished run are hits of its summary and it tells how many it
\* dropped; none of those is CRITICAL or more severe than one that is kept. When the
\* hits are finitely many, at most MaxFindings lesser ones are kept, and what --fail-on
\* looks at is the worst of all hits, dropped ones included.
THEOREM FindingsAreKept == Spec => [](Done => Kept(result.found, result.dropped, Hits))
<1>1. Init => IInv /\ FInv
  BY Opening, OpeningFinds
<1>2. IInv /\ FInv /\ [Next]_vars => (IInv /\ FInv)'
  BY StepKeeps, StepFinds
<1>3. FInv => (Done => Kept(result.found, result.dropped, Hits))
  BY DEF FInv, Done
<1> QED  BY <1>1, <1>2, <1>3, PTL DEF Spec

-----------------------------------------------------------------------------
(*****************************************************************************)
(* The entries of the lines, and what the summaries of a run hold of them.   *)
(*****************************************************************************)

\* The entries of the lines P, all entries of a run, and those of kind k.
EntriesAt(P) == {EntryAt(p) : p \in P}
AllEntries == EntriesAt(GoodLines)
Ground(k) == {e \in AllEntries : kindOf(e) = k}

\* Of the entries E those of kind k that match, and those that are summed up.
Matching(k, E) == {e \in E : kindOf(e) = k /\ Match(e)}
statusRow(e) == kindOf(e) = "vpc" /\ ~IsFlow(e) /\ InTime(opts.filter, e)
Summed(k, E) == {e \in E : kindOf(e) = k /\ (Match(e) \/ statusRow(e))}

\* A good line is a line of its log that parses.
LEMMA GoodLine ==
  ASSUME log \in DOMAIN Objects, NEW p \in GoodLines
  PROVE  \E o, i :
           o \in Objects[log] /\ i \in DOMAIN o.lines /\ p = <<o, i>> /\ Keep(o) /\ Parses(o, o.lines[i]) /\ EntryAt(p) = Entry(o, o.lines[i]) /\ o \in InRun
<1>1. PICK o \in InRun : p \in {o} \X decode(o)
  BY DEF GoodLines
<1>2. PICK i \in decode(o) : p = <<o, i>>
  BY <1>1
<1>3. i \in Good(o) /\ o \in Objects[log] /\ Keep(o)
  BY <1>2, ObjectFacts DEF InRun
<1>4. i \in DOMAIN o.lines /\ Parses(o, o.lines[i])
  BY <1>3 DEF Good
<1>5. EntryAt(p) = Entry(o, o.lines[i])
  BY <1>2 DEF EntryAt
<1> QED  BY <1>1, <1>2, <1>3, <1>4, <1>5

\* No two good lines make an entry with one id.
LEMMA EntriesApart ==
  ASSUME log \in DOMAIN Objects, NEW p \in GoodLines, NEW q \in GoodLines, EntryAt(p).id = EntryAt(q).id
  PROVE  p = q
<1>1. PICK o, i : o \in Objects[log] /\ i \in DOMAIN o.lines /\ p = <<o, i>> /\ EntryAt(p) = Entry(o, o.lines[i]) /\ o \in InRun
  BY GoodLine
<1>2. PICK r, j : r \in Objects[log] /\ j \in DOMAIN r.lines /\ q = <<r, j>> /\ EntryAt(q) = Entry(r, r.lines[j]) /\ r \in InRun
  BY GoodLine
<1>3. PICK l, m : l = o.lines[i] /\ m = r.lines[j]
  OBVIOUS
<1>4. Entry(o, l).id = l.id /\ Entry(r, m).id = m.id
  BY EntryIds
<1>5. l.id = m.id
  BY <1>1, <1>2, <1>3, <1>4
<1>6. \A x, y \in InRun : \A h \in DOMAIN x.lines, g \in DOMAIN y.lines :
        x.lines[h].id = y.lines[g].id => x = y /\ h = g
  BY ObjectFacts
<1>7. o = r /\ i = j
  BY <1>1, <1>2, <1>3, <1>5, <1>6
<1> QED  BY <1>1, <1>2, <1>7

\* So all entries are finitely many, and tell themselves apart by their ids.
LEMMA OwnEntries ==
  ASSUME log \in DOMAIN Objects
  PROVE  /\ IsFiniteSet(AllEntries) /\ OwnIds(AllEntries)
         /\ \A k : IsFiniteSet(Ground(k)) /\ OwnIds(Ground(k)) /\ Ground(k) \subseteq AllEntries
<1>1. IsFiniteSet(GoodLines)
  <2>1. PICK by : by = [o \in InRun |-> 1]
    OBVIOUS
  <2>2. DOMAIN by \subseteq InRun
    BY <2>1
  <2>3. Lines(by, {1}) = GoodLines
    BY <2>1 DEF Lines, GoodLines
  <2> QED  BY <2>2, <2>3, LinesFacts
<1>2. IsFiniteSet(AllEntries)
  <2>1. PICK f : f = [p \in GoodLines |-> EntryAt(p)]
    OBVIOUS
  <2>2. f \in Surjection(GoodLines, AllEntries)
    BY <2>1 DEF Surjection, AllEntries, EntriesAt
  <2> QED  BY <1>1, <2>2, FS_Surjection
<1>3. OwnIds(AllEntries)
  BY EntriesApart DEF OwnIds, AllEntries, EntriesAt
<1>4. ASSUME NEW k PROVE IsFiniteSet(Ground(k)) /\ OwnIds(Ground(k)) /\ Ground(k) \subseteq AllEntries
  <2>1. Ground(k) \in SUBSET AllEntries
    BY DEF Ground
  <2> QED  BY <1>2, <1>3, <2>1, FS_Subset DEF OwnIds
<1> QED  BY <1>2, <1>3, <1>4

\* A text is a whole number or has none.
LEMMA NumberIs == \A s, u : u \in Int => number(s, u) \in Int
BY LogsAssumption DEF number

\* A sequence is a list.
LEMMA SequenceIs == \A s : IsSequence(s) => IsList(s)
BY DEF IsSequence, ToSet, IsList

\* The entries of each kind are as the log has them.
LEMMA ElbFits ==
  ASSUME log = "elb", NEW e \in AllEntries
  PROVE  /\ e.time \in Nat /\ e.time > 0 /\ e.targetTime \in Int /\ e.latency \in Int /\ e.received \in Int
         /\ e.sent \in Int /\ e.handshake \in Int
<1>0. log \in DOMAIN Objects
  BY TypedAssumption
<1>1. PICK p \in GoodLines : e = EntryAt(p)
  BY DEF AllEntries, EntriesAt
<1>2. PICK o, i : o \in Objects[log] /\ i \in DOMAIN o.lines /\ Keep(o) /\ Parses(o, o.lines[i]) /\ EntryAt(p) = Entry(o, o.lines[i])
  BY <1>0, GoodLine
<1>3. PICK l : l = o.lines[i]
  OBVIOUS
<1>4. o \in Objects.elb /\ o.fmt # "" /\ elbParses(o.fmt, l) /\ e = EntryOf(o.fmt, l)
  BY <1>1, <1>2, <1>3 DEF Keep, elbKeep, Parses, Entry
<1>5. e.time \in Nat \ {0}
  <2>1. \A x \in Objects.elb : x.fmt # "" => \A j \in DOMAIN x.lines :
          elbParses(x.fmt, x.lines[j]) => EntryOf(x.fmt, x.lines[j]).time \in Nat \ {0}
    BY LogsAssumption
  <2>2. EntryOf(o.fmt, o.lines[i]).time \in Nat \ {0}
    BY <1>2, <1>3, <1>4, <2>1, Zenon
  <2> QED  BY <1>3, <1>4, <2>2
<1>6. \A s : seconds(s) \in Int /\ millis(s) \in Int
  <2>1. \A t \in DOMAIN Number : Number[t] \in Int
    BY LogsAssumption, ZenonT(30)
  <2> QED  BY <2>1 DEF seconds, millis
<1>7. \A a, b, c \in Int : sumLatency(a, b, c) \in Int
  BY DEF sumLatency
<1>8. \A f, x : /\ EntryOf(f, x).targetTime \in Int /\ EntryOf(f, x).handshake \in Int
                /\ EntryOf(f, x).received \in Int /\ EntryOf(f, x).sent \in Int
  BY <1>6, NumberIs DEF EntryOf
<1>9. e.latency \in Int
  <2>1. PICK a, b, c : a = seconds(at(Field[o.fmt], l, "requestTime")) /\ b = seconds(at(Field[o.fmt], l, "targetTime"))
                       /\ c = seconds(at(Field[o.fmt], l, "responseTime"))
    OBVIOUS
  <2>2. a \in Int /\ b \in Int /\ c \in Int
    BY <1>6, <2>1
  <2>3. sumLatency(a, b, c) \in Int
    BY <1>7, <2>2
  <2>4. e.latency = CASE o.fmt \in {"alb", "classic"} -> sumLatency(a, b, c)
                      [] o.fmt = "nlb" -> millis(at(Field[o.fmt], l, "connTime")) [] OTHER -> -1
    BY <1>4, <2>1, Zenon DEF EntryOf
  <2>5. millis(at(Field[o.fmt], l, "connTime")) \in Int
    BY <1>6
  <2>6. PICK d : d = millis(at(Field[o.fmt], l, "connTime"))
    OBVIOUS
  <2>7. e.latency = sumLatency(a, b, c) \/ e.latency = d \/ e.latency = -1
    BY <2>4, <2>6
  <2> QED  BY <2>3, <2>5, <2>6, <2>7
<1>10. e.targetTime \in Int /\ e.handshake \in Int /\ e.received \in Int /\ e.sent \in Int
  BY <1>4, <1>8, Zenon
<1>11. e.time \in Nat /\ e.time > 0
  BY <1>5
<1> QED  BY <1>9, <1>10, <1>11

\* Those of a web ACL.
LEMMA WafFits ==
  ASSUME log = "waf", NEW e \in AllEntries
  PROVE  e.time \in Nat /\ e.time > 0 /\ IsList(e.labels) /\ IsList(e.countRules) /\ OneEach(e.countRules)
<1>0. log \in DOMAIN Objects
  BY TypedAssumption
<1>1. PICK p \in GoodLines : e = EntryAt(p)
  BY DEF AllEntries, EntriesAt
<1>2. PICK o, i : o \in Objects[log] /\ i \in DOMAIN o.lines /\ Parses(o, o.lines[i]) /\ EntryAt(p) = Entry(o, o.lines[i])
  BY <1>0, GoodLine
<1>3. PICK l : l = o.lines[i]
  OBVIOUS
<1>4. wafParses(l) /\ e = wafEntry(l)
  BY <1>1, <1>2, <1>3 DEF Parses, Entry
<1>5. l \in LinesOfLog("waf")
  BY <1>2, <1>3 DEF LinesOfLog
<1>6. /\ l.time \in Nat /\ IsSequence(l.labels) /\ IsSequence(l.matched) /\ IsSequence(l.groups)
      /\ \A j \in DOMAIN l.groups : IsSequence(l.groups[j].matched) /\ IsSequence(l.groups[j].excluded)
  BY <1>5, LogsAssumption
<1>7. WafLine(l)
  BY <1>6, SequenceIs DEF WafLine
<1>8. IsList(countRules(l)) /\ OneEach(countRules(l)) /\ IsList(Named(l.labels))
  <2>1. IsList(l.labels)
    BY <1>7 DEF WafLine
  <2> QED  BY <1>7, <2>1, CountRulesAre, NamedIs
<1>9. e.time = l.time /\ e.labels = Named(l.labels) /\ e.countRules = countRules(l) /\ l.time # 0
  BY <1>4 DEF wafEntry, wafParses
<1> QED  BY <1>6, <1>8, <1>9

\* Those of S3.
LEMMA S3Fits ==
  ASSUME log = "s3", NEW e \in AllEntries
  PROVE  e.time \in Nat /\ e.time > 0 /\ e.sent \in Int /\ e.status \in Int
<1>0. log \in DOMAIN Objects
  BY TypedAssumption
<1>1. PICK p \in GoodLines : e = EntryAt(p)
  BY DEF AllEntries, EntriesAt
<1>2. PICK o, i : o \in Objects[log] /\ i \in DOMAIN o.lines /\ Parses(o, o.lines[i]) /\ EntryAt(p) = Entry(o, o.lines[i])
  BY <1>0, GoodLine
<1>3. PICK l : l = o.lines[i]
  OBVIOUS
<1>4. s3Parses(l) /\ e = s3Entry(l) /\ l \in LinesOfLog("s3")
  BY <1>1, <1>2, <1>3 DEF Parses, Entry, LinesOfLog
<1>5. Number[Raw(l, "time")] \in Nat \ {0}
  BY <1>4, LogsAssumption
<1>6. e.time = Number[Raw(l, "time")] /\ e.sent \in Int /\ e.status \in Int
  BY <1>4, NumberIs DEF s3Entry
<1> QED  BY <1>5, <1>6

\* Those of CloudTrail.
LEMMA TrailFits ==
  ASSUME log = "trail", NEW e \in AllEntries
  PROVE  e.time \in Nat
<1>0. log \in DOMAIN Objects
  BY TypedAssumption
<1>1. PICK p \in GoodLines : e = EntryAt(p)
  BY DEF AllEntries, EntriesAt
<1>2. PICK o, i : o \in Objects[log] /\ i \in DOMAIN o.lines /\ EntryAt(p) = Entry(o, o.lines[i])
  BY <1>0, GoodLine
<1>3. e = o.lines[i] /\ e \in LinesOfLog("trail")
  BY <1>1, <1>2 DEF Entry, LinesOfLog
<1> QED  BY <1>3, LogsAssumption

\* Those of flow logs.
LEMMA VpcFits ==
  ASSUME log = "vpc"
  PROVE  VpcTyped(AllEntries)
<1> SUFFICES ASSUME NEW e \in AllEntries PROVE e.time \in Nat /\ e.bytes \in Nat /\ e.packets \in Int
  BY DEF VpcTyped
<1>0. log \in DOMAIN Objects
  BY TypedAssumption
<1>1. PICK p \in GoodLines : e = EntryAt(p)
  BY DEF AllEntries, EntriesAt
<1>2. PICK o, i : o \in Objects[log] /\ i \in DOMAIN o.lines /\ Parses(o, o.lines[i]) /\ EntryAt(p) = Entry(o, o.lines[i])
  BY <1>0, GoodLine
<1>3. PICK l : l = o.lines[i]
  OBVIOUS
<1>4. o \in Objects.vpc /\ headerParses(o.header) /\ vpcParses(o.header, l) /\ e = vpcEntry(o.header, l)
  BY <1>1, <1>2, <1>3 DEF Parses, Entry
<1>5. e.time \in Nat /\ e.bytes \in Nat
  <2>1. \A x \in Objects.vpc : \A j \in DOMAIN x.lines :
          headerParses(x.header) /\ vpcParses(x.header, x.lines[j]) =>
            vpcEntry(x.header, x.lines[j]).time \in Nat /\ vpcEntry(x.header, x.lines[j]).bytes \in Nat
    BY LogsAssumption
  <2>2. vpcEntry(o.header, o.lines[i]).time \in Nat /\ vpcEntry(o.header, o.lines[i]).bytes \in Nat
    BY <1>2, <1>3, <1>4, <2>1, Zenon
  <2> QED  BY <1>3, <1>4, <2>2
<1>6. e.packets \in Int
  <2>1. \E t : e.packets = number(t, 0)
    BY <1>4, Zenon DEF vpcEntry
  <2>2. 0 \in Int
    OBVIOUS
  <2> QED  BY <2>1, <2>2, NumberIs
<1> QED  BY <1>5, <1>6

\* Every entry has a time.
LEMMA TimesAre ==
  ASSUME log \in DOMAIN Objects
  PROVE  \A e \in AllEntries : e.time \in Nat
<1>1. log \in {"elb", "waf", "s3", "trail", "vpc"}
  BY TypedAssumption
<1> QED  BY <1>1, ElbFits, WafFits, S3Fits, TrailFits, VpcFits DEF VpcTyped

\* The summary s of kind k is that of its entries S.
SummaryIs(k, s, S) ==
  CASE k = "elb" -> ElbRep(s, S, Ground(k)) [] k = "conn" -> ConnRep(s, S, Ground(k)) [] k = "waf" -> WafRep(s, S, Ground(k))
    [] k = "s3" -> S3Rep(s, S, Ground(k)) [] k = "trail" -> TrailRep(s, S, Ground(k)) [] k = "vpc" -> VpcRep(s, S, Ground(k))
Put(k, s, e) == IF k = "vpc" THEN vpcPut(s, e) ELSE AddTo(k, s, e)

\* A merged summary has no more access changes than the rules look at.
ChangesCut(k, s) == k = "s3" => Len(s.AccessChanges) <= S3MaxAccessChanges

\* The kinds of each log.
LEMMA KindsAre ==
  ASSUME log \in DOMAIN Objects, NEW k \in Kinds
  PROVE  /\ k \in {"elb", "conn", "waf", "s3", "trail", "vpc"}
         /\ (k \in {"elb", "conn"} => log = "elb") /\ (k \notin {"elb", "conn"} => log = k)
BY TypedAssumption DEF Kinds

\* The entries of each kind are typed.
LEMMA GroundFits ==
  ASSUME log \in DOMAIN Objects, NEW k \in Kinds, NEW U, U = Ground(k)
  PROVE  /\ IsFiniteSet(U) /\ OwnIds(U)
         /\ k = "elb" => \A e \in U : e.time \in Nat /\ e.time > 0 /\ e.targetTime \in Int /\ e.latency \in Int
                                      /\ e.received \in Int /\ e.sent \in Int
         /\ k = "conn" => \A e \in U : e.time \in Nat /\ e.time > 0 /\ e.handshake \in Int
         /\ k = "waf" => \A e \in U : e.time \in Nat /\ e.time > 0 /\ IsList(e.labels) /\ IsList(e.countRules)
         /\ k = "s3" => \A e \in U : e.time \in Nat /\ e.time > 0 /\ e.sent \in Int
         /\ k = "trail" => \A e \in U : e.time \in Nat
         /\ k = "vpc" => VpcTyped(U)
<1>1. IsFiniteSet(U) /\ OwnIds(U) /\ U \subseteq AllEntries
  BY OwnEntries
<1>2. (k \in {"elb", "conn"} => log = "elb") /\ (k \notin {"elb", "conn"} => log = k)
  BY KindsAre
<1>3. k \in {"elb", "conn"} => \A e \in U : /\ e.time \in Nat /\ e.time > 0 /\ e.targetTime \in Int /\ e.latency \in Int
                                            /\ e.received \in Int /\ e.sent \in Int /\ e.handshake \in Int
  BY <1>1, <1>2, ElbFits
<1>4. k = "waf" => \A e \in U : e.time \in Nat /\ e.time > 0 /\ IsList(e.labels) /\ IsList(e.countRules)
  BY <1>1, <1>2, WafFits
<1>5. k = "s3" => \A e \in U : e.time \in Nat /\ e.time > 0 /\ e.sent \in Int
  BY <1>1, <1>2, S3Fits
<1>6. k = "trail" => \A e \in U : e.time \in Nat
  BY <1>1, <1>2, TrailFits
<1>7. k = "vpc" => VpcTyped(U)
  BY <1>1, <1>2, VpcFits DEF VpcTyped
<1> QED  BY <1>1, <1>3, <1>4, <1>5, <1>6, <1>7

\* An empty summary is that of no entries.
LEMMA KindStart ==
  ASSUME log \in DOMAIN Objects, NEW k \in Kinds
  PROVE  SummaryIs(k, Empty(k), {}) /\ ChangesCut(k, Empty(k))
<1>1. PICK U : U = Ground(k)
  OBVIOUS
<1>2. IsFiniteSet(U) /\ OwnIds(U)
  BY <1>1, GroundFits
<1>3. CASE k = "elb"
  <2>1. ElbRep(NewELBSummary, {}, U)
    BY <1>1, <1>2, <1>3, GroundFits, ElbRules
  <2> QED  BY <1>1, <1>3, <2>1 DEF SummaryIs, Empty, ChangesCut
<1>4. CASE k = "conn"
  <2>1. ConnRep(NewConnSummary, {}, U)
    BY <1>1, <1>2, <1>4, GroundFits, ConnRules
  <2> QED  BY <1>1, <1>4, <2>1 DEF SummaryIs, Empty, ChangesCut
<1>5. CASE k = "waf"
  <2>1. WafRep(NewWAFSummary, {}, U)
    BY <1>1, <1>2, <1>5, GroundFits, WafRules
  <2> QED  BY <1>1, <1>5, <2>1 DEF SummaryIs, Empty, ChangesCut
<1>6. CASE k = "s3"
  <2>1. S3Rep(NewS3Summary, {}, U)
    BY <1>1, <1>2, <1>6, GroundFits, S3Rules
  <2>2. Empty(k) = NewS3Summary
    BY <1>6 DEF Empty
  <2>3. Len(NewS3Summary.AccessChanges) <= S3MaxAccessChanges
    <3>1. NewS3Summary.AccessChanges = <<>>
      BY DEF NewS3Summary
    <3>2. Len(<<>>) = 0
      OBVIOUS
    <3> QED  BY <3>1, <3>2, S3CapsAssumption
  <2> QED  BY <1>1, <1>6, <2>1, <2>2, <2>3 DEF SummaryIs, ChangesCut
<1>7. CASE k = "trail"
  <2>1. TrailRep(NewSummary, {}, U)
    BY <1>1, <1>2, <1>7, GroundFits, TrailRules
  <2> QED  BY <1>1, <1>7, <2>1 DEF SummaryIs, Empty, ChangesCut
<1>8. CASE k = "vpc"
  <2>1. VpcRep(NewVPCSummary, {}, U)
    BY <1>1, <1>2, <1>8, GroundFits, VpcRules
  <2> QED  BY <1>1, <1>8, <2>1 DEF SummaryIs, Empty, ChangesCut
<1> QED  BY <1>3, <1>4, <1>5, <1>6, <1>7, <1>8, KindsAre

\* An entry more.
LEMMA KindAdd ==
  ASSUME log \in DOMAIN Objects, NEW k \in Kinds, NEW S \in SUBSET Ground(k), NEW e \in Ground(k), e \notin S,
         NEW s, SummaryIs(k, s, S)
  PROVE  SummaryIs(k, Put(k, s, e), S \cup {e})
<1>1. PICK U : U = Ground(k)
  OBVIOUS
<1>2. IsFiniteSet(U) /\ OwnIds(U) /\ S \in SUBSET U /\ e \in U
  BY <1>1, GroundFits
<1>3. CASE k = "elb"
  <2>1. ElbRep(s, S, U)
    BY <1>1, <1>3 DEF SummaryIs
  <2>2. ElbRep(elbAdd(s, e), S \cup {e}, U)
    BY <1>1, <1>2, <1>3, <2>1, GroundFits, ElbRules
  <2> QED  BY <1>1, <1>3, <2>2 DEF SummaryIs, Put, AddTo
<1>4. CASE k = "conn"
  <2>1. ConnRep(s, S, U)
    BY <1>1, <1>4 DEF SummaryIs
  <2>2. ConnRep(connAdd(s, e), S \cup {e}, U)
    BY <1>1, <1>2, <1>4, <2>1, GroundFits, ConnRules
  <2> QED  BY <1>1, <1>4, <2>2 DEF SummaryIs, Put, AddTo
<1>5. CASE k = "waf"
  <2>1. WafRep(s, S, U)
    BY <1>1, <1>5 DEF SummaryIs
  <2>2. WafRep(wafAdd(s, e), S \cup {e}, U)
    BY <1>1, <1>2, <1>5, <2>1, GroundFits, WafRules
  <2> QED  BY <1>1, <1>5, <2>2 DEF SummaryIs, Put, AddTo
<1>6. CASE k = "s3"
  <2>1. S3Rep(s, S, U)
    BY <1>1, <1>6 DEF SummaryIs
  <2>2. S3Rep(s3Add(s, e), S \cup {e}, U)
    BY <1>1, <1>2, <1>6, <2>1, GroundFits, S3Rules
  <2> QED  BY <1>1, <1>6, <2>2 DEF SummaryIs, Put, AddTo
<1>7. CASE k = "trail"
  <2>1. TrailRep(s, S, U)
    BY <1>1, <1>7 DEF SummaryIs
  <2>2. TrailRep(trailAdd(s, e), S \cup {e}, U)
    BY <1>1, <1>2, <1>7, <2>1, GroundFits, TrailRules
  <2> QED  BY <1>1, <1>7, <2>2 DEF SummaryIs, Put, AddTo
<1>8. CASE k = "vpc"
  <2>1. VpcRep(s, S, U)
    BY <1>1, <1>8 DEF SummaryIs
  <2>2. VpcRep(vpcPut(s, e), S \cup {e}, U)
    BY <1>1, <1>2, <1>8, <2>1, GroundFits, VpcRules
  <2> QED  BY <1>1, <1>8, <2>2 DEF SummaryIs, Put
<1> QED  BY <1>3, <1>4, <1>5, <1>6, <1>7, <1>8, KindsAre

\* Two summaries of different entries.
LEMMA KindMerge ==
  ASSUME log \in DOMAIN Objects, NEW k \in Kinds, NEW S \in SUBSET Ground(k), NEW T \in SUBSET Ground(k), S \cap T = {},
         NEW s, SummaryIs(k, s, S), NEW t, SummaryIs(k, t, T), NEW n \in Merged(k, s, t)
  PROVE  SummaryIs(k, n, S \cup T) /\ ChangesCut(k, n)
<1>1. PICK U : U = Ground(k)
  OBVIOUS
<1>2. IsFiniteSet(U) /\ OwnIds(U) /\ S \in SUBSET U /\ T \in SUBSET U
  BY <1>1, GroundFits
<1>3. CASE k = "elb"
  <2>1. ElbRep(s, S, U) /\ ElbRep(t, T, U) /\ n = elbMerge(s, t)
    BY <1>1, <1>3 DEF SummaryIs, Merged
  <2>2. ElbRep(n, S \cup T, U)
    BY <1>1, <1>2, <1>3, <2>1, GroundFits, ElbRules
  <2> QED  BY <1>1, <1>3, <2>2 DEF SummaryIs, ChangesCut
<1>4. CASE k = "conn"
  <2>1. ConnRep(s, S, U) /\ ConnRep(t, T, U) /\ n = connMerge(s, t)
    BY <1>1, <1>4 DEF SummaryIs, Merged
  <2>2. ConnRep(n, S \cup T, U)
    BY <1>1, <1>2, <1>4, <2>1, GroundFits, ConnRules
  <2> QED  BY <1>1, <1>4, <2>2 DEF SummaryIs, ChangesCut
<1>5. CASE k = "waf"
  <2>1. WafRep(s, S, U) /\ WafRep(t, T, U) /\ n = wafMerge(s, t)
    BY <1>1, <1>5 DEF SummaryIs, Merged
  <2>2. WafRep(n, S \cup T, U)
    BY <1>1, <1>2, <1>5, <2>1, GroundFits, WafRules
  <2> QED  BY <1>1, <1>5, <2>2 DEF SummaryIs, ChangesCut
<1>6. CASE k = "s3"
  <2>1. S3Rep(s, S, U) /\ S3Rep(t, T, U) /\ n \in s3Merge(s, t)
    BY <1>1, <1>6 DEF SummaryIs, Merged
  <2>2. S3Rep(n, S \cup T, U) /\ Len(n.AccessChanges) <= S3MaxAccessChanges
    BY <1>1, <1>2, <1>6, <2>1, GroundFits, S3Rules
  <2> QED  BY <1>1, <1>6, <2>2 DEF SummaryIs, ChangesCut
<1>7. CASE k = "trail"
  <2>1. TrailRep(s, S, U) /\ TrailRep(t, T, U) /\ n = trailMerge(s, t)
    BY <1>1, <1>7 DEF SummaryIs, Merged
  <2>2. TrailRep(n, S \cup T, U)
    BY <1>1, <1>2, <1>7, <2>1, GroundFits, TrailRules
  <2> QED  BY <1>1, <1>7, <2>2 DEF SummaryIs, ChangesCut
<1>8. CASE k = "vpc"
  <2>1. VpcRep(s, S, U) /\ VpcRep(t, T, U) /\ n \in vpcMerge(s, t)
    BY <1>1, <1>8 DEF SummaryIs, Merged
  <2>2. VpcRep(n, S \cup T, U)
    BY <1>1, <1>2, <1>8, <2>1, GroundFits, VpcRules
  <2> QED  BY <1>1, <1>8, <2>2 DEF SummaryIs, ChangesCut
<1> QED  BY <1>3, <1>4, <1>5, <1>6, <1>7, <1>8, KindsAre

\* The rows c are kept of the entries D: of CloudTrail the first that came.
RowsAre(k, c, D) == IF k = "trail" THEN FirstKept(c, D, MaxEvents) ELSE ListKept(c, D, MaxEvents)

\* A part is that of the entries E, and so are the parts of a shard.
PartFields == {"summary", "matches", "matched", "connsRead"}
PartIs(k, p, E) == /\ PartFields \subseteq DOMAIN p
                   /\ SummaryIs(k, p.summary, Summed(k, E)) /\ RowsAre(k, p.matches, Matching(k, E))
PartsAre(sh, E) == DOMAIN sh = Kinds /\ \A k \in Kinds : PartIs(k, sh[k], E)

\* What is kept of the cap.
LEMMA CapIsNat == MaxEvents \in Nat
BY TypedAssumption

\* Sets of entries.
LEMMA SetsOf ==
  ASSUME log \in DOMAIN Objects, NEW k, NEW E \in SUBSET AllEntries
  PROVE  /\ Summed(k, E) \in SUBSET Ground(k) /\ Matching(k, E) \in SUBSET AllEntries
         /\ IsFiniteSet(Matching(k, E)) /\ \A x \in Matching(k, E) : x.time \in Int
<1>1. Summed(k, E) \in SUBSET Ground(k) /\ Matching(k, E) \in SUBSET AllEntries
  BY DEF Summed, Matching, Ground
<1>2. IsFiniteSet(Matching(k, E))
  BY <1>1, OwnEntries, FS_Subset
<1>3. \A x \in Matching(k, E) : x.time \in Nat
  BY <1>1, TimesAre
<1> QED  BY <1>1, <1>2, <1>3

\* An empty part.
LEMMA PartStart ==
  ASSUME log \in DOMAIN Objects, NEW sh, sh = [k \in Kinds |-> NoPart(k)]
  PROVE  PartsAre(sh, {})
<1> SUFFICES ASSUME NEW k \in Kinds PROVE PartIs(k, NoPart(k), {})
  BY DEF PartsAre
<1>1. Summed(k, {}) = {} /\ Matching(k, {}) = {}
  BY DEF Summed, Matching
<1>2. PartFields \subseteq DOMAIN NoPart(k) /\ NoPart(k).summary = Empty(k) /\ NoPart(k).matches = <<>>
  BY DEF PartFields, NoPart
<1>3. SummaryIs(k, Empty(k), {})
  BY KindStart
<1>4. RowsAre(k, <<>>, {})
  BY NothingHeld, CapIsNat DEF RowsAre
<1> QED  BY <1>1, <1>2, <1>3, <1>4 DEF PartIs

\* A row more.
LEMMA RowsMore ==
  ASSUME log \in DOMAIN Objects, NEW k, NEW E \in SUBSET AllEntries, NEW c, RowsAre(k, c, Matching(k, E)),
         NEW x \in AllEntries, x \notin E
  PROVE  RowsAre(k, rows(k, c, x), Matching(k, E) \cup {x})
<1>1. PICK D : D = Matching(k, E)
  OBVIOUS
<1>2. IsFiniteSet(D) /\ x \notin D /\ (\A y \in D : y.time \in Int) /\ MaxEvents \in Nat
  BY <1>1, SetsOf, CapIsNat DEF Matching
<1>3. CASE k = "trail"
  <2>1. FirstKept(c, D, MaxEvents)
    BY <1>1, <1>3 DEF RowsAre
  <2>2. FirstKept(IF Len(c) < MaxEvents THEN Append(c, x) ELSE c, D \cup {x}, MaxEvents)
    BY <1>2, <2>1, FirstKeptMore
  <2> QED  BY <1>1, <1>3, <2>2 DEF RowsAre, rows
<1>4. CASE k # "trail"
  <2>1. ListKept(c, D, MaxEvents)
    BY <1>1, <1>4 DEF RowsAre
  <2>2. PICK m : m = Append(c, x)
    OBVIOUS
  <2>3. ListKept(m, D \cup {x}, MaxEvents)
    BY <1>2, <2>1, <2>2, ListKeptMore
  <2>4. rows(k, c, x) = IF Len(m) >= 2 * MaxEvents THEN earliest(m, MaxEvents) ELSE m
    BY <1>4, <2>2 DEF rows
  <2>5. \A y \in D \cup {x} : y.time \in Int
    <3>1. x.time \in Nat
      BY TimesAre
    <3> QED  BY <1>2, <3>1
  <2>6. ListKept(earliest(m, MaxEvents), D \cup {x}, MaxEvents)
    BY <1>2, <2>3, <2>5, ListKeptCut
  <2> QED  BY <1>1, <1>4, <2>3, <2>4, <2>6 DEF RowsAre
<1> QED  BY <1>3, <1>4

\* What an entry changes, and what not.
LEMMA SetsMore ==
  ASSUME NEW E, NEW e, NEW k
  PROVE  /\ kindOf(e) # k => Summed(k, E \cup {e}) = Summed(k, E) /\ Matching(k, E \cup {e}) = Matching(k, E)
         /\ kindOf(e) = k =>
              /\ Matching(k, E \cup {e}) = IF Match(e) THEN Matching(k, E) \cup {e} ELSE Matching(k, E)
              /\ Summed(k, E \cup {e}) = IF Match(e) \/ statusRow(e) THEN Summed(k, E) \cup {e} ELSE Summed(k, E)
<1>1. ASSUME kindOf(e) # k PROVE Summed(k, E \cup {e}) = Summed(k, E) /\ Matching(k, E \cup {e}) = Matching(k, E)
  BY <1>1 DEF Summed, Matching
<1>2. ASSUME kindOf(e) = k
      PROVE  /\ Matching(k, E \cup {e}) = IF Match(e) THEN Matching(k, E) \cup {e} ELSE Matching(k, E)
             /\ Summed(k, E \cup {e}) = IF Match(e) \/ statusRow(e) THEN Summed(k, E) \cup {e} ELSE Summed(k, E)
  BY <1>2 DEF Summed, Matching
<1> QED  BY <1>1, <1>2

\* A part with an entry more.
LEMMA PartMore ==
  ASSUME log \in DOMAIN Objects, NEW E \in SUBSET AllEntries, NEW e \in AllEntries, e \notin E,
         NEW k \in Kinds, k = kindOf(e), NEW p, PartIs(k, p, E),
         NEW counted, counted = [p EXCEPT !.connsRead = @ + One(k = "conn")]
  PROVE  PartIs(k, IF k = "vpc" /\ ~IsFlow(e)
                   THEN IF InTime(opts.filter, e) THEN [p EXCEPT !.summary = AddStatus(@, e)] ELSE p
                   ELSE IF ~Match(e) THEN counted
                   ELSE [counted EXCEPT !.matched = @ + 1, !.summary = AddTo(k, @, e), !.matches = rows(k, @, e)], E \cup {e})
<1>1. PICK S, M, s, m : S = Summed(k, E) /\ M = Matching(k, E) /\ s = p.summary /\ m = p.matches
  OBVIOUS
<1>2. /\ PartFields \subseteq DOMAIN p /\ SummaryIs(k, s, S) /\ RowsAre(k, m, M)
      /\ S \in SUBSET Ground(k) /\ e \in Ground(k) /\ e \notin S
  <2>1. e \notin S
    BY <1>1 DEF Summed
  <2>2. e \in Ground(k)
    BY DEF Ground
  <2>3. S \in SUBSET Ground(k)
    BY <1>1, SetsOf
  <2> QED  BY <1>1, <2>1, <2>2, <2>3 DEF PartIs
<1>3. /\ Matching(k, E \cup {e}) = IF Match(e) THEN M \cup {e} ELSE M
      /\ Summed(k, E \cup {e}) = IF Match(e) \/ statusRow(e) THEN S \cup {e} ELSE S
  BY <1>1, SetsMore
<1>4. SummaryIs(k, Put(k, s, e), S \cup {e})
  BY <1>2, KindAdd
<1>5. {"summary", "matches", "matched", "connsRead"} \subseteq DOMAIN p
  BY <1>2 DEF PartFields
<1>6. CASE k = "vpc" /\ ~IsFlow(e)
  <2>1. ~Match(e) /\ (statusRow(e) <=> InTime(opts.filter, e))
    BY <1>6 DEF Match, statusRow
  <2>2. CASE InTime(opts.filter, e)
    <3>1. PICK q : q = [p EXCEPT !.summary = AddStatus(@, e)]
      OBVIOUS
    <3>2. q.summary = AddStatus(s, e) /\ q.matches = m /\ DOMAIN q = DOMAIN p
      BY <1>1, <1>5, <3>1
    <3>3. Put(k, s, e) = AddStatus(s, e)
      BY <1>6 DEF Put, vpcPut
    <3>4. PartIs(k, q, E \cup {e})
      BY <1>2, <1>3, <1>4, <2>1, <2>2, <3>2, <3>3 DEF PartIs
    <3> QED  BY <1>6, <2>2, <3>1, <3>4
  <2>3. CASE ~InTime(opts.filter, e)
    <3>1. PartIs(k, p, E \cup {e})
      BY <1>1, <1>2, <1>3, <2>1, <2>3 DEF PartIs
    <3> QED  BY <1>6, <2>3, <3>1
  <2> QED  BY <2>2, <2>3
<1>7. CASE ~(k = "vpc" /\ ~IsFlow(e))
  <2>1. ~statusRow(e)
    BY <1>7 DEF statusRow
  <2>2. counted.summary = s /\ counted.matches = m /\ DOMAIN counted = DOMAIN p
    BY <1>1, <1>5
  <2>3. CASE ~Match(e)
    <3>1. PartIs(k, counted, E \cup {e})
      BY <1>2, <1>3, <2>1, <2>2, <2>3 DEF PartIs
    <3> QED  BY <1>7, <2>3, <3>1
  <2>4. CASE Match(e)
    <3>1. PICK q : q = [counted EXCEPT !.matched = @ + 1, !.summary = AddTo(k, @, e), !.matches = rows(k, @, e)]
      OBVIOUS
    <3>2. q.summary = AddTo(k, s, e) /\ q.matches = rows(k, m, e) /\ DOMAIN q = DOMAIN p
      BY <1>5, <2>2, <3>1
    <3>3. Put(k, s, e) = AddTo(k, s, e)
      BY <1>7 DEF Put, vpcPut, AddTo
    <3>4. RowsAre(k, rows(k, m, e), M \cup {e})
      BY <1>1, <1>2, RowsMore
    <3>5. PartIs(k, q, E \cup {e})
      BY <1>2, <1>3, <1>4, <2>4, <3>2, <3>3, <3>4 DEF PartIs
    <3> QED  BY <1>7, <2>4, <3>1, <3>5
  <2> QED  BY <2>3, <2>4
<1> QED  BY <1>6, <1>7

\* A visit adds its entry to the parts.
LEMMA VisitAdds ==
  ASSUME log \in DOMAIN Objects, NEW E \in SUBSET AllEntries, NEW e \in AllEntries, e \notin E,
         NEW sh, PartsAre(sh, E)
  PROVE  PartsAre(visit(sh, e), E \cup {e})
<1>1. PICK k : k = kindOf(e)
  OBVIOUS
<1>2. k \in Kinds
  BY <1>1 DEF kindOf, Kinds
<1>3. PICK p : p = sh[k]
  OBVIOUS
<1>4. PICK counted : counted = [p EXCEPT !.connsRead = @ + One(k = "conn")]
  OBVIOUS
<1>5. PICK part : part = IF k = "vpc" /\ ~IsFlow(e)
                         THEN IF InTime(opts.filter, e) THEN [p EXCEPT !.summary = AddStatus(@, e)] ELSE p
                         ELSE IF ~Match(e) THEN counted
                         ELSE [counted EXCEPT !.matched = @ + 1, !.summary = AddTo(k, @, e), !.matches = rows(k, @, e)]
  OBVIOUS
<1>6. visit(sh, e) = [sh EXCEPT ![k] = part]
  BY <1>1, <1>3, <1>4, <1>5 DEF visit
<1>7. PartIs(k, p, E)
  BY <1>2, <1>3 DEF PartsAre
<1>8. PartIs(k, part, E \cup {e})
  BY <1>1, <1>2, <1>4, <1>5, <1>7, PartMore
<1>9. DOMAIN visit(sh, e) = Kinds /\ \A j \in Kinds : visit(sh, e)[j] = IF j = k THEN part ELSE sh[j]
  BY <1>2, <1>6 DEF PartsAre
<1>10. ASSUME NEW j \in Kinds, j # k PROVE PartIs(j, sh[j], E \cup {e})
  <2>1. PartIs(j, sh[j], E)
    BY DEF PartsAre
  <2>2. Summed(j, E \cup {e}) = Summed(j, E) /\ Matching(j, E \cup {e}) = Matching(j, E)
    BY <1>1, <1>10, SetsMore
  <2> QED  BY <2>1, <2>2 DEF PartIs
<1>11. ASSUME NEW j \in Kinds PROVE PartIs(j, visit(sh, e)[j], E \cup {e})
  BY <1>8, <1>9, <1>10
<1> QED  BY <1>9, <1>11 DEF PartsAre

\* The good lines of o.
LinesIn(o) == {o} \X decode(o)

\* A worker that visits an object adds its entries to the parts.
LEMMA VisitAllAdds ==
  ASSUME log \in DOMAIN Objects, NEW o \in InRun, NEW E \in SUBSET AllEntries, E \cap EntriesAt(LinesIn(o)) = {},
         NEW sh, PartsAre(sh, E)
  PROVE  PartsAre(visitAll(sh, o), E \cup EntriesAt(LinesIn(o)))
<1>1. PICK N : N = Len(o.lines)
  OBVIOUS
<1>2. N \in Nat /\ decode(o) \subseteq 1 .. N
  BY <1>1, ObjectFacts
<1>3. PICK f : Visits(f, sh, o, N) /\ visitAll(sh, o) = f[N]
  <2>1. \E f : Visits(f, sh, o, N)
    BY <1>2, UpToExists
  <2>2. visitAll(sh, o) = (CHOOSE f : Visits(f, sh, o, N))[N]
    BY <1>1 DEF visitAll, Visits
  <2> QED  BY <2>1, <2>2
<1>4. f[0] = sh
  BY <1>2, <1>3 DEF Visits
<1>5. ASSUME NEW n \in 0 .. N, n + 1 <= N
      PROVE  f[n + 1] = IF n + 1 \in decode(o) THEN visit(f[n], EntryAt(<<o, n + 1>>)) ELSE f[n]
  <2>1. n + 1 \in 0 .. N /\ n + 1 # 0 /\ (n + 1) - 1 = n
    BY <1>2, <1>5
  <2>2. EntryAt(<<o, n + 1>>) = Entry(o, o.lines[n + 1])
    BY DEF EntryAt
  <2> QED  BY <1>3, <2>1, <2>2 DEF Visits
<1> DEFINE Upto(n) == {o} \X {i \in decode(o) : i <= n}
           Q == {n \in Nat : n <= N => PartsAre(f[n], E \cup EntriesAt(Upto(n)))}
<1>6. 0 \in Q
  <2>1. Upto(0) = {}
    BY <1>2
  <2>2. E \cup EntriesAt(Upto(0)) = E
    BY <2>1 DEF EntriesAt
  <2> HIDE DEF Upto
  <2> QED  BY <1>4, <2>2
<1>7. ASSUME NEW n \in Nat, n \in Q PROVE n + 1 \in Q
  <2> SUFFICES ASSUME n + 1 <= N PROVE PartsAre(f[n + 1], E \cup EntriesAt(Upto(n + 1)))
    OBVIOUS
  <2>1. n \in 0 .. N /\ n <= N
    BY <1>2
  <2>2. PICK F : F = E \cup EntriesAt(Upto(n))
    OBVIOUS
  <2>3. PartsAre(f[n], F)
    BY <1>7, <2>1, <2>2
  <2>4. PICK e : e = EntryAt(<<o, n + 1>>)
    OBVIOUS
  <2>5. f[n + 1] = IF n + 1 \in decode(o) THEN visit(f[n], e) ELSE f[n]
    BY <1>5, <2>1, <2>4
  <2>6. Upto(n) \subseteq GoodLines /\ Upto(n) \subseteq LinesIn(o)
    BY DEF GoodLines, LinesIn
  <2>7. F \in SUBSET AllEntries
    BY <2>2, <2>6 DEF AllEntries, EntriesAt
  <2>8. CASE n + 1 \in decode(o)
    <3>1. Upto(n + 1) = Upto(n) \cup {<<o, n + 1>>}
      <4>1. \A i \in decode(o) : i <= n + 1 <=> i <= n \/ i = n + 1
        BY <1>2
      <4> QED  BY <2>8, <4>1
    <3>2. EntriesAt(Upto(n + 1)) = EntriesAt(Upto(n)) \cup {e}
      <4> HIDE DEF Upto
      <4> QED  BY <2>4, <3>1 DEF EntriesAt
    <3>3. <<o, n + 1>> \in GoodLines /\ <<o, n + 1>> \in LinesIn(o) /\ <<o, n + 1>> \notin Upto(n)
      <4>1. ~(n + 1 <= n)
        BY <2>1
      <4> QED  BY <2>8, <4>1 DEF GoodLines, LinesIn
    <3>4. e \in AllEntries
      BY <2>4, <3>3 DEF AllEntries, EntriesAt
    <3>5. e \notin F
      <4> HIDE DEF Upto
      <4>1. e \notin E
        BY <2>4, <3>3 DEF EntriesAt
      <4>2. ASSUME e \in EntriesAt(Upto(n)) PROVE FALSE
        <5>1. PICK q \in Upto(n) : e = EntryAt(q)
          BY <4>2 DEF EntriesAt
        <5>2. q \in GoodLines
          BY <2>6
        <5>3. q = <<o, n + 1>>
          <6>1. EntryAt(q).id = EntryAt(<<o, n + 1>>).id
            BY <2>4, <5>1
          <6> QED  BY <3>3, <5>2, <6>1, EntriesApart
        <5> QED  BY <3>3, <5>3
      <4> QED  BY <2>2, <4>1, <4>2
    <3> HIDE DEF Upto
    <3>6. PartsAre(visit(f[n], e), F \cup {e})
      BY <2>3, <2>7, <3>4, <3>5, VisitAdds
    <3>7. F \cup {e} = E \cup EntriesAt(Upto(n + 1))
      BY <2>2, <3>2
    <3> QED  BY <2>5, <2>8, <3>6, <3>7
  <2>9. CASE n + 1 \notin decode(o)
    <3>1. Upto(n + 1) = Upto(n)
      <4>1. \A i \in decode(o) : i <= n + 1 <=> i <= n
        BY <1>2, <2>9
      <4> QED  BY <4>1
    <3> HIDE DEF Upto
    <3> QED  BY <2>2, <2>3, <2>5, <2>9, <3>1
  <2> QED  BY <2>8, <2>9
<1>8. Upto(N) = LinesIn(o)
  <2>1. \A i \in decode(o) : i <= N
    BY <1>2
  <2> QED  BY <2>1 DEF LinesIn
<1> HIDE DEF Q, Upto
<1>9. N \in Q
  BY <1>2, <1>6, <1>7, EveryNumber
<1>10. PartsAre(f[N], E \cup EntriesAt(Upto(N)))
  <2>1. N <= N
    BY <1>2
  <2> QED  BY <1>9, <2>1 DEF Q
<1> QED  BY <1>3, <1>8, <1>10

-----------------------------------------------------------------------------
\* What two sets of lines make.
LEMMA SetsTogether ==
  ASSUME NEW k, NEW E, NEW F
  PROVE  /\ Summed(k, E \cup F) = Summed(k, E) \cup Summed(k, F)
         /\ Matching(k, E \cup F) = Matching(k, E) \cup Matching(k, F)
         /\ E \cap F = {} => Summed(k, E) \cap Summed(k, F) = {} /\ Matching(k, E) \cap Matching(k, F) = {}
BY DEF Summed, Matching

\* Two parts of different entries are merged.
LEMMA PartMerge ==
  ASSUME log \in DOMAIN Objects, NEW k \in Kinds, NEW E \in SUBSET AllEntries, NEW F \in SUBSET AllEntries, E \cap F = {},
         NEW p, PartIs(k, p, E), NEW q, PartIs(k, q, F), NEW n \in Merged(k, p.summary, q.summary),
         NEW all, all = p.matches \o q.matches, NEW r, PartFields \subseteq DOMAIN r, r.summary = n,
         r.matches = IF k = "trail" THEN SubSeq(all, 1, Min({Len(all), MaxEvents})) ELSE all
  PROVE  PartIs(k, r, E \cup F) /\ ChangesCut(k, r.summary)
<1>1. PICK S, T, M, L : S = Summed(k, E) /\ T = Summed(k, F) /\ M = Matching(k, E) /\ L = Matching(k, F)
  OBVIOUS
<1>2. /\ S \in SUBSET Ground(k) /\ T \in SUBSET Ground(k) /\ S \cap T = {}
      /\ IsFiniteSet(M) /\ IsFiniteSet(L) /\ M \cap L = {}
      /\ Summed(k, E \cup F) = S \cup T /\ Matching(k, E \cup F) = M \cup L
  <2>1. S \in SUBSET Ground(k) /\ IsFiniteSet(M)
    BY <1>1, SetsOf
  <2>2. T \in SUBSET Ground(k) /\ IsFiniteSet(L)
    BY <1>1, SetsOf
  <2>3. S \cap T = {} /\ M \cap L = {}
    BY <1>1 DEF Summed, Matching
  <2>4. Summed(k, E \cup F) = S \cup T
    BY <1>1 DEF Summed
  <2>5. Matching(k, E \cup F) = M \cup L
    BY <1>1 DEF Matching
  <2> QED  BY <2>1, <2>2, <2>3, <2>4, <2>5
<1>3. SummaryIs(k, p.summary, S) /\ SummaryIs(k, q.summary, T) /\ RowsAre(k, p.matches, M) /\ RowsAre(k, q.matches, L)
  BY <1>1 DEF PartIs
<1>4. SummaryIs(k, n, S \cup T) /\ ChangesCut(k, n)
  BY <1>2, <1>3, KindMerge
<1>5. RowsAre(k, r.matches, M \cup L)
  <2>1. CASE k = "trail"
    <3>1. FirstKept(p.matches, M, MaxEvents) /\ FirstKept(q.matches, L, MaxEvents)
      BY <1>3, <2>1 DEF RowsAre
    <3>2. FirstKept(SubSeq(all, 1, Min({Len(all), MaxEvents})), M \cup L, MaxEvents)
      BY <1>2, <3>1, FirstKeptJoin, CapIsNat
    <3> QED  BY <2>1, <3>2 DEF RowsAre
  <2>2. CASE k # "trail"
    <3>1. ListKept(p.matches, M, MaxEvents) /\ ListKept(q.matches, L, MaxEvents)
      BY <1>3, <2>2 DEF RowsAre
    <3>2. ListKept(all, M \cup L, MaxEvents)
      BY <1>2, <3>1, ListKeptJoin
    <3> QED  BY <2>2, <3>2 DEF RowsAre
  <2> QED  BY <2>1, <2>2
<1> QED  BY <1>2, <1>4, <1>5 DEF PartIs

\* The table of kind k is that of the entries D, and a summary that of the entries D and
\* the status rows R.
TableIs(k, table, D) ==
  LET ids == {table[i].id : i \in DOMAIN table} IN
  /\ Len(table) = Min({MaxEvents, Cardinality(D)}) /\ Cardinality(ids) = Len(table)
  /\ ids \subseteq {e.id : e \in D}
  /\ \A i \in DOMAIN table : \A j \in 1..i : table[j].time <= table[i].time
  /\ k = "trail" \/ \A i \in DOMAIN table : \A e \in D : e.time < table[i].time => e.id \in ids
SummaryEnds(k, s, D, R) ==
  CASE k = "elb" -> ElbIsOf(s, D) [] k = "conn" -> ConnIsOf(s, D) [] k = "waf" -> WafIsOf(s, D)
    [] k = "s3" -> S3IsOf(s, D) [] k = "trail" -> TrailIsOf(s, D) [] k = "vpc" -> VpcIsOf(s, D, R)
Statuses(E) == {e \in E : streams /\ ~IsFlow(e) /\ InTime(opts.filter, e)}

\* The ids of a list without repetition.
IdsAre(ids, t, D) ==
  Cardinality(ids) = Len(t) /\ ids \subseteq {e.id : e \in D} /\ \A e \in D : e.id \in ids <=> e \in Held(t)

\* The ids of a table of entries are those of its entries, as many as it is long.
LEMMA IdsTold ==
  ASSUME NEW D, \A x, y \in D : x.id = y.id => x = y, NEW t, Single(t), Held(t) \subseteq D,
         NEW ids, ids = {t[i].id : i \in DOMAIN t}
  PROVE  IdsAre(ids, t, D)
BY IdsOf DEF IdsAre

\* The rows that are kept in the end make the table.
LEMMA RowsEnd ==
  ASSUME log \in DOMAIN Objects, NEW k, NEW c, RowsAre(k, c, Matching(k, AllEntries)),
         NEW t, t = earliest(c, MaxEvents)
  PROVE  TableIs(k, t, Matching(k, AllEntries))
<1>1. PICK D : D = Matching(k, AllEntries)
  OBVIOUS
<1>2. /\ D \in SUBSET AllEntries /\ IsFiniteSet(D) /\ \A x \in D : x.time \in Int
  BY <1>1, SetsOf
<1>3. MaxEvents \in Nat
  BY CapIsNat
<1>4. \A x, y \in D : x.id = y.id => x = y
  BY <1>2, OwnEntries DEF OwnIds
<1>5. /\ Len(t) = (IF MaxEvents < Cardinality(D) THEN MaxEvents ELSE Cardinality(D))
      /\ Held(t) \subseteq D /\ Single(t)
      /\ \A p, q \in DOMAIN t : p <= q => t[p].time <= t[q].time
      /\ k = "trail" \/ \A y \in Held(t), x \in D : x.time < y.time => x \in Held(t)
  <2>1. CASE k = "trail"
    <3>1. FirstKept(c, D, MaxEvents)
      BY <1>1, <2>1 DEF RowsAre
    <3>2. /\ FirstKept(t, D, MaxEvents)
          /\ \A p, q \in DOMAIN t : p <= q => t[p].time <= t[q].time
      BY <1>2, <1>3, <3>1, FirstKeptCut
    <3> QED  BY <2>1, <3>2 DEF FirstKept
  <2>2. CASE k # "trail"
    <3>1. ListKept(c, D, MaxEvents)
      BY <1>1, <2>2 DEF RowsAre
    <3>2. /\ ListKept(t, D, MaxEvents) /\ Len(t) = IF MaxEvents < Len(c) THEN MaxEvents ELSE Len(c)
          /\ \A p, q \in DOMAIN t : p <= q => t[p].time <= t[q].time
      BY <1>2, <1>3, <3>1, ListKeptCut
    <3>3. Len(c) \in Nat
      <4>1. Single(c)
        BY <3>1 DEF ListKept
      <4> QED  BY <4>1, SingleHolds
    <3>4. Len(t) <= MaxEvents
      BY <1>3, <3>2, <3>3
    <3>5. /\ Len(t) = IF MaxEvents < Cardinality(D) THEN MaxEvents ELSE Cardinality(D)
          /\ Held(t) \subseteq D /\ Single(t)
          /\ \A y \in Held(t), x \in D : x.time < y.time => x \in Held(t)
      BY <1>2, <1>3, <3>2, <3>4, ListKeptEnd
    <3> QED  BY <3>2, <3>5
  <2> QED  BY <2>1, <2>2
<1>6. PICK ids : ids = {t[i].id : i \in DOMAIN t}
  OBVIOUS
<1>7. IdsAre(ids, t, D)
  <2>1. Single(t) /\ Held(t) \subseteq D
    BY <1>5
  <2> QED  BY <1>4, <1>6, <2>1, IdsTold
<1>8. Len(t) = Min({MaxEvents, Cardinality(D)})
  <2>1. PICK n \in Nat : n = Cardinality(D)
    BY <1>2, FS_CardinalityType
  <2>2. Len(t) = IF MaxEvents < n THEN MaxEvents ELSE n
    BY <1>5, <2>1
  <2>3. Min({MaxEvents, n}) = IF MaxEvents < n THEN MaxEvents ELSE n
    BY <1>3, SmallerIs
  <2> QED  BY <2>1, <2>2, <2>3
<1>9. ASSUME NEW i \in DOMAIN t, NEW j \in 1 .. i PROVE t[j].time <= t[i].time
  <2>1. Len(t) \in Nat /\ DOMAIN t = 1 .. Len(t)
    <3>1. IsList(t)
      BY <1>5 DEF Single
    <3> QED  BY <3>1, ListFacts
  <2>2. j \in DOMAIN t /\ j <= i
    BY <2>1
  <2> QED  BY <1>5, <2>2
<1>10. k = "trail" \/ \A i \in DOMAIN t : \A e \in D : e.time < t[i].time => e.id \in ids
  <2> SUFFICES ASSUME k # "trail", NEW i \in DOMAIN t, NEW e \in D, e.time < t[i].time PROVE e.id \in ids
    OBVIOUS
  <2>1. t[i] \in Held(t)
    BY DEF Held
  <2>2. e \in Held(t)
    BY <1>5, <2>1
  <2> QED  BY <1>7, <2>2 DEF IdsAre
<1>11. TableIs(k, t, D)
  BY <1>6, <1>7, <1>8, <1>9, <1>10, Zenon DEF TableIs, IdsAre
<1> QED  BY <1>1, <1>11

\* What is summed up of flow logs are the flows and the status rows, of others what matches.
LEMMA WhatIsSummed ==
  ASSUME log \in DOMAIN Objects, NEW k \in Kinds
  PROVE  /\ k # "vpc" => Summed(k, AllEntries) = Matching(k, AllEntries)
         /\ k = "vpc" => /\ Matching(k, AllEntries) = FlowRows(Summed(k, AllEntries))
                         /\ Matching(k, AllEntries) \cup Statuses(AllEntries) = Summed(k, AllEntries)
<1>1. ASSUME k # "vpc" PROVE Summed(k, AllEntries) = Matching(k, AllEntries)
  <2>1. \A e : kindOf(e) = k => ~statusRow(e)
    BY <1>1 DEF statusRow
  <2> QED  BY <2>1 DEF Summed, Matching
<1>2. ASSUME k = "vpc"
      PROVE  /\ Matching(k, AllEntries) = FlowRows(Summed(k, AllEntries))
             /\ Matching(k, AllEntries) \cup Statuses(AllEntries) = Summed(k, AllEntries)
  <2>1. log = "vpc" /\ streams
    BY <1>2, KindsAre DEF streams
  <2>2. \A e : kindOf(e) = "vpc"
    BY <2>1 DEF kindOf
  <2>3. \A e : Match(e) => IsFlow(e)
    BY <2>2 DEF Match
  <2>4. \A e : statusRow(e) <=> ~IsFlow(e) /\ InTime(opts.filter, e)
    BY <2>2 DEF statusRow
  <2>5. Summed(k, AllEntries) = {e \in AllEntries : Match(e) \/ (~IsFlow(e) /\ InTime(opts.filter, e))}
    BY <1>2, <2>2, <2>4 DEF Summed
  <2>6. Matching(k, AllEntries) = {e \in AllEntries : Match(e)}
    BY <1>2, <2>2 DEF Matching
  <2>7. Statuses(AllEntries) = {e \in AllEntries : ~IsFlow(e) /\ InTime(opts.filter, e)}
    BY <2>1 DEF Statuses
  <2> QED  BY <2>3, <2>5, <2>6, <2>7 DEF FlowRows
<1> QED  BY <1>1, <1>2

\* The summary of all entries is the one that is asked for.
LEMMA KindEnd ==
  ASSUME log \in DOMAIN Objects, NEW k \in Kinds, NEW s, SummaryIs(k, s, Summed(k, AllEntries)), ChangesCut(k, s)
  PROVE  SummaryEnds(k, s, Matching(k, AllEntries), Statuses(AllEntries))
<1>1. PICK U, S, D, R : U = Ground(k) /\ S = Summed(k, AllEntries) /\ D = Matching(k, AllEntries) /\ R = Statuses(AllEntries)
  OBVIOUS
<1>2. IsFiniteSet(U) /\ OwnIds(U) /\ S \in SUBSET U
  BY <1>1, GroundFits, SetsOf
<1>3. k # "vpc" => S = D
  BY <1>1, WhatIsSummed
<1>4. k = "vpc" => D = FlowRows(S) /\ D \cup R = S
  BY <1>1, WhatIsSummed
<1>5. SummaryIs(k, s, S)
  BY <1>1
<1>6. CASE k = "elb"
  <2>1. ElbRep(s, S, U)
    BY <1>1, <1>5, <1>6 DEF SummaryIs
  <2>2. ElbIsOf(s, S)
    BY <1>1, <1>2, <1>6, <2>1, GroundFits, ElbEnd
  <2> QED  BY <1>1, <1>3, <1>6, <2>2 DEF SummaryEnds
<1>7. CASE k = "conn"
  <2>1. ConnRep(s, S, U)
    BY <1>1, <1>5, <1>7 DEF SummaryIs
  <2>2. ConnIsOf(s, S)
    BY <1>1, <1>2, <1>7, <2>1, GroundFits, ConnEnd
  <2> QED  BY <1>1, <1>3, <1>7, <2>2 DEF SummaryEnds
<1>8. CASE k = "waf"
  <2>1. WafRep(s, S, U)
    BY <1>1, <1>5, <1>8 DEF SummaryIs
  <2>2. WafIsOf(s, S)
    BY <1>1, <1>2, <1>8, <2>1, GroundFits, WafEnd
  <2> QED  BY <1>1, <1>3, <1>8, <2>2 DEF SummaryEnds
<1>9. CASE k = "s3"
  <2>1. S3Rep(s, S, U)
    BY <1>1, <1>5, <1>9 DEF SummaryIs
  <2>2. Len(s.AccessChanges) <= S3MaxAccessChanges
    BY <1>9 DEF ChangesCut
  <2>3. S3IsOf(s, S)
    BY <1>1, <1>2, <1>9, <2>1, <2>2, GroundFits, S3End
  <2> QED  BY <1>1, <1>3, <1>9, <2>3 DEF SummaryEnds
<1>10. CASE k = "trail"
  <2>1. TrailRep(s, S, U)
    BY <1>1, <1>5, <1>10 DEF SummaryIs
  <2>2. TrailIsOf(s, S)
    BY <1>1, <1>2, <1>10, <2>1, GroundFits, TrailRules
  <2> QED  BY <1>1, <1>3, <1>10, <2>2 DEF SummaryEnds
<1>11. CASE k = "vpc"
  <2>1. VpcRep(s, S, U)
    BY <1>1, <1>5, <1>11 DEF SummaryIs
  <2>2. VpcTyped(U)
    BY <1>1, <1>11, GroundFits
  <2>3. VpcIsOf(s, D, R)
    BY <1>2, <1>4, <1>11, <2>1, <2>2, VpcEnd
  <2> QED  BY <1>1, <1>11, <2>3 DEF SummaryEnds
<1> QED  BY <1>6, <1>7, <1>8, <1>9, <1>10, <1>11, KindsAre

-----------------------------------------------------------------------------
(*****************************************************************************)
(* The shards hold what their workers took, the result holds what is         *)
(* merged.                                                                   *)
(*****************************************************************************)

\* Different lines make different entries.
LEMMA EntriesOfLines ==
  ASSUME log \in DOMAIN Objects, NEW P, NEW Q, P \subseteq GoodLines, Q \subseteq GoodLines
  PROVE  /\ EntriesAt(P) \in SUBSET AllEntries /\ EntriesAt(P \cup Q) = EntriesAt(P) \cup EntriesAt(Q)
         /\ P \cap Q = {} => EntriesAt(P) \cap EntriesAt(Q) = {}
<1>1. EntriesAt(P) \in SUBSET AllEntries /\ EntriesAt(P \cup Q) = EntriesAt(P) \cup EntriesAt(Q)
  BY DEF EntriesAt, AllEntries
<1>2. ASSUME P \cap Q = {}, NEW e \in EntriesAt(P), e \in EntriesAt(Q) PROVE FALSE
  <2>1. PICK p \in P : e = EntryAt(p)
    BY DEF EntriesAt
  <2>2. PICK q \in Q : e = EntryAt(q)
    BY <1>2 DEF EntriesAt
  <2>3. p \in GoodLines /\ q \in GoodLines /\ EntryAt(p).id = EntryAt(q).id
    BY <2>1, <2>2
  <2>4. p = q
    BY <2>3, EntriesApart
  <2> QED  BY <1>2, <2>1, <2>2, <2>4
<1> QED  BY <1>1, <1>2

\* What a worker has of the objects it took is good.
LEMMA LinesAreGood ==
  ASSUME NEW by, DOMAIN by \subseteq InRun, NEW W
  PROVE  Lines(by, W) \subseteq GoodLines
BY DEF Lines, GoodLines

-----------------------------------------------------------------------------
\* Nothing is summed up before the scan. Then there is a way the objects were spread
\* over the workers by which the parts of each shard are those of the lines its worker
\* took, and the parts of the result those of the lines of the shards that are merged.
\* When the run is over, the result is that of all lines.
Fresh == /\ \A w \in Worker : PartsAre(shard[w], {})
         /\ PartsAre(result.parts, {})
         /\ \A k \in Kinds : ChangesCut(k, result.parts[k].summary) /\ result.parts[k].matches = <<>>
Spread(by) == by \in [InRun \ todo -> Worker] /\ todo \subseteq InRun
SummedUp(by) == \A w \in Worker : PartsAre(shard[w], EntriesAt(Lines(by, {w})))
MergedUp(by) == /\ PartsAre(result.parts, EntriesAt(Lines(by, 1 .. next - 1)))
                /\ \A k \in Kinds : ChangesCut(k, result.parts[k].summary)
Whole == \A k \in Kinds :
           /\ SummaryIs(k, result.parts[k].summary, Summed(k, AllEntries)) /\ ChangesCut(k, result.parts[k].summary)
           /\ TableIs(k, result.parts[k].matches, Matching(k, AllEntries))
RInv == /\ phase = "start" => Fresh
        /\ phase \in {"scan", "merge"} => \E by : Spread(by) /\ SummedUp(by) /\ MergedUp(by)
        /\ phase = "done" => Whole

\* What is said of entries stays true of them.
LEMMA SameEntries ==
  ASSUME log' = log, opts' = opts
  PROVE  /\ \A P : EntriesAt(P)' = EntriesAt(P)
         /\ AllEntries' = AllEntries
         /\ \A k, E : Summed(k, E)' = Summed(k, E) /\ Matching(k, E)' = Matching(k, E)
         /\ \A k, s, S : SummaryIs(k, s, S)' <=> SummaryIs(k, s, S)
         /\ \A sh, E : PartsAre(sh, E)' <=> PartsAre(sh, E)
<1>1. \A p : EntryAt(p)' = EntryAt(p)
  BY DEF EntryAt, Entry
<1>2. \A P : EntriesAt(P)' = EntriesAt(P)
  BY <1>1 DEF EntriesAt
<1>3. AllEntries' = AllEntries
  <2>1. GoodLines' = GoodLines
    BY Same DEF GoodLines
  <2> QED  BY <1>1, <2>1 DEF AllEntries, EntriesAt
<1>4. \A e : kindOf(e)' = kindOf(e)
  BY DEF kindOf
<1>5. \A e : (Match(e)' <=> Match(e)) /\ (statusRow(e)' <=> statusRow(e))
  <2>1. \A e : Match(e)' <=> Match(e)
    BY <1>4 DEF Match
  <2>2. \A e : statusRow(e)' <=> statusRow(e)
    BY <1>4 DEF statusRow
  <2> QED  BY <2>1, <2>2
<1>6. \A k, E : Summed(k, E)' = Summed(k, E) /\ Matching(k, E)' = Matching(k, E)
  BY <1>4, <1>5 DEF Summed, Matching
<1>7. \A k : Ground(k)' = Ground(k)
  BY <1>3, <1>4 DEF Ground
<1>8. \A k, s, S : SummaryIs(k, s, S)' <=> SummaryIs(k, s, S)
  BY <1>7 DEF SummaryIs
<1>9. \A k, p, E : PartIs(k, p, E)' <=> PartIs(k, p, E)
  BY <1>6, <1>8 DEF PartIs
<1>10. Kinds' = Kinds
  BY DEF Kinds
<1>11. \A sh, E : PartsAre(sh, E)' <=> PartsAre(sh, E)
  BY <1>9, <1>10 DEF PartsAre
<1> QED  BY <1>2, <1>3, <1>6, <1>8, <1>11

\* A run begins with nothing.
LEMMA OpeningSums == Init => RInv
<1> SUFFICES ASSUME Init PROVE RInv
  OBVIOUS
<1>1. phase = "start" /\ log \in DOMAIN Objects /\ result.parts = [k \in Kinds |-> NoPart(k)]
      /\ \A w \in Worker : shard[w] = [k \in Kinds |-> NoPart(k)]
  BY DEF Init
<1>2. \A sh : sh = [k \in Kinds |-> NoPart(k)] => PartsAre(sh, {})
  BY <1>1, PartStart
<1>3. \A k \in Kinds : result.parts[k].summary = Empty(k) /\ result.parts[k].matches = <<>>
  BY <1>1 DEF NoPart
<1>4. \A k \in Kinds : ChangesCut(k, Empty(k))
  BY <1>1, KindStart
<1>5. Fresh
  BY <1>1, <1>2, <1>3, <1>4 DEF Fresh
<1> QED  BY <1>1, <1>5 DEF RInv

\* A run that fails promises nothing, and one that is over stays as it is.
LEMMA IdleSums ==
  ASSUME RInv, Unscanned, todo' = todo, phase' = phase \/ phase' = "failed" \/ (phase = "scan" /\ phase' = "merge")
  PROVE  RInv'
<1>1. /\ log' = log /\ opts' = opts /\ shard' = shard /\ next' = next /\ result' = result
  BY DEF Unscanned
<1>2. Kinds' = Kinds /\ InRun' = InRun /\ \A by, W : Lines(by, W)' = Lines(by, W)
  BY <1>1, Same, SameLines
<1>3. (\A P : EntriesAt(P)' = EntriesAt(P)) /\ \A sh, E : PartsAre(sh, E)' <=> PartsAre(sh, E)
  BY <1>1, SameEntries
<1>4. Fresh => Fresh'
  BY <1>1, <1>2, <1>3 DEF Fresh, ChangesCut
<1>5. ASSUME NEW by, Spread(by), SummedUp(by), MergedUp(by) PROVE Spread(by)' /\ SummedUp(by)' /\ MergedUp(by)'
  <2>1. Spread(by)'
    BY <1>1, <1>2, <1>5 DEF Spread
  <2>2. SummedUp(by)'
    BY <1>1, <1>2, <1>3, <1>5 DEF SummedUp
  <2>3. MergedUp(by)'
    BY <1>1, <1>2, <1>3, <1>5 DEF MergedUp, ChangesCut
  <2> QED  BY <2>1, <2>2, <2>3
<1>6. Whole => Whole'
  <2>1. AllEntries' = AllEntries /\ \A k, E : Summed(k, E)' = Summed(k, E) /\ Matching(k, E)' = Matching(k, E)
    BY <1>1, SameEntries
  <2>2. \A k, s, S : SummaryIs(k, s, S)' <=> SummaryIs(k, s, S)
    BY <1>1, SameEntries
  <2>3. \A k, t, D : TableIs(k, t, D)' <=> TableIs(k, t, D)
    BY DEF TableIs
  <2> QED  BY <1>1, <1>2, <2>1, <2>2, <2>3 DEF Whole, ChangesCut
<1>7. CASE phase' = phase
  BY <1>4, <1>5, <1>6, <1>7 DEF RInv
<1>8. CASE phase' = "failed"
  BY <1>8 DEF RInv
<1>9. CASE phase = "scan" /\ phase' = "merge"
  BY <1>5, <1>9 DEF RInv
<1> QED  BY <1>7, <1>8, <1>9

\* The scan starts with nothing summed up; without a prefix there is nothing to sum up.
LEMMA StartSums ==
  ASSUME IInv, RInv, Start
  PROVE  RInv'
<1>1. /\ phase = "start" /\ todo' = InRun /\ Unscanned
      /\ phase' = IF Discovers /\ KeptDirs = {} THEN "done" ELSE "scan"
  BY DEF Start
<1>2. Fresh /\ Shapes /\ next = 1
  BY <1>1 DEF IInv, RInv
<1>3. /\ log' = log /\ opts' = opts /\ shard' = shard /\ next' = next /\ result' = result
  BY <1>1 DEF Unscanned
<1>4. Kinds' = Kinds /\ InRun' = InRun /\ \A by, W : Lines(by, W)' = Lines(by, W)
  BY <1>3, Same, SameLines
<1>5. (\A P : EntriesAt(P)' = EntriesAt(P)) /\ \A sh, E : PartsAre(sh, E)' <=> PartsAre(sh, E)
  BY <1>3, SameEntries
<1>6. /\ \A w \in Worker : PartsAre(shard[w], {})
      /\ PartsAre(result.parts, {})
      /\ \A k \in Kinds : ChangesCut(k, result.parts[k].summary) /\ result.parts[k].matches = <<>>
  BY <1>2 DEF Fresh
<1>7. CASE phase' = "scan"
  <2>1. PICK by : by = [o \in {} |-> 1]
    OBVIOUS
  <2>2. DOMAIN by = {} /\ by \in [(InRun \ todo)' -> Worker]
    BY <1>1, <1>4, <2>1
  <2>3. \A W : Lines(by, W) = {}
    BY <2>2 DEF Lines
  <2>4. \A W : EntriesAt(Lines(by, W)) = {}
    BY <2>3 DEF EntriesAt
  <2>5. Spread(by)'
    BY <1>1, <1>4, <2>2 DEF Spread
  <2>6. SummedUp(by)'
    BY <1>3, <1>4, <1>5, <1>6, <2>4 DEF SummedUp
  <2>7. MergedUp(by)'
    BY <1>3, <1>4, <1>5, <1>6, <2>4 DEF MergedUp, ChangesCut
  <2> QED  BY <1>7, <2>5, <2>6, <2>7 DEF RInv
<1>8. CASE phase' = "done"
  <2>1. InRun = {}
    BY <1>1, <1>8 DEF Discovers, InRun, InScope
  <2>2. AllEntries = {}
    BY <2>1 DEF GoodLines, AllEntries, EntriesAt
  <2>3. log \in DOMAIN Objects
    BY <1>2 DEF Shapes
  <2>4. ASSUME NEW k \in Kinds
        PROVE  /\ SummaryIs(k, result.parts[k].summary, Summed(k, AllEntries))
               /\ TableIs(k, result.parts[k].matches, Matching(k, AllEntries))
    <3>1. PartIs(k, result.parts[k], {})
      BY <1>6 DEF PartsAre
    <3>2. SummaryIs(k, result.parts[k].summary, Summed(k, {}))
      BY <3>1 DEF PartIs
    <3>3. Matching(k, AllEntries) = {}
      BY <2>2 DEF Matching
    <3>4. TableIs(k, <<>>, {})
      <4>1. Len(<<>>) = 0 /\ DOMAIN <<>> = {}
        OBVIOUS
      <4>2. Cardinality({}) = 0
        BY FS_EmptySet
      <4>3. PICK t : t = <<>>
        OBVIOUS
      <4>4. {t[i].id : i \in DOMAIN t} = {}
        BY <4>1, <4>3
      <4>5. Min({MaxEvents, 0}) = 0
        <5>1. MaxEvents \in Nat
          BY CapIsNat
        <5>2. PICK z \in Nat : z = 0
          OBVIOUS
        <5>3. Min({MaxEvents, z}) = IF MaxEvents < z THEN MaxEvents ELSE z
          BY <5>1, SmallerIs
        <5> QED  BY <5>1, <5>2, <5>3
      <4>6. TableIs(k, t, {})
        <5>1. DOMAIN t = {} /\ Len(t) = 0
          BY <4>1, <4>3
        <5> QED  BY <4>2, <4>4, <4>5, <5>1 DEF TableIs
      <4> QED  BY <4>3, <4>6
    <3> QED  BY <1>6, <2>2, <3>2, <3>3, <3>4
  <2>5. Whole
    BY <1>6, <2>4 DEF Whole
  <2>6. AllEntries' = AllEntries /\ \A k, E : Summed(k, E)' = Summed(k, E) /\ Matching(k, E)' = Matching(k, E)
    BY <1>3, SameEntries
  <2>7. \A k, s, S : SummaryIs(k, s, S)' <=> SummaryIs(k, s, S)
    BY <1>3, SameEntries
  <2>8. \A k, t, D : TableIs(k, t, D)' <=> TableIs(k, t, D)
    BY DEF TableIs
  <2>9. Whole'
    BY <1>3, <1>4, <2>5, <2>6, <2>7, <2>8 DEF Whole, ChangesCut
  <2> QED  BY <1>8, <2>9 DEF RInv
<1> QED  BY <1>1, <1>7, <1>8

\* The lines of a worker with those of an object more.
LEMMA LinesTaken ==
  ASSUME log \in DOMAIN Objects, NEW by, DOMAIN by \subseteq InRun, NEW o \in InRun \ DOMAIN by, NEW w,
         NEW to, Takes(to, by, o, w)
  PROVE  /\ EntriesAt(Lines(to, {w})) = EntriesAt(Lines(by, {w})) \cup EntriesAt(LinesIn(o))
         /\ EntriesAt(Lines(by, {w})) \in SUBSET AllEntries
         /\ EntriesAt(Lines(by, {w})) \cap EntriesAt(LinesIn(o)) = {}
<1>1. {p \in DOMAIN to : to[p] \in {w}} = {p \in DOMAIN by : by[p] \in {w}} \cup {o}
  BY DEF Takes
<1>2. Lines(to, {w}) = Lines(by, {w}) \cup LinesIn(o)
  BY <1>1 DEF Lines, LinesIn
<1>3. PICK P, Q : P = Lines(by, {w}) /\ Q = LinesIn(o)
  OBVIOUS
<1>4. P \subseteq GoodLines /\ Q \subseteq GoodLines
  <2>1. P \subseteq GoodLines
    BY <1>3, LinesAreGood
  <2>2. Q \subseteq GoodLines
    BY <1>3 DEF LinesIn, GoodLines
  <2> QED  BY <2>1, <2>2
<1>5. P \cap Q = {}
  <2>1. \A p \in P : p[1] \in DOMAIN by
    BY <1>3 DEF Lines
  <2>2. \A p \in Q : p[1] = o
    BY <1>3 DEF LinesIn
  <2> QED  BY <2>1, <2>2
<1> QED  BY <1>2, <1>3, <1>4, <1>5, EntriesOfLines

\* A worker takes an object.
LEMMA FetchSums ==
  ASSUME IInv, RInv, NEW w \in Worker, NEW o \in todo, Fetch(w, o)
  PROVE  RInv'
<1>1. /\ phase = "scan" /\ phase' = "scan" /\ next' = next /\ result' = result
      /\ log' = log /\ opts' = opts /\ todo' = todo \ {o}
      /\ shard' = [shard EXCEPT ![w] = visitAll(@, o)]
  BY DEF Fetch
<1>2. Shapes /\ next = 1
  BY <1>1 DEF IInv
<1>3. PICK by : Spread(by) /\ SummedUp(by) /\ MergedUp(by)
  BY <1>1 DEF RInv
<1>4. Kinds' = Kinds /\ InRun' = InRun /\ \A b, W : Lines(b, W)' = Lines(b, W)
  BY <1>1, Same, SameLines
<1>5. (\A P : EntriesAt(P)' = EntriesAt(P)) /\ \A sh, E : PartsAre(sh, E)' <=> PartsAre(sh, E)
  BY <1>1, SameEntries
<1>6. /\ by \in [InRun \ todo -> Worker] /\ todo \subseteq InRun /\ log \in DOMAIN Objects
      /\ o \in InRun \ DOMAIN by /\ DOMAIN by \subseteq InRun
  BY <1>2, <1>3 DEF Spread, Shapes
<1>7. PICK to : Takes(to, by, o, w)
  BY DEF Takes
<1>8. to \in [InRun \ todo' -> Worker] /\ todo' \subseteq InRun
  <2>1. InRun \ todo' = DOMAIN by \cup {o}
    BY <1>1, <1>6
  <2> QED  BY <1>1, <1>6, <1>7, <2>1 DEF Takes
<1>9. Spread(to)'
  BY <1>4, <1>8 DEF Spread
<1>10. \A v \in Worker : shard'[v] = IF v = w THEN visitAll(shard[w], o) ELSE shard[v]
  BY <1>1, <1>2 DEF Shapes
<1>11. ASSUME NEW v \in Worker PROVE PartsAre(shard'[v], EntriesAt(Lines(to, {v})))
  <2>1. PartsAre(shard[v], EntriesAt(Lines(by, {v})))
    BY <1>3 DEF SummedUp
  <2>2. CASE v = w
    <3>1. PICK E : E = EntriesAt(Lines(by, {w}))
      OBVIOUS
    <3>2. /\ EntriesAt(Lines(to, {w})) = E \cup EntriesAt(LinesIn(o)) /\ E \in SUBSET AllEntries
          /\ E \cap EntriesAt(LinesIn(o)) = {}
      BY <1>6, <1>7, <3>1, LinesTaken
    <3>3. PartsAre(shard[w], E)
      BY <2>1, <2>2, <3>1
    <3>4. PartsAre(visitAll(shard[w], o), E \cup EntriesAt(LinesIn(o)))
      BY <1>6, <3>2, <3>3, VisitAllAdds
    <3> QED  BY <1>10, <2>2, <3>2, <3>4
  <2>3. CASE v # w
    <3>1. Lines(to, {v}) = Lines(by, {v})
      BY <1>6, <1>7, <2>3, LinesOfOthers
    <3>2. shard'[v] = shard[v]
      BY <1>10, <2>3
    <3> QED  BY <2>1, <3>1, <3>2
  <2> QED  BY <2>2, <2>3
<1>12. SummedUp(to)'
  BY <1>4, <1>5, <1>11 DEF SummedUp
<1>13. MergedUp(to)'
  <2>1. \A b : EntriesAt(Lines(b, 1 .. next - 1)) = {}
    <3>1. 1 .. next - 1 = {}
      BY <1>2
    <3>2. \A b : Lines(b, 1 .. next - 1) = {}
      BY <3>1 DEF Lines
    <3> QED  BY <3>2 DEF EntriesAt
  <2>2. PartsAre(result.parts, {}) /\ \A k \in Kinds : ChangesCut(k, result.parts[k].summary)
    BY <1>3, <2>1 DEF MergedUp
  <2> QED  BY <1>1, <1>4, <1>5, <2>1, <2>2 DEF MergedUp, ChangesCut
<1> QED  BY <1>1, <1>9, <1>12, <1>13 DEF RInv

\* The lines of the shards up to the next one.
LEMMA LinesMerged ==
  ASSUME log \in DOMAIN Objects, NEW by, DOMAIN by \subseteq InRun, NEW n \in Nat, n >= 1
  PROVE  /\ EntriesAt(Lines(by, 1 .. n)) = EntriesAt(Lines(by, 1 .. n - 1)) \cup EntriesAt(Lines(by, {n}))
         /\ EntriesAt(Lines(by, 1 .. n - 1)) \in SUBSET AllEntries
         /\ EntriesAt(Lines(by, {n})) \in SUBSET AllEntries
         /\ EntriesAt(Lines(by, 1 .. n - 1)) \cap EntriesAt(Lines(by, {n})) = {}
<1>1. PICK U, V, W : U = 1 .. n /\ V = 1 .. n - 1 /\ W = {n}
  OBVIOUS
<1>2. U = V \cup W /\ V \cap W = {}
  BY <1>1
<1>3. PICK P, Q : P = Lines(by, V) /\ Q = Lines(by, W)
  OBVIOUS
<1>4. Lines(by, U) = P \cup Q /\ P \cap Q = {}
  BY <1>2, <1>3 DEF Lines
<1>5. P \subseteq GoodLines /\ Q \subseteq GoodLines
  BY <1>3, LinesAreGood
<1>6. EntriesAt(P) \in SUBSET AllEntries /\ EntriesAt(P \cup Q) = EntriesAt(P) \cup EntriesAt(Q) /\ EntriesAt(P) \cap EntriesAt(Q) = {}
  BY <1>4, <1>5, EntriesOfLines
<1>7. EntriesAt(Q) \in SUBSET AllEntries
  BY <1>5, EntriesOfLines
<1> QED  BY <1>1, <1>3, <1>4, <1>6, <1>7

\* A shard is merged.
LEMMA MergeSums ==
  ASSUME IInv, RInv, MergeShard
  PROVE  RInv'
<1>1. /\ phase = "merge" /\ phase' = "merge" /\ next \in Worker /\ next' = next + 1
      /\ log' = log /\ opts' = opts /\ todo' = todo /\ shard' = shard
  BY SMTT(40) DEF MergeShard
<1>2. PICK s : /\ s \in EveryPick([k \in Kinds |-> Merged(k, result.parts[k].summary, shard[next][k].summary)])
               /\ result' = [result EXCEPT !.records = @ + records[next], !.parts = [k \in Kinds |->
                      LET p == @[k]  q == shard[next][k]  all == p.matches \o q.matches IN
                      [summary |-> s[k], matched |-> p.matched + q.matched, connsRead |-> p.connsRead + q.connsRead,
                       matches |-> IF k = "trail" THEN SubSeq(all, 1, Min({Len(all), MaxEvents})) ELSE all]]]
  BY DEF MergeShard
<1>3. Shapes /\ log \in DOMAIN Objects
  BY <1>1 DEF IInv, Shapes
<1>4. PICK by : Spread(by) /\ SummedUp(by) /\ MergedUp(by)
  BY <1>1 DEF RInv
<1>5. Kinds' = Kinds /\ InRun' = InRun /\ \A b, W : Lines(b, W)' = Lines(b, W)
  BY <1>1, Same, SameLines
<1>6. (\A P : EntriesAt(P)' = EntriesAt(P)) /\ \A sh, E : PartsAre(sh, E)' <=> PartsAre(sh, E)
  BY <1>1, SameEntries
<1>7. next \in Nat /\ next >= 1 /\ next' - 1 = next
  <2>1. Workers \in Nat
    BY TypedAssumption
  <2> QED  BY <1>1, <2>1 DEF Worker
<1>8. DOMAIN by \subseteq InRun
  BY <1>4 DEF Spread
<1>9. PICK E, F : E = EntriesAt(Lines(by, 1 .. next - 1)) /\ F = EntriesAt(Lines(by, {next}))
  OBVIOUS
<1>10. /\ EntriesAt(Lines(by, 1 .. next)) = E \cup F
       /\ E \in SUBSET AllEntries /\ F \in SUBSET AllEntries /\ E \cap F = {}
  BY <1>3, <1>7, <1>8, <1>9, LinesMerged
<1>11. ASSUME NEW k \in Kinds PROVE s[k] \in Merged(k, result.parts[k].summary, shard[next][k].summary)
  <2>1. PICK sets : sets = [j \in Kinds |-> Merged(j, result.parts[j].summary, shard[next][j].summary)]
    OBVIOUS
  <2>2. DOMAIN sets = Kinds /\ sets[k] = Merged(k, result.parts[k].summary, shard[next][k].summary)
    BY <2>1
  <2>3. IsFiniteSet(Kinds)
    <3>1. \A a, b : IsFiniteSet({a}) /\ IsFiniteSet({a, b})
      <4> SUFFICES ASSUME NEW a, NEW b PROVE IsFiniteSet({a}) /\ IsFiniteSet({a, b})
        OBVIOUS
      <4>1. IsFiniteSet({a})
        BY FS_Singleton
      <4>2. IsFiniteSet({a} \cup {b})
        BY <4>1, FS_AddElement
      <4>3. {a, b} = {a} \cup {b}
        OBVIOUS
      <4> QED  BY <4>1, <4>2, <4>3
    <3> QED  BY <3>1 DEF Kinds
  <2>4. s[k] \in sets[k]
    BY <1>2, <2>1, <2>2, <2>3, PickIs
  <2> QED  BY <2>2, <2>4
<1>12. PICK parts : parts = [k \in Kinds |->
         LET p == result.parts[k]  q == shard[next][k]  all == p.matches \o q.matches IN
         [summary |-> s[k], matched |-> p.matched + q.matched, connsRead |-> p.connsRead + q.connsRead,
          matches |-> IF k = "trail" THEN SubSeq(all, 1, Min({Len(all), MaxEvents})) ELSE all]]
  OBVIOUS
<1>13. result'.parts = parts
  <2>1. {"records", "parts"} \subseteq DOMAIN result
    BY <1>3 DEF Shapes
  <2>2. result' = [result EXCEPT !.records = @ + records[next], !.parts = parts]
    BY <1>2, <1>12
  <2> QED  BY <2>1, <2>2
<1>14. ASSUME NEW k \in Kinds PROVE PartIs(k, parts[k], E \cup F) /\ ChangesCut(k, parts[k].summary)
  <2>1. PICK p, q, n, r : p = result.parts[k] /\ q = shard[next][k] /\ n = s[k] /\ r = parts[k]
    OBVIOUS
  <2>2. PartIs(k, p, E)
    BY <1>4, <1>9, <2>1 DEF MergedUp, PartsAre
  <2>3. PartIs(k, q, F)
    BY <1>1, <1>4, <1>9, <2>1 DEF SummedUp, PartsAre
  <2>4. n \in Merged(k, p.summary, q.summary)
    BY <1>11, <2>1
  <2>5. PICK all : all = p.matches \o q.matches
    OBVIOUS
  <2>6. /\ PartFields \subseteq DOMAIN r /\ r.summary = n
        /\ r.matches = IF k = "trail" THEN SubSeq(all, 1, Min({Len(all), MaxEvents})) ELSE all
    BY <1>12, <2>1, <2>5 DEF PartFields
  <2>7. PartIs(k, r, E \cup F) /\ ChangesCut(k, r.summary)
    BY <1>3, <1>10, <2>2, <2>3, <2>4, <2>5, <2>6, PartMerge
  <2> QED  BY <2>1, <2>7
<1>15. PartsAre(parts, E \cup F)
  <2>1. DOMAIN parts = Kinds
    BY <1>12
  <2> QED  BY <1>14, <2>1 DEF PartsAre
<1>16. Spread(by)' /\ SummedUp(by)'
  <2>1. Spread(by)'
    BY <1>1, <1>4, <1>5 DEF Spread
  <2>2. SummedUp(by)'
    BY <1>1, <1>4, <1>5, <1>6 DEF SummedUp
  <2> QED  BY <2>1, <2>2
<1>17. MergedUp(by)'
  <2>1. PartsAre(result'.parts, EntriesAt(Lines(by, 1 .. next)))
    BY <1>10, <1>13, <1>15
  <2>2. \A k \in Kinds : ChangesCut(k, result'.parts[k].summary)
    BY <1>13, <1>14
  <2> QED  BY <1>5, <1>6, <1>7, <2>1, <2>2 DEF MergedUp, ChangesCut
<1> QED  BY <1>1, <1>16, <1>17 DEF RInv

\* The tables are cut, and the result is that of all lines.
LEMMA FinishSums ==
  ASSUME IInv, RInv, Finish
  PROVE  RInv'
<1>1. /\ phase = "merge" /\ phase' = "done" /\ next = Workers + 1
      /\ log' = log /\ opts' = opts
  BY DEF Finish
<1>2. result'.parts = [k \in Kinds |-> [result.parts[k] EXCEPT !.matches = earliest(@, MaxEvents)]]
  BY DEF Finish
<1>3. log \in DOMAIN Objects /\ todo = {}
  BY <1>1 DEF IInv, Shapes
<1>4. PICK by : Spread(by) /\ SummedUp(by) /\ MergedUp(by)
  BY <1>1 DEF RInv
<1>5. EntriesAt(Lines(by, 1 .. next - 1)) = AllEntries
  <2>1. 1 .. next - 1 = Worker
    <3>1. Workers \in Nat
      BY TypedAssumption
    <3> QED  BY <1>1, <3>1 DEF Worker
  <2>2. by \in [InRun -> Worker] /\ DOMAIN by = InRun
    BY <1>3, <1>4 DEF Spread
  <2>3. {p \in DOMAIN by : by[p] \in Worker} = InRun
    BY <2>2
  <2>4. Lines(by, Worker) = GoodLines
    BY <2>3 DEF Lines, GoodLines
  <2> QED  BY <2>1, <2>4 DEF AllEntries
<1>6. ASSUME NEW k \in Kinds
      PROVE  /\ SummaryIs(k, result'.parts[k].summary, Summed(k, AllEntries)) /\ ChangesCut(k, result'.parts[k].summary)
             /\ TableIs(k, result'.parts[k].matches, Matching(k, AllEntries))
  <2>1. PICK p, r : p = result.parts[k] /\ r = result'.parts[k]
    OBVIOUS
  <2>2. PartIs(k, p, AllEntries) /\ ChangesCut(k, p.summary)
    BY <1>4, <1>5, <2>1 DEF MergedUp, PartsAre
  <2>3. /\ PartFields \subseteq DOMAIN p /\ SummaryIs(k, p.summary, Summed(k, AllEntries))
        /\ RowsAre(k, p.matches, Matching(k, AllEntries))
    BY <2>2 DEF PartIs
  <2>4. r = [p EXCEPT !.matches = earliest(@, MaxEvents)]
    BY <1>2, <2>1
  <2>5. r.summary = p.summary /\ r.matches = earliest(p.matches, MaxEvents)
    BY <2>3, <2>4 DEF PartFields
  <2>6. TableIs(k, r.matches, Matching(k, AllEntries))
    BY <1>3, <2>3, <2>5, RowsEnd
  <2> QED  BY <2>1, <2>2, <2>3, <2>5, <2>6
<1>7. AllEntries' = AllEntries /\ \A k, E : Summed(k, E)' = Summed(k, E) /\ Matching(k, E)' = Matching(k, E)
  BY <1>1, SameEntries
<1>8. \A k, s, S : SummaryIs(k, s, S)' <=> SummaryIs(k, s, S)
  BY <1>1, SameEntries
<1>9. \A k, t, D : TableIs(k, t, D)' <=> TableIs(k, t, D)
  BY DEF TableIs
<1>10. Kinds' = Kinds
  BY <1>1, Same
<1>11. Whole'
  BY <1>6, <1>7, <1>8, <1>9, <1>10 DEF Whole, ChangesCut
<1> QED  BY <1>1, <1>11 DEF RInv

\* Every step keeps it.
LEMMA StepSums == IInv /\ RInv /\ [Next]_vars => RInv'
<1> SUFFICES ASSUME IInv, RInv, [Next]_vars PROVE RInv'
  OBVIOUS
<1>1. CASE Start
  BY <1>1, StartSums
<1>2. CASE DiscoveryFails \/ Cancelled \/ ProbeFails
  <2>1. phase' = "failed"
    BY <1>2 DEF DiscoveryFails, Cancelled, ProbeFails
  <2> QED  BY <2>1 DEF RInv
<1>3. ASSUME NEW w \in Worker, NEW o \in todo, Fetch(w, o) PROVE RInv'
  BY <1>3, FetchSums
<1>4. CASE ScanReturns
  <2>1. phase = "scan" /\ phase' = "merge" /\ todo' = todo /\ Unscanned
    BY <1>4 DEF ScanReturns
  <2> QED  BY <2>1, IdleSums
<1>5. CASE MergeShard
  BY <1>5, MergeSums
<1>6. CASE Finish
  BY <1>6, FinishSums
<1>7. CASE Stop \/ UNCHANGED vars
  <2>1. phase' = phase /\ todo' = todo /\ Unscanned
    BY <1>7 DEF Stop, vars, Unscanned
  <2> QED  BY <2>1, IdleSums
<1> QED  BY <1>1, <1>2, <1>3, <1>4, <1>5, <1>6, <1>7 DEF Next

\* So it holds throughout a run.
LEMMA SumsHold == Spec => []RInv
<1>1. Init => RInv
  BY OpeningSums
<1>2. IInv /\ RInv /\ [Next]_vars => RInv'
  BY StepSums
<1> QED  BY <1>1, <1>2, Invariance, PTL DEF Spec

\* What was read are all entries.
LEMMA AllIsRead ==
  ASSUME IInv, Done
  PROVE  Read = AllEntries /\ \A k : Of(k) = Matching(k, AllEntries) /\ StatusRows = Statuses(AllEntries)
<1>1. log \in DOMAIN Objects
  BY DEF IInv, Shapes
<1>2. Read = AllEntries
  BY <1>1, LineFacts, ReadFacts DEF AllEntries, EntriesAt
<1> QED  BY <1>2 DEF Of, Matching, StatusRows, Statuses

\* ResultIsWhole: however the objects were spread over the workers and in whatever order
\* they came, the merged summary of a finished run is that of the entries that were read
\* and match, and its table holds as many of them as fit.
THEOREM ResultIsThatOfTheLog == Spec => []ResultIsWhole
<1>1. IInv /\ RInv /\ (Done => \A k \in Kinds : result.parts[k].matched = Cardinality(Of(k))) => ResultIsWhole
  <2> SUFFICES ASSUME IInv, RInv, Done, \A k \in Kinds : result.parts[k].matched = Cardinality(Of(k)), NEW k \in Kinds
               PROVE  LET p == result.parts[k] IN
                      /\ p.matched = Cardinality(Of(k)) /\ TableOf(k, p.matches)
                      /\ CASE k = "elb" -> ElbIsOf(p.summary, Of(k)) [] k = "conn" -> ConnIsOf(p.summary, Of(k))
                           [] k = "waf" -> WafIsOf(p.summary, Of(k)) [] k = "s3" -> S3IsOf(p.summary, Of(k))
                           [] k = "trail" -> TrailIsOf(p.summary, Of(k)) [] k = "vpc" -> VpcIsOf(p.summary, Of(k), StatusRows)
    BY DEF ResultIsWhole
  <2>1. log \in DOMAIN Objects /\ Whole
    BY DEF IInv, Shapes, RInv, Done
  <2>2. Of(k) = Matching(k, AllEntries) /\ StatusRows = Statuses(AllEntries)
    BY AllIsRead
  <2>3. PICK s, t, D, R : s = result.parts[k].summary /\ t = result.parts[k].matches /\ D = Of(k) /\ R = StatusRows
    OBVIOUS
  <2>4. TableIs(k, t, D)
    BY SMTT(40), <2>1, <2>2, <2>3 DEF Whole
  <2>5. TableOf(k, t)
    BY <2>3, <2>4 DEF TableIs, TableOf
  <2>6. SummaryEnds(k, s, D, R)
    <3>1. SummaryIs(k, s, Summed(k, AllEntries)) /\ ChangesCut(k, s)
      BY <2>1, <2>3 DEF Whole
    <3>2. SummaryEnds(k, s, Matching(k, AllEntries), Statuses(AllEntries))
      BY <2>1, <3>1, KindEnd
    <3> QED  BY <2>2, <2>3, <3>2
  <2> QED  BY <2>3, <2>5, <2>6 DEF SummaryEnds
<1>2. Spec => [](Done => \A k \in Kinds : result.parts[k].matched = Cardinality(Of(k)))
  BY MatchesAreCounted
<1> QED  BY <1>1, <1>2, Invariance, SumsHold, PTL

-----------------------------------------------------------------------------
(*****************************************************************************)
(* The findings of a run.                                                    *)
(*****************************************************************************)

\* The hits of a finished run, log by log.
HitsTold ==
  /\ log = "waf" => Hits = WafHitsOf(Of("waf"), BlockThreshold)
  /\ log = "s3" => S3HitsAre(Hits, result.parts["s3"].summary, Of("s3"), DeniedThreshold, DeleteThreshold, EgressBytes)
  /\ log = "vpc" => VpcHitsAre(Hits, result.parts["vpc"].summary, Of("vpc"), EgressBytes)
  /\ IsFiniteSet(Hits)

\* What a finished run has summed up of a kind.
LEMMA SummedAre ==
  ASSUME IInv, RInv, Done, NEW k \in Kinds
  PROVE  /\ log \in DOMAIN Objects /\ SummaryIs(k, result.parts[k].summary, Summed(k, AllEntries))
         /\ ChangesCut(k, result.parts[k].summary)
         /\ Summed(k, AllEntries) \in SUBSET Ground(k)
         /\ k # "vpc" => Of(k) = Summed(k, AllEntries)
         /\ k = "vpc" => Of(k) = FlowRows(Summed(k, AllEntries))
<1>1. log \in DOMAIN Objects /\ Whole
  BY DEF IInv, Shapes, RInv, Done
<1>2. Of(k) = Matching(k, AllEntries)
  BY AllIsRead
<1>3. SummaryIs(k, result.parts[k].summary, Summed(k, AllEntries)) /\ ChangesCut(k, result.parts[k].summary)
  BY <1>1 DEF Whole
<1>4. Summed(k, AllEntries) \in SUBSET Ground(k)
  BY <1>1, SetsOf
<1>5. /\ k # "vpc" => Matching(k, AllEntries) = Summed(k, AllEntries)
      /\ k = "vpc" => Matching(k, AllEntries) = FlowRows(Summed(k, AllEntries))
  BY <1>1, WhatIsSummed
<1> QED  BY <1>1, <1>2, <1>3, <1>4, <1>5

\* The requests of a web ACL.
LEMMA WafTold ==
  ASSUME IInv, RInv, Done, log = "waf"
  PROVE  Hits = WafHitsOf(Of("waf"), BlockThreshold) /\ IsFiniteSet(Hits)
<1>1. "waf" \in Kinds
  BY DEF Kinds
<1>2. PICK s, S, U : s = result.parts["waf"].summary /\ S = Summed("waf", AllEntries) /\ U = Ground("waf")
  OBVIOUS
<1>3. log \in DOMAIN Objects /\ SummaryIs("waf", s, S) /\ S \in SUBSET U /\ Of("waf") = S
  BY <1>1, <1>2, SummedAre
<1>4. WafRep(s, S, U)
  BY <1>2, <1>3 DEF SummaryIs
<1>5. IsFiniteSet(U) /\ OwnIds(U) /\ \A e \in U : e.time \in Nat /\ e.time > 0 /\ IsList(e.labels) /\ IsList(e.countRules)
  BY <1>1, <1>2, <1>3, GroundFits
<1>6. IsFiniteSet(S)
  BY <1>3, <1>5, FS_Subset
<1>7. WafIsOf(s, S)
  BY <1>3, <1>4, <1>5, WafEnd
<1>8. "ByCountRule" \in DOMAIN s.lists
  <2>1. DOMAIN s.lists = wafListed
    BY <1>4 DEF WafRep, ListsAre
  <2> QED  BY <2>1 DEF wafListed
<1>9. \A e \in S : IsList(e.countRules) /\ OneEach(e.countRules)
  <2>1. \A e \in S : e \in AllEntries
    BY <1>2 DEF Summed
  <2> QED  BY <2>1, WafFits
<1>10. BlockThreshold \in Nat
  BY TypedAssumption
<1>11. Hits = wafHits(s, BlockThreshold)
  BY Zenon, <1>2 DEF Hits
<1>12. wafHits(s, BlockThreshold) = WafHitsOf(S, BlockThreshold) /\ IsFiniteSet(wafHits(s, BlockThreshold))
  BY <1>6, <1>7, <1>8, <1>9, <1>10, WafHitsAre, WafHitsFinite
<1> QED  BY Zenon, <1>3, <1>11, <1>12

\* The requests to S3.
LEMMA S3Told ==
  ASSUME IInv, RInv, Done, log = "s3"
  PROVE  /\ S3HitsAre(Hits, result.parts["s3"].summary, Of("s3"), DeniedThreshold, DeleteThreshold, EgressBytes)
         /\ IsFiniteSet(Hits)
<1>1. "s3" \in Kinds
  BY DEF Kinds
<1>2. PICK s, S, U : s = result.parts["s3"].summary /\ S = Summed("s3", AllEntries) /\ U = Ground("s3")
  OBVIOUS
<1>3. log \in DOMAIN Objects /\ SummaryIs("s3", s, S) /\ ChangesCut("s3", s) /\ S \in SUBSET U /\ Of("s3") = S
  BY <1>1, <1>2, SummedAre
<1>4. S3Rep(s, S, U) /\ Len(s.AccessChanges) <= S3MaxAccessChanges
  BY <1>2, <1>3 DEF SummaryIs, ChangesCut
<1>5. IsFiniteSet(U) /\ OwnIds(U) /\ \A e \in U : e.time \in Nat /\ e.time > 0 /\ e.sent \in Int
  BY <1>1, <1>2, <1>3, GroundFits
<1>6. PICK a, b, c \in Nat \ {0} : a = DeniedThreshold /\ b = DeleteThreshold /\ c = EgressBytes
  BY TypedAssumption
<1>7. Hits = s3Hits(s, a, b, c)
  BY Zenon, <1>2, <1>6 DEF Hits
<1>8. S3HitsAre(s3Hits(s, a, b, c), s, S, a, b, c) /\ IsFiniteSet(s3Hits(s, a, b, c))
  BY Zenon, <1>3, <1>4, <1>5, <1>6, S3HitsTold
<1> QED  BY Zenon, <1>2, <1>3, <1>6, <1>7, <1>8

\* The flows.
LEMMA VpcTold ==
  ASSUME IInv, RInv, Done, log = "vpc"
  PROVE  VpcHitsAre(Hits, result.parts["vpc"].summary, Of("vpc"), EgressBytes) /\ IsFiniteSet(Hits)
<1>1. "vpc" \in Kinds
  BY DEF Kinds
<1>2. PICK s, S, U : s = result.parts["vpc"].summary /\ S = Summed("vpc", AllEntries) /\ U = Ground("vpc")
  OBVIOUS
<1>3. log \in DOMAIN Objects /\ SummaryIs("vpc", s, S) /\ S \in SUBSET U /\ Of("vpc") = FlowRows(S)
  BY <1>1, <1>2, SummedAre
<1>4. VpcRep(s, S, U)
  BY <1>2, <1>3 DEF SummaryIs
<1>5. IsFiniteSet(U) /\ VpcTyped(U)
  BY <1>1, <1>2, <1>3, GroundFits
<1>6. PICK F : F = FlowRows(S)
  OBVIOUS
<1>7. PICK c \in Nat : c = EgressBytes /\ c > 0
  BY TypedAssumption
<1>8. Hits = vpcHits(s, c)
  BY Zenon, <1>2, <1>7 DEF Hits
<1>9. VpcHitsAre(vpcHits(s, c), s, F, c) /\ IsFiniteSet(vpcHits(s, c))
  BY Zenon, <1>3, <1>4, <1>5, <1>6, <1>7, VpcHitsTold
<1> QED  BY Zenon, <1>2, <1>3, <1>6, <1>7, <1>8, <1>9

\* So the hits are what they should be, and finitely many.
LEMMA HitsAreTold ==
  ASSUME IInv, RInv, Done
  PROVE  HitsTold
<1>1. log \in DOMAIN Objects
  BY DEF IInv, Shapes
<1>2. log \in {"elb", "waf", "s3", "trail", "vpc"}
  BY <1>1, TypedAssumption
<1>3. CASE log \in {"elb", "trail"}
  <2>1. Hits = {}
    BY <1>3 DEF Hits
  <2>2. IsFiniteSet({})
    BY FS_EmptySet
  <2> QED  BY <1>3, <2>1, <2>2 DEF HitsTold
<1>4. CASE log = "waf"
  BY <1>4, WafTold DEF HitsTold
<1>5. CASE log = "s3"
  BY <1>5, S3Told DEF HitsTold
<1>6. CASE log = "vpc"
  BY <1>6, VpcTold DEF HitsTold
<1> QED  BY <1>2, <1>3, <1>4, <1>5, <1>6

\* FindingsExact: the findings of a finished run are those the entries that were read give,
\* whatever the split over the workers. A counter that folded keys may hide a finding and makes
\* none up; the cap drops the least severe and none that is CRITICAL, and tells how many.
THEOREM FindingsAreExact == Spec => []FindingsExact
<1>1. IInv /\ RInv /\ (Done => Kept(result.found, result.dropped, Hits)) => FindingsExact
  <2> SUFFICES ASSUME IInv, RInv, Done, Kept(result.found, result.dropped, Hits)
               PROVE  FindingsExact
    BY DEF FindingsExact
  <2>1. HitsTold
    BY HitsAreTold
  <2>2. PICK H : H = Hits
    OBVIOUS
  <2>3. /\ result.found \subseteq H /\ result.dropped = Cardinality(H \ result.found)
        /\ \A h \in H \ result.found : h.severity < CRITICAL /\ \A g \in result.found : g.severity >= h.severity
        /\ Cardinality({h \in result.found : h.severity < CRITICAL}) <= MaxFindings
        /\ MaxSeverity(result.found) = MaxSeverity(H)
    BY <2>1, <2>2 DEF Kept, Minor, HitsTold
  <2>4. log = "waf" => H = WafHitsOf(Of("waf"), BlockThreshold)
    BY <2>1, <2>2 DEF HitsTold
  <2>5. log = "waf" => \E all \in {WafHitsOf(Of("waf"), BlockThreshold)} :
                         result.found \subseteq all /\ result.dropped = Cardinality(all \ result.found)
    BY Zenon, <2>3, <2>4
  <2>6. /\ log = "s3" => S3HitsAre(H, result.parts["s3"].summary, Of("s3"), DeniedThreshold, DeleteThreshold, EgressBytes)
        /\ log = "vpc" => VpcHitsAre(H, result.parts["vpc"].summary, Of("vpc"), EgressBytes)
    BY <2>1, <2>2 DEF HitsTold
  <2> QED  BY Zenon, <2>2, <2>3, <2>5, <2>6 DEF FindingsExact
<1> QED  BY <1>1, FindingsAreKept, Invariance, SumsHold, PTL
=============================================================================
