----------------------------- MODULE FlowsProofs ----------------------------
(***************************************************************************)
(* The proofs about the VPC flow log run, for every set of flows, number   *)
(* of workers and bound of memory: what a shard holds of its flows, what   *)
(* the result holds of the shards merged so far while the shard in hand is *)
(* still folded in key by key, and that enough flows are always kept to    *)
(* tell the earliest of all.                                               *)
(***************************************************************************)
EXTENDS Flows, FiniteSetTheorems, TLAPS

\* The bounds of memory, one part of a summary at a time.
Capped(c) == c \in Counter /\ Cardinality(Keys(c) \ {OtherKey}) <= MaxKeys
Trackers == [sets : [Addr -> SUBSET Port], truncated : BOOLEAN]
Tracked(d) == /\ d \in Trackers /\ Sources(d) <= MaxSources
              /\ \A a \in Addr : Cardinality(d.sets[a]) <= ScanPorts
Listed(e) == e \in [Service -> Nat] /\ Cardinality(Keys(e)) <= MaxKeys

\* The sources that probe, and the services that are reached, among the flows of S.
Probers(S) == {f.src : f \in {g \in S : Probe(g)}}
Reached(S) == {k \in Service : ExposedFlows(S)[k] > 0}

\* What a tracker and the list of services hold is in the flows of S, and what they
\* report as left out did not fit.
SeesPorts(d, S) == /\ \A a \in Addr : d.sets[a] \subseteq ProbedPorts(S, a)
                   /\ d.truncated => Cardinality(Probers(S)) > MaxSources
SeesServices(s, S) == /\ Keys(s.exposed) \subseteq Reached(S)
                      /\ s.exposedDropped > 0 => Cardinality(Reached(S)) > MaxKeys

\* The ports P are all that a has probed in S, or as many as the rule asks for.
AllPorts(P, S, a) == Cardinality(P) >= ScanPorts \/ ProbedPorts(S, a) \subseteq P

\* A source that a tracker does not hold has probed nothing, or there was no place.
HoldsPorts(d, S) == \A a \in Addr : \/ d.sets[a] # {} /\ AllPorts(d.sets[a], S, a)
                                    \/ d.sets[a] = {} /\ ProbedPorts(S, a) = {}
                                    \/ d.sets[a] = {} /\ d.truncated /\ Sources(d) >= MaxSources

Shards == \A w \in Worker : /\ SeesPorts(summary[w].ports, mine[w])
                            /\ HoldsPorts(summary[w].ports, mine[w])
                            /\ SeesServices(summary[w], mine[w])

\* The flows of the shards that are merged, the one in hand included.
Before(n) == UNION {mine[w] : w \in {v \in Worker : v < n}}

\* The ports of a that the result holds or the shard in hand still has.
Ahead(a) == merged.ports.sets[a] \cup {v \in Port : <<a, v>> \in rest.ports}

Result == /\ SeesPorts(merged.ports, Before(next))
          /\ SeesServices(merged, Before(next))
          /\ \A a \in Addr : merged.ports.truncated \/ AllPorts(Ahead(a), Before(next), a)
          /\ rest # NothingLeft => next \in 2 .. Workers + 1
          /\ \A k \in rest.bySrc : InHand.bySrc[k] > 0
          /\ \A k \in rest.egress : InHand.egress[k] > 0
          /\ \A k \in rest.exposed : InHand.exposed[k] > 0
          /\ \A a \in Addr, v \in Port : <<a, v>> \in rest.ports => v \in InHand.ports.sets[a]
          /\ next > Workers => \A w \in Worker : w < next
          /\ Done => rest = NothingLeft

\* M has enough of the flows of S to tell the earliest ones.
Enough(M, S) == /\ M \subseteq S
                /\ \A x \in S \ M : \E N \in SUBSET M : /\ Cardinality(N) = MaxEvents
                                                        /\ \A y \in N : y.start <= x.start

Table == /\ \A w \in Worker : Enough(matches[w], mine[w])
         /\ IF Done THEN table \in earliestVPC(Visited, MaxEvents) ELSE Enough(table, Before(next))

IInv == TypeOK /\ Shards /\ Result /\ Table

\* The counter c is to count t when what o has under the keys R is folded in.
Folding(c, o, R, t) ==
  /\ Sum(c, Key) + Sum(o, R) = Sum(t, Addr)
  /\ \A a \in Addr : c[a] + (IF a \in R THEN o[a] ELSE 0) <= t[a]

\* So are the exposed services of s.
Exposing(s, o, R, t) ==
  /\ Sum(s.exposed, Service) + s.exposedDropped + Sum(o, R) = Sum(t, Service)
  /\ s.exposedDropped = 0 =>
       \A k \in Service : s.exposed[k] + (IF k \in R THEN o[k] ELSE 0) = t[k]

\* The summary s is to count the flows of S when what o has under the keys r is
\* folded in.
Counting(s, o, r, S) == /\ Folding(s.bySrc, o.bySrc, r.bySrc, SrcFlows(S))
                        /\ Folding(s.egress, o.egress, r.egress, SentBytes(S))
                        /\ Exposing(s, o.exposed, r.exposed, ExposedFlows(S))

\* No two workers visit the same flow, and every flow is counted in its shard and,
\* when that is merged, in the result or in what of the shard is still in hand.
Apart == \A v, w \in Worker : v # w => mine[v] \cap mine[w] = {}
Totals == /\ Apart
          /\ \A w \in Worker : Counting(summary[w], summary[w], NothingLeft, mine[w])
          /\ Counting(merged, InHand, rest, Before(next))

-----------------------------------------------------------------------------
\* Everything here is finite: the flows, and what is made of them.
LEMMA Finite ==
  /\ IsFiniteSet(Flow) /\ IsFiniteSet(Addr) /\ IsFiniteSet(Key)
  /\ IsFiniteSet(Port) /\ IsFiniteSet(Service)
<1>1. IsFiniteSet(Flow) /\ IsFiniteSet(Addr)
  BY FlowsAssumption DEF Addr
<1>2. IsFiniteSet(Key)
  BY <1>1, FS_AddElement DEF Key
<1>3. IsFiniteSet(Port)
  <2> DEFINE f == [x \in Flow |-> x.port]
  <2>1. f \in Surjection(Flow, Port)
    BY DEF Surjection, Port
  <2> QED  BY <1>1, <2>1, FS_Surjection
<1>4. IsFiniteSet(Service)
  <2> DEFINE S == {g \in Flow : g.port \in Sensitive}
             f == [x \in S |-> <<x.dst, x.port>>]
  <2>1. IsFiniteSet(S)
    BY <1>1, FS_Subset
  <2>2. f \in Surjection(S, Service)
    BY DEF Surjection, Service
  <2> HIDE DEF f, S
  <2> QED  BY <2>1, <2>2, FS_Surjection
<1> QED  BY <1>1, <1>2, <1>3, <1>4

\* The size of a part of a finite set.
LEMMA Sizes ==
  ASSUME NEW S, IsFiniteSet(S), NEW T \in SUBSET S
  PROVE  /\ IsFiniteSet(T) /\ Cardinality(T) \in Nat /\ Cardinality(S) \in Nat
         /\ Cardinality(T) <= Cardinality(S)
  BY FS_Subset, FS_CardinalityType

\* One element more.
LEMMA OneMore ==
  ASSUME NEW S, IsFiniteSet(S), NEW x
  PROVE  /\ IsFiniteSet(S \cup {x}) /\ Cardinality(S) \in Nat
         /\ Cardinality(S \cup {x}) <= Cardinality(S) + 1
         /\ x \notin S => Cardinality(S \cup {x}) = Cardinality(S) + 1
<1>1. /\ IsFiniteSet(S \cup {x})
      /\ Cardinality(S \cup {x}) = IF x \in S THEN Cardinality(S) ELSE Cardinality(S) + 1
  BY FS_AddElement
<1>2. Cardinality(S) \in Nat
  BY FS_CardinalityType
<1> QED  BY <1>1, <1>2

\* The bounds are numbers.
LEMMA Limits == /\ MaxKeys \in Nat \ {0} /\ MaxSources \in Nat \ {0} /\ ScanPorts \in Nat \ {0}
                /\ MaxEvents \in Nat \ {0} /\ Workers \in Nat \ {0} /\ Limit = ScanPorts
  BY FlowsAssumption DEF Limit

\* What a flow is.
LEMMA FlowFacts ==
  ASSUME NEW f \in Flow
  PROVE  /\ f.src \in Addr /\ f.src \in Key /\ f.dst \in Addr /\ f.port \in Port /\ f.bytes \in Nat
         /\ f.start \in Nat /\ (Exposure(f) => <<f.dst, f.port>> \in Service)
<1>1. f \in FlowType
  BY FlowsAssumption
<1>2. f.src \in Addr /\ f.dst \in Addr /\ f.bytes \in Nat /\ f.start \in Nat
  BY <1>1 DEF FlowType, Addr
<1>3. f.port \in Port /\ (Exposure(f) => <<f.dst, f.port>> \in Service)
  BY DEF Port, Exposure, Service
<1> QED  BY <1>2, <1>3 DEF Key

\* A capped counter stays within its bound.
LEMMA AddCappedFacts ==
  ASSUME NEW c, Capped(c), NEW k \in Key, NEW n \in Nat
  PROVE  Capped(addCapped(c, k, n))
<1> DEFINE c1 == [c EXCEPT ![k] = @ + n]
           c2 == [c EXCEPT ![OtherKey] = @ + n]
<1>1. /\ c \in [Key -> Nat] /\ Cardinality(Keys(c) \ {OtherKey}) <= MaxKeys
      /\ Keys(c) \subseteq Key /\ Len(c) = Cardinality(Keys(c)) /\ OtherKey \in Key
  BY DEF Capped, Counter, Keys, Len, Key
<1>2. c1 \in [Key -> Nat] /\ c2 \in [Key -> Nat]
  BY <1>1
<1>3. IsFiniteSet(Keys(c)) /\ Len(c) \in Nat
  BY <1>1, Finite, Sizes
<1>4. Keys(c1) \subseteq Keys(c) \cup {k} /\ Keys(c2) \subseteq Keys(c) \cup {OtherKey}
  BY <1>1, <1>2 DEF Keys
<1> HIDE DEF c1, c2
<1>5. CASE n = 0
  BY <1>5 DEF addCapped
<1>6. CASE n # 0 /\ c[k] > 0
  <2>1. addCapped(c, k, n) = c1
    BY <1>6 DEF addCapped, c1
  <2>2. Keys(c1) \subseteq Keys(c)
    BY <1>1, <1>4, <1>6 DEF Keys
  <2>3. Cardinality(Keys(c1) \ {OtherKey}) <= Cardinality(Keys(c) \ {OtherKey})
    <3>1. IsFiniteSet(Keys(c) \ {OtherKey}) /\ Keys(c1) \ {OtherKey} \in SUBSET (Keys(c) \ {OtherKey})
      BY <1>3, <2>2, Sizes
    <3> QED  BY <3>1, Sizes
  <2>4. Cardinality(Keys(c1) \ {OtherKey}) \in Nat /\ Cardinality(Keys(c) \ {OtherKey}) \in Nat
    <3>1. Keys(c1) \ {OtherKey} \in SUBSET Keys(c) /\ Keys(c) \ {OtherKey} \in SUBSET Keys(c)
      BY <2>2
    <3> QED  BY <1>3, <3>1, Sizes
  <2> QED  BY <1>1, <1>2, <2>1, <2>3, <2>4, Limits DEF Capped, Counter
<1>7. CASE n # 0 /\ ~(c[k] > 0) /\ Len(c) < MaxKeys
  <2>1. addCapped(c, k, n) = c1
    BY <1>7 DEF addCapped, c1
  <2>2. IsFiniteSet(Keys(c) \cup {k}) /\ Cardinality(Keys(c) \cup {k}) <= Len(c) + 1
    BY <1>1, <1>3, OneMore
  <2>3. Keys(c1) \ {OtherKey} \in SUBSET (Keys(c) \cup {k})
    BY <1>4
  <2>4. /\ Cardinality(Keys(c1) \ {OtherKey}) <= Cardinality(Keys(c) \cup {k})
        /\ Cardinality(Keys(c1) \ {OtherKey}) \in Nat /\ Cardinality(Keys(c) \cup {k}) \in Nat
    BY <2>2, <2>3, Sizes
  <2>5. Cardinality(Keys(c1) \ {OtherKey}) <= MaxKeys
    BY <1>3, <1>7, <2>2, <2>4, Limits
  <2> QED  BY <1>2, <2>1, <2>5 DEF Capped, Counter
<1>8. CASE n # 0 /\ ~(c[k] > 0) /\ ~(Len(c) < MaxKeys)
  <2>1. addCapped(c, k, n) = c2
    BY <1>8 DEF addCapped, c2
  <2>2. Keys(c2) \ {OtherKey} \in SUBSET (Keys(c) \ {OtherKey})
    BY <1>4
  <2>3. IsFiniteSet(Keys(c) \ {OtherKey})
    <3>1. Keys(c) \ {OtherKey} \in SUBSET Keys(c)
      OBVIOUS
    <3> QED  BY <1>3, <3>1, Sizes
  <2>4. /\ Cardinality(Keys(c2) \ {OtherKey}) <= Cardinality(Keys(c) \ {OtherKey})
        /\ Cardinality(Keys(c2) \ {OtherKey}) \in Nat /\ Cardinality(Keys(c) \ {OtherKey}) \in Nat
    BY <2>2, <2>3, Sizes
  <2>5. Cardinality(Keys(c2) \ {OtherKey}) <= MaxKeys
    BY <1>1, <2>4, Limits
  <2> QED  BY <1>2, <2>1, <2>5 DEF Capped, Counter
<1> QED  BY <1>5, <1>6, <1>7, <1>8

\* A tracker stays within its bounds; a value is added, or there was no place for
\* its source, or the source has as many as it may have.
LEMMA AddFacts ==
  ASSUME NEW d, Tracked(d), NEW s \in Addr, NEW v \in Port, NEW e, e = Add(d, s, v)
  PROVE  /\ Tracked(e)
         /\ Sources(d) \in Nat /\ Sources(e) \in Nat /\ Sources(d) <= Sources(e)
         /\ \A a \in Addr \ {s} : e.sets[a] = d.sets[a]
         /\ \/ /\ d.sets[s] = {} /\ e.sets[s] = {} /\ Sources(d) >= MaxSources /\ e.truncated
            \/ /\ ~(d.sets[s] = {} /\ Sources(d) >= MaxSources)
               /\ e.sets[s] = d.sets[s] \cup {v} /\ e.truncated = d.truncated
            \/ /\ Cardinality(d.sets[s]) >= ScanPorts /\ d.sets[s] # {} /\ e = d
<1> DEFINE Held(t) == {a \in Addr : t.sets[a] # {}}
<1>1. /\ d \in Trackers /\ d.sets \in [Addr -> SUBSET Port] /\ d.truncated \in BOOLEAN
      /\ \A a \in Addr : Cardinality(d.sets[a]) <= ScanPorts
      /\ \A a \in Addr : IsFiniteSet(d.sets[a]) /\ Cardinality(d.sets[a]) \in Nat
      /\ Sources(d) = Cardinality(Held(d)) /\ Sources(d) <= MaxSources
  BY Finite, Sizes DEF Tracked, Trackers, Sources
<1>2. IsFiniteSet(Held(d)) /\ Sources(d) \in Nat
  <2>1. Held(d) \in SUBSET Addr
    OBVIOUS
  <2> HIDE DEF Held
  <2> QED  BY <1>1, <2>1, Finite, Sizes
<1>3. CASE d.sets[s] = {} /\ Sources(d) >= MaxSources
  <2>1. e = [d EXCEPT !.truncated = TRUE]
    BY <1>3 DEF Add
  <2>2. e \in Trackers /\ e.sets = d.sets /\ e.truncated
    BY <1>1, <2>1 DEF Trackers
  <2>3. Sources(e) = Sources(d)
    BY <2>2 DEF Sources
  <2>4. Tracked(e)
    BY <1>1, <2>2, <2>3 DEF Tracked
  <2>5. Sources(d) <= Sources(e)
    BY <1>2, <2>3
  <2>6. e.sets[s] = {} /\ \A a \in Addr \ {s} : e.sets[a] = d.sets[a]
    BY <1>3, <2>2
  <2> HIDE DEF Held
  <2> QED  BY <1>2, <1>3, <2>2, <2>3, <2>4, <2>5, <2>6
<1>4. CASE ~(d.sets[s] = {} /\ Sources(d) >= MaxSources) /\ Cardinality(d.sets[s]) < Limit
  <2>1. e = [d EXCEPT !.sets[s] = d.sets[s] \cup {v}]
    BY <1>4 DEF Add
  <2>2. /\ e \in Trackers /\ e.truncated = d.truncated /\ e.sets[s] = d.sets[s] \cup {v}
        /\ \A a \in Addr \ {s} : e.sets[a] = d.sets[a]
    BY <1>1, <2>1 DEF Trackers
  <2>3. \A a \in Addr : Cardinality(e.sets[a]) <= ScanPorts
    <3> SUFFICES ASSUME NEW a \in Addr PROVE Cardinality(e.sets[a]) <= ScanPorts
      OBVIOUS
    <3>1. CASE a = s
      <4>1. Cardinality(d.sets[s] \cup {v}) <= Cardinality(d.sets[s]) + 1 /\ Cardinality(d.sets[s] \cup {v}) \in Nat
        BY <1>1, OneMore, FS_CardinalityType
      <4>2. Cardinality(d.sets[s]) < ScanPorts /\ Cardinality(d.sets[s]) \in Nat
        BY <1>1, <1>4, Limits
      <4>3. Cardinality(d.sets[s] \cup {v}) <= ScanPorts
        BY <4>1, <4>2, Limits
      <4> QED  BY <2>2, <3>1, <4>3
    <3>2. CASE a # s
      BY <1>1, <2>2, <3>2
    <3> QED  BY <3>1, <3>2
  <2>4. Held(e) = Held(d) \cup {s} /\ Sources(e) = Cardinality(Held(e))
    BY <2>2 DEF Sources
  <2>5. Sources(e) \in Nat /\ Sources(d) <= Sources(e) /\ Sources(e) <= MaxSources
    <3>1. /\ IsFiniteSet(Held(d) \cup {s}) /\ Cardinality(Held(d) \cup {s}) <= Sources(d) + 1
          /\ Cardinality(Held(d) \cup {s}) \in Nat
      BY <1>1, <1>2, OneMore, FS_CardinalityType
    <3>2. Held(d) \in SUBSET (Held(d) \cup {s})
      OBVIOUS
    <3>3. s \in Held(d) => Held(d) \cup {s} = Held(d)
      OBVIOUS
    <3>4. s \notin Held(d) => d.sets[s] = {}
      OBVIOUS
    <3> HIDE DEF Held
    <3>5. Sources(d) <= Sources(e)
      BY <1>1, <2>4, <3>1, <3>2, Sizes
    <3>6. CASE s \in Held(d)
      BY <1>1, <1>2, <2>4, <3>3, <3>5, <3>6
    <3>7. CASE s \notin Held(d)
      <4>1. Sources(d) < MaxSources
        BY <1>2, <1>4, <3>4, <3>7, Limits
      <4> QED  BY <1>2, <2>4, <3>1, <3>5, <4>1, Limits
    <3> QED  BY <3>6, <3>7
  <2>6. Tracked(e)
    BY <2>2, <2>3, <2>5 DEF Tracked
  <2> QED  BY <1>2, <1>4, <2>2, <2>5, <2>6
<1>5. CASE ~(d.sets[s] = {} /\ Sources(d) >= MaxSources) /\ ~(Cardinality(d.sets[s]) < Limit)
  <2>1. e = d
    BY <1>5 DEF Add
  <2>2. Cardinality(d.sets[s]) >= ScanPorts /\ d.sets[s] # {}
    <3>1. Cardinality(d.sets[s]) >= ScanPorts /\ Cardinality(d.sets[s]) # 0
      BY <1>1, <1>5, Limits
    <3> QED  BY <3>1, FS_EmptySet
  <2> QED  BY <1>1, <1>2, <2>1, <2>2
<1> QED  BY <1>3, <1>4, <1>5

\* A service is exposed to more flows, or there was no place for it.
LEMMA ExposeFacts ==
  ASSUME NEW s \in Summary, Listed(s.exposed), NEW k \in Service, NEW n \in Nat,
         NEW e, e = expose(s, k, n)
  PROVE  /\ e \in Summary /\ e.bySrc = s.bySrc /\ e.egress = s.egress /\ e.ports = s.ports
         /\ Listed(e.exposed)
         /\ Keys(e.exposed) \subseteq Keys(s.exposed) \cup {k}
         /\ \/ e.exposedDropped = s.exposedDropped
            \/ k \notin Keys(s.exposed) /\ Cardinality(Keys(s.exposed)) >= MaxKeys
<1>1. /\ s.exposed \in [Service -> Nat] /\ Cardinality(Keys(s.exposed)) <= MaxKeys
      /\ Keys(s.exposed) \in SUBSET Service
      /\ Keys(s.exposed) = {x \in Service : s.exposed[x] > 0}
  BY DEF Listed, Keys
<1>2. IsFiniteSet(Keys(s.exposed)) /\ Cardinality(Keys(s.exposed)) \in Nat
  BY <1>1, Finite, Sizes
<1>3. CASE Known(s, k)
  <2>1. e = [s EXCEPT !.exposed[k] = s.exposed[k] + n]
    BY <1>3 DEF expose
  <2>2. /\ e \in Summary /\ e.bySrc = s.bySrc /\ e.egress = s.egress /\ e.ports = s.ports
        /\ e.exposed \in [Service -> Nat] /\ e.exposedDropped = s.exposedDropped
        /\ \A x \in Service \ {k} : e.exposed[x] = s.exposed[x]
    BY <1>1, <2>1 DEF Summary
  <2>3. Keys(e.exposed) \subseteq Keys(s.exposed) \cup {k}
    BY <1>1, <2>2 DEF Keys
  <2>4. Cardinality(Keys(e.exposed)) <= MaxKeys
    <3>1. /\ IsFiniteSet(Keys(s.exposed) \cup {k}) /\ Cardinality(Keys(s.exposed) \cup {k}) \in Nat
          /\ Cardinality(Keys(s.exposed) \cup {k}) <= Cardinality(Keys(s.exposed)) + 1
      BY <1>2, OneMore, FS_CardinalityType
    <3>2. k \in Keys(s.exposed) => Keys(s.exposed) \cup {k} = Keys(s.exposed)
      OBVIOUS
    <3>3. k \in Keys(s.exposed) \/ Cardinality(Keys(s.exposed)) < MaxKeys
      BY <1>1, <1>3 DEF Known
    <3>4. Cardinality(Keys(s.exposed) \cup {k}) <= MaxKeys
      BY <1>1, <1>2, <3>1, <3>2, <3>3, Limits
    <3>5. Cardinality(Keys(e.exposed)) <= Cardinality(Keys(s.exposed) \cup {k}) /\ Cardinality(Keys(e.exposed)) \in Nat
      BY <2>3, <3>1, Sizes
    <3> QED  BY <3>1, <3>4, <3>5, Limits
  <2> QED  BY <2>2, <2>3, <2>4 DEF Listed
<1>4. CASE ~Known(s, k)
  <2>1. e = [s EXCEPT !.exposedDropped = s.exposedDropped + n]
    BY <1>4 DEF expose
  <2>2. /\ e \in Summary /\ e.bySrc = s.bySrc /\ e.egress = s.egress /\ e.ports = s.ports
        /\ e.exposed = s.exposed
    BY <1>1, <2>1 DEF Summary
  <2>3. k \notin Keys(s.exposed) /\ Cardinality(Keys(s.exposed)) >= MaxKeys
    <3>1. ~(s.exposed[k] > 0) /\ ~(Cardinality(Keys(s.exposed)) < MaxKeys)
      BY <1>1, <1>4 DEF Known
    <3> QED  BY <1>1, <1>2, <3>1, Limits
  <2> QED  BY <2>2, <2>3
<1> QED  BY <1>3, <1>4

\* More flows probe and reach no less.
LEMMA MoreFlows ==
  ASSUME NEW T \in SUBSET Flow, NEW S \in SUBSET T
  PROVE  /\ IsFiniteSet(T) /\ IsFiniteSet(Probers(T)) /\ IsFiniteSet(Reached(T))
         /\ Probers(S) \subseteq Probers(T) /\ Reached(S) \subseteq Reached(T)
         /\ \A a \in Addr : ProbedPorts(S, a) \subseteq ProbedPorts(T, a)
         /\ \A a \in Addr : ProbedPorts(T, a) \in SUBSET Port
<1>1. IsFiniteSet(T)
  BY Finite, Sizes
<1>2. IsFiniteSet(Probers(T))
  <2>1. Probers(T) \in SUBSET Addr
    BY FlowFacts DEF Probers
  <2> QED  BY <2>1, Finite, Sizes
<1>3. IsFiniteSet(Reached(T))
  <2>1. Reached(T) \in SUBSET Service
    BY DEF Reached
  <2> QED  BY <2>1, Finite, Sizes
<1>4. Probers(S) \subseteq Probers(T)
  BY DEF Probers
<1>5. Reached(S) \subseteq Reached(T)
  <2> SUFFICES ASSUME NEW k \in Service, ExposedFlows(S)[k] > 0 PROVE ExposedFlows(T)[k] > 0
    BY DEF Reached
  <2> DEFINE Of(U) == {f \in U : Exposure(f) /\ <<f.dst, f.port>> = k}
  <2>1. Of(S) \in SUBSET Of(T) /\ Of(T) \in SUBSET T
    OBVIOUS
  <2>2. ExposedFlows(S)[k] = Cardinality(Of(S)) /\ ExposedFlows(T)[k] = Cardinality(Of(T))
    BY DEF ExposedFlows
  <2> HIDE DEF Of
  <2>3. IsFiniteSet(Of(T))
    BY <1>1, <2>1, Sizes
  <2>4. /\ Cardinality(Of(S)) <= Cardinality(Of(T)) /\ Cardinality(Of(S)) \in Nat
        /\ Cardinality(Of(T)) \in Nat
    BY <2>1, <2>3, Sizes
  <2> QED  BY <2>2, <2>4
<1>6. \A a \in Addr : ProbedPorts(S, a) \subseteq ProbedPorts(T, a)
  BY DEF ProbedPorts
<1>7. \A a \in Addr : ProbedPorts(T, a) \in SUBSET Port
  BY DEF ProbedPorts, Port
<1> QED  BY <1>1, <1>2, <1>3, <1>4, <1>5, <1>6, <1>7

\* A flow to an exposed service reaches it.
LEMMA ReachedBy ==
  ASSUME NEW S \in SUBSET Flow, NEW f \in S, Exposure(f)
  PROVE  <<f.dst, f.port>> \in Reached(S)
<1> DEFINE k == <<f.dst, f.port>>
           Of == {g \in S : Exposure(g) /\ <<g.dst, g.port>> = k}
<1>1. k \in Service
  BY FlowFacts
<1>2. f \in Of /\ Of \in SUBSET Flow /\ ExposedFlows(S)[k] = Cardinality(Of)
  BY <1>1 DEF ExposedFlows
<1> HIDE DEF Of, k
<1>3. IsFiniteSet(Of) /\ Cardinality(Of) \in Nat
  BY <1>2, Finite, Sizes
<1>4. Cardinality(Of) # 0
  BY <1>2, <1>3, FS_EmptySet
<1>5. ExposedFlows(S)[k] > 0
  BY <1>1, <1>2, <1>3, <1>4
<1> QED  BY <1>1, <1>5 DEF Reached, k

\* What is seen of some flows is seen of more.
LEMMA SeesMore ==
  ASSUME NEW T \in SUBSET Flow, NEW S \in SUBSET T
  PROVE  /\ \A d : SeesPorts(d, S) => SeesPorts(d, T)
         /\ \A s : SeesServices(s, S) => SeesServices(s, T)
<1>1. /\ \A a \in Addr : ProbedPorts(S, a) \subseteq ProbedPorts(T, a)
      /\ Reached(S) \subseteq Reached(T)
  BY MoreFlows
<1>2. /\ Cardinality(Probers(S)) <= Cardinality(Probers(T))
      /\ Cardinality(Probers(S)) \in Nat /\ Cardinality(Probers(T)) \in Nat
  BY MoreFlows, Sizes
<1>3. /\ Cardinality(Reached(S)) <= Cardinality(Reached(T))
      /\ Cardinality(Reached(S)) \in Nat /\ Cardinality(Reached(T)) \in Nat
  BY MoreFlows, Sizes
<1>4. ASSUME NEW d, SeesPorts(d, S) PROVE SeesPorts(d, T)
  BY <1>1, <1>2, <1>4, Limits DEF SeesPorts
<1>5. ASSUME NEW s, SeesServices(s, S) PROVE SeesServices(s, T)
  BY <1>1, <1>3, <1>5, Limits DEF SeesServices
<1> QED  BY <1>4, <1>5

\* A port that was really probed is added: nothing is seen that is not there, and a
\* source is left out only if there were too many.
LEMMA AddSees ==
  ASSUME NEW S \in SUBSET Flow, NEW d, Tracked(d), SeesPorts(d, S),
         NEW s \in Addr, NEW v \in ProbedPorts(S, s), NEW e, e = Add(d, s, v)
  PROVE  SeesPorts(e, S)
<1>0. v \in Port
  BY MoreFlows
<1>1. /\ \A a \in Addr \ {s} : e.sets[a] = d.sets[a]
      /\ \/ d.sets[s] = {} /\ e.sets[s] = {} /\ Sources(d) >= MaxSources /\ e.truncated
         \/ e.sets[s] = d.sets[s] \cup {v} /\ e.truncated = d.truncated
         \/ e = d
  BY <1>0, AddFacts
<1>2. \A a \in Addr : e.sets[a] \subseteq ProbedPorts(S, a)
  BY <1>1 DEF SeesPorts
<1>3. ASSUME d.sets[s] = {}, Sources(d) >= MaxSources PROVE Cardinality(Probers(S)) > MaxSources
  <2> DEFINE Held == {a \in Addr : d.sets[a] # {}}
  <2>1. \A a \in Addr : ProbedPorts(S, a) # {} => a \in Probers(S)
    BY DEF ProbedPorts, Probers
  <2>2. Held \cup {s} \in SUBSET Probers(S)
    BY <2>1 DEF SeesPorts
  <2>3. s \notin Held /\ Sources(d) = Cardinality(Held) /\ Held \in SUBSET Addr
    BY <1>3 DEF Sources
  <2> HIDE DEF Held
  <2>4. IsFiniteSet(Held) /\ Cardinality(Held) \in Nat /\ Cardinality(Held \cup {s}) = Cardinality(Held) + 1
    BY <2>3, Finite, Sizes, OneMore
  <2>5. Cardinality(Held \cup {s}) <= Cardinality(Probers(S)) /\ Cardinality(Probers(S)) \in Nat
    BY <2>2, MoreFlows, Sizes
  <2> QED  BY <1>3, <2>3, <2>4, <2>5, Limits
<1>4. e.truncated => Cardinality(Probers(S)) > MaxSources
  BY <1>1, <1>3 DEF SeesPorts
<1> QED  BY <1>2, <1>4 DEF SeesPorts

\* A service that was really reached is added.
LEMMA ExposeSees ==
  ASSUME NEW S \in SUBSET Flow, NEW s \in Summary, Listed(s.exposed), SeesServices(s, S),
         NEW k \in Reached(S), NEW n \in Nat, NEW e, e = expose(s, k, n)
  PROVE  SeesServices(e, S)
<1>0. k \in Service
  BY DEF Reached
<1>1. /\ Keys(e.exposed) \subseteq Keys(s.exposed) \cup {k}
      /\ \/ e.exposedDropped = s.exposedDropped
         \/ k \notin Keys(s.exposed) /\ Cardinality(Keys(s.exposed)) >= MaxKeys
  BY <1>0, ExposeFacts
<1>2. Keys(e.exposed) \subseteq Reached(S)
  BY <1>1 DEF SeesServices
<1>3. ASSUME k \notin Keys(s.exposed), Cardinality(Keys(s.exposed)) >= MaxKeys
      PROVE  Cardinality(Reached(S)) > MaxKeys
  <2>1. Keys(s.exposed) \cup {k} \in SUBSET Reached(S) /\ Keys(s.exposed) \in SUBSET Reached(S)
    BY DEF SeesServices
  <2>2. /\ IsFiniteSet(Keys(s.exposed)) /\ Cardinality(Keys(s.exposed)) \in Nat
        /\ Cardinality(Keys(s.exposed) \cup {k}) = Cardinality(Keys(s.exposed)) + 1
    BY <1>3, <2>1, MoreFlows, Sizes, OneMore
  <2>3. Cardinality(Keys(s.exposed) \cup {k}) <= Cardinality(Reached(S)) /\ Cardinality(Reached(S)) \in Nat
    BY <2>1, MoreFlows, Sizes
  <2> QED  BY <1>3, <2>2, <2>3, Limits
<1>4. e.exposedDropped > 0 => Cardinality(Reached(S)) > MaxKeys
  BY <1>1, <1>3 DEF SeesServices
<1> QED  BY <1>2, <1>4 DEF SeesServices

\* The bounds of a summary are those of its parts.
LEMMA Parts ==
  ASSUME NEW s \in Summary
  PROVE  Bounded(s) <=> Capped(s.bySrc) /\ Capped(s.egress) /\ Tracked(s.ports) /\ Listed(s.exposed)
<1>1. /\ s.bySrc \in Counter /\ s.egress \in Counter /\ s.ports \in Trackers
      /\ s.exposed \in [Service -> Nat]
  BY DEF Summary, Trackers
<1> QED  BY <1>1 DEF Bounded, Capped, Tracked, Listed

\* A tracker that holds what was probed holds it with one flow more.
LEMMA HoldsMore ==
  ASSUME NEW S \in SUBSET Flow, NEW f \in Flow, NEW d, Tracked(d), HoldsPorts(d, S),
         NEW e, e = IF Probe(f) THEN Add(d, f.src, f.port) ELSE d
  PROVE  HoldsPorts(e, S \cup {f})
<1> DEFINE T == S \cup {f}
<1>1. \A a \in Addr : ~(Probe(f) /\ f.src = a) => ProbedPorts(T, a) = ProbedPorts(S, a)
  BY DEF ProbedPorts
<1>2. \A a \in Addr : Probe(f) /\ f.src = a => ProbedPorts(T, a) = ProbedPorts(S, a) \cup {f.port}
  BY DEF ProbedPorts
<1>3. f.src \in Addr /\ f.port \in Port
  BY FlowFacts
<1> HIDE DEF T
<1>4. CASE ~Probe(f)
  BY <1>1, <1>4 DEF HoldsPorts, AllPorts, T
<1>5. CASE Probe(f)
  <2>0. e = Add(d, f.src, f.port)
    BY <1>5
  <2>1. /\ Tracked(e) /\ Sources(d) \in Nat /\ Sources(e) \in Nat /\ Sources(d) <= Sources(e)
        /\ \A a \in Addr \ {f.src} : e.sets[a] = d.sets[a]
        /\ \/ /\ d.sets[f.src] = {} /\ e.sets[f.src] = {} /\ Sources(d) >= MaxSources /\ e.truncated
           \/ /\ ~(d.sets[f.src] = {} /\ Sources(d) >= MaxSources)
              /\ e.sets[f.src] = d.sets[f.src] \cup {f.port} /\ e.truncated = d.truncated
           \/ /\ Cardinality(d.sets[f.src]) >= ScanPorts /\ d.sets[f.src] # {} /\ e = d
    BY <1>3, <2>0, AddFacts
  <2>2. Sources(d) >= MaxSources => Sources(e) >= MaxSources
    BY <2>1, Limits
  <2>3. d.truncated => e.truncated
    BY <2>1
  <2> SUFFICES ASSUME NEW a \in Addr
               PROVE  \/ e.sets[a] # {} /\ AllPorts(e.sets[a], T, a)
                      \/ e.sets[a] = {} /\ ProbedPorts(T, a) = {}
                      \/ e.sets[a] = {} /\ e.truncated /\ Sources(e) >= MaxSources
    BY DEF HoldsPorts, T
  <2>4. \/ d.sets[a] # {} /\ AllPorts(d.sets[a], S, a)
        \/ d.sets[a] = {} /\ ProbedPorts(S, a) = {}
        \/ d.sets[a] = {} /\ d.truncated /\ Sources(d) >= MaxSources
    BY DEF HoldsPorts
  <2>5. CASE a # f.src
    BY <1>1, <2>1, <2>2, <2>3, <2>4, <2>5 DEF AllPorts
  <2>6. CASE a = f.src
    <3>1. ProbedPorts(T, a) = ProbedPorts(S, a) \cup {f.port}
      BY <1>2, <1>5, <2>6
    <3>2. CASE d.sets[a] = {} /\ e.sets[a] = {} /\ Sources(d) >= MaxSources /\ e.truncated
      BY <2>2, <3>2
    <3>3. CASE /\ ~(d.sets[a] = {} /\ Sources(d) >= MaxSources)
               /\ e.sets[a] = d.sets[a] \cup {f.port}
      <4>1. e.sets[a] # {}
        BY <3>3
      <4>2. ASSUME Cardinality(d.sets[a]) >= ScanPorts PROVE Cardinality(e.sets[a]) >= ScanPorts
        <5>1. d.sets[a] \in SUBSET Port /\ e.sets[a] \in SUBSET Port /\ d.sets[a] \in SUBSET e.sets[a]
          BY <1>3, <2>1, <3>3 DEF Tracked, Trackers
        <5>2. /\ Cardinality(d.sets[a]) <= Cardinality(e.sets[a])
              /\ Cardinality(d.sets[a]) \in Nat /\ Cardinality(e.sets[a]) \in Nat
          BY <5>1, Finite, Sizes
        <5> QED  BY <4>2, <5>2, Limits
      <4>3. ASSUME ProbedPorts(S, a) \subseteq d.sets[a] PROVE ProbedPorts(T, a) \subseteq e.sets[a]
        BY <3>1, <3>3, <4>3
      <4>4. AllPorts(d.sets[a], S, a)
        BY <2>4, <3>3 DEF AllPorts
      <4> QED  BY <4>1, <4>2, <4>3, <4>4 DEF AllPorts
    <3>4. CASE Cardinality(d.sets[a]) >= ScanPorts /\ d.sets[a] # {} /\ e = d
      BY <3>4 DEF AllPorts
    <3> QED  BY <2>1, <2>6, <3>2, <3>3, <3>4
  <2> QED  BY <2>5, <2>6
<1> QED  BY <1>4, <1>5

\* A shard with one flow more stays within its bounds, and holds and sees it.
LEMMA AddFlowKeeps ==
  ASSUME NEW S \in SUBSET Flow, NEW f \in Flow, NEW s \in Summary, Bounded(s),
         SeesPorts(s.ports, S), HoldsPorts(s.ports, S), SeesServices(s, S),
         NEW e, e = addFlow(s, f)
  PROVE  /\ e \in Summary /\ Bounded(e)
         /\ SeesPorts(e.ports, S \cup {f}) /\ HoldsPorts(e.ports, S \cup {f})
         /\ SeesServices(e, S \cup {f})
<1> DEFINE ports == IF Probe(f) THEN Add(s.ports, f.src, f.port) ELSE s.ports
           egress == IF Egress(f) THEN addCapped(s.egress, f.src, f.bytes) ELSE s.egress
           T == S \cup {f}
           k == <<f.dst, f.port>>
<1>1. PICK a : a = [s EXCEPT !.bySrc = addCapped(s.bySrc, f.src, 1), !.ports = ports, !.egress = egress]
  OBVIOUS
<1>2. e = IF Exposure(f) THEN expose(a, k, 1) ELSE a
  BY <1>1 DEF addFlow
<1>3. Capped(s.bySrc) /\ Capped(s.egress) /\ Tracked(s.ports) /\ Listed(s.exposed)
  BY Parts
<1>4. f.src \in Addr /\ f.src \in Key /\ f.port \in Port /\ f.bytes \in Nat
  BY FlowFacts
<1>5. Capped(addCapped(s.bySrc, f.src, 1)) /\ Capped(egress)
  BY <1>3, <1>4, AddCappedFacts
<1>6. Tracked(ports)
  BY <1>3, <1>4, AddFacts
<1>7. S \in SUBSET T /\ T \in SUBSET Flow
  OBVIOUS
<1>8. SeesPorts(s.ports, T) /\ SeesServices(s, T)
  BY <1>7, SeesMore
<1>9. SeesPorts(ports, T)
  <2>1. Probe(f) => f.port \in ProbedPorts(T, f.src)
    BY DEF ProbedPorts
  <2> HIDE DEF T
  <2> QED  BY <1>3, <1>4, <1>7, <1>8, <2>1, AddSees
<1>10. HoldsPorts(ports, T)
  BY <1>3, HoldsMore
<1> HIDE DEF ports, egress, T, k
<1>11. /\ a \in Summary /\ a.ports = ports /\ a.egress = egress
       /\ a.bySrc = addCapped(s.bySrc, f.src, 1)
       /\ a.exposed = s.exposed /\ a.exposedDropped = s.exposedDropped
  <2>1. ports \in Trackers /\ egress \in Counter /\ addCapped(s.bySrc, f.src, 1) \in Counter
    BY <1>5, <1>6 DEF Tracked, Capped
  <2> QED  BY <1>1, <2>1 DEF Summary, Trackers
<1>12. SeesServices(a, T)
  BY <1>8, <1>11 DEF SeesServices
<1>13. Bounded(a)
  BY <1>3, <1>5, <1>6, <1>11, Parts
<1>14. CASE ~Exposure(f)
  BY <1>2, <1>9, <1>10, <1>11, <1>12, <1>13, <1>14 DEF T
<1>15. CASE Exposure(f)
  <2>1. k \in Reached(T) /\ k \in Service
    BY <1>7, <1>15, ReachedBy, FlowFacts DEF T, k
  <2>2. Listed(a.exposed)
    BY <1>3, <1>11
  <2>3. e = expose(a, k, 1)
    BY <1>2, <1>15
  <2>4. /\ e \in Summary /\ e.bySrc = a.bySrc /\ e.egress = a.egress /\ e.ports = a.ports
        /\ Listed(e.exposed)
    BY <1>11, <2>1, <2>2, <2>3, ExposeFacts
  <2>5. SeesServices(e, T)
    BY <1>7, <1>11, <1>12, <2>1, <2>2, <2>3, ExposeSees
  <2>6. Bounded(e)
    BY <1>5, <1>6, <1>11, <2>4, Parts
  <2> QED  BY <1>9, <1>10, <1>11, <2>4, <2>5, <2>6 DEF T
<1> QED  BY <1>14, <1>15
-----------------------------------------------------------------------------
\* The smaller of two numbers.
LEMMA MinOfTwo ==
  ASSUME NEW a \in Nat, NEW b \in Nat
  PROVE  Min({a, b}) = IF a <= b THEN a ELSE b
<1> DEFINE c == IF a <= b THEN a ELSE b
<1>1. c \in {a, b} /\ \A y \in {a, b} : c <= y
  OBVIOUS
<1>2. \A x \in {a, b} : (\A y \in {a, b} : x <= y) => x = c
  OBVIOUS
<1> QED  BY <1>1, <1>2 DEF Min

\* The earliest flows, by their number.
LEMMA EarliestFacts ==
  ASSUME NEW S \in SUBSET Flow, NEW T \in earliestVPC(S, MaxEvents)
  PROVE  /\ T \subseteq S /\ IsFiniteSet(S) /\ IsFiniteSet(T)
         /\ Cardinality(S) \in Nat /\ Cardinality(T) \in Nat
         /\ Cardinality(T) = IF MaxEvents <= Cardinality(S) THEN MaxEvents ELSE Cardinality(S)
         /\ \A x \in T, y \in S \ T : x.start <= y.start
<1>1. /\ T \in SUBSET S /\ Cardinality(T) = Min({MaxEvents, Cardinality(S)})
      /\ \A x \in T, y \in S \ T : x.start <= y.start
  BY DEF earliestVPC
<1>2. IsFiniteSet(S) /\ Cardinality(S) \in Nat
  BY Finite, Sizes
<1>3. IsFiniteSet(T) /\ Cardinality(T) \in Nat
  BY <1>1, <1>2, Sizes
<1>4. MaxEvents \in Nat
  BY Limits
<1> QED  BY <1>1, <1>2, <1>3, <1>4, MinOfTwo

\* What is kept when the flow table is trimmed is enough.
LEMMA EarliestIsEnough ==
  ASSUME NEW S \in SUBSET Flow, NEW T \in earliestVPC(S, MaxEvents)
  PROVE  Enough(T, S)
<1>1. T \subseteq S /\ IsFiniteSet(S) /\ \A x \in T, y \in S \ T : x.start <= y.start
  BY EarliestFacts
<1>2. ASSUME T # S PROVE Cardinality(T) = MaxEvents
  <2>1. T \in SUBSET S
    BY <1>1
  <2>2. Cardinality(T) # Cardinality(S)
    BY <1>1, <1>2, <2>1, FS_Subset
  <2>3. Cardinality(T) <= Cardinality(S)
    BY <1>1, <2>1, Sizes
  <2> QED  BY <2>2, <2>3, EarliestFacts, Limits
<1> QED  BY <1>1, <1>2 DEF Enough

\* Enough of two sets is enough of both together.
LEMMA EnoughTogether ==
  ASSUME NEW M, NEW S, NEW E, NEW R, Enough(M, S), Enough(E, R)
  PROVE  Enough(M \cup E, S \cup R)
<1> SUFFICES ASSUME NEW x \in (S \cup R) \ (M \cup E)
             PROVE  \E N \in SUBSET (M \cup E) : /\ Cardinality(N) = MaxEvents
                                                 /\ \A y \in N : y.start <= x.start
  BY DEF Enough
<1>1. CASE x \in S
  <2>1. PICK N \in SUBSET M : Cardinality(N) = MaxEvents /\ \A y \in N : y.start <= x.start
    BY <1>1 DEF Enough
  <2> QED  BY <2>1
<1>2. CASE x \in R
  <2>1. PICK N \in SUBSET E : Cardinality(N) = MaxEvents /\ \A y \in N : y.start <= x.start
    BY <1>2 DEF Enough
  <2> QED  BY <2>1
<1> QED  BY <1>1, <1>2

\* The earliest of enough are the earliest of all.
LEMMA EarliestOfEnough ==
  ASSUME NEW S \in SUBSET Flow, NEW M, Enough(M, S), NEW T \in earliestVPC(M, MaxEvents)
  PROVE  T \in earliestVPC(S, MaxEvents)
<1>0. M \in SUBSET S /\ M \in SUBSET Flow
  BY DEF Enough
<1>1. /\ T \subseteq M /\ IsFiniteSet(M) /\ IsFiniteSet(T)
      /\ Cardinality(M) \in Nat /\ Cardinality(T) \in Nat /\ MaxEvents \in Nat
      /\ Cardinality(T) = IF MaxEvents <= Cardinality(M) THEN MaxEvents ELSE Cardinality(M)
      /\ \A x \in T, y \in M \ T : x.start <= y.start
  BY <1>0, EarliestFacts, Limits
<1>2. IsFiniteSet(S) /\ Cardinality(S) \in Nat /\ Cardinality(M) <= Cardinality(S)
  <2>1. IsFiniteSet(S)
    BY Finite, Sizes
  <2> QED  BY <1>0, <2>1, Sizes
<1>3. ASSUME NEW x \in S \ M
      PROVE  Cardinality(T) = MaxEvents /\ \A z \in T : z.start <= x.start
  <2>1. PICK N \in SUBSET M : Cardinality(N) = MaxEvents /\ \A y \in N : y.start <= x.start
    BY DEF Enough
  <2>2. MaxEvents <= Cardinality(M)
    BY <1>1, <2>1, FS_Subset
  <2>3. Cardinality(T) = MaxEvents
    BY <1>1, <2>2
  <2>4. \A y \in Flow : y.start \in Nat
    BY FlowFacts
  <2>5. ASSUME NEW z \in T, ~(z.start <= x.start) PROVE FALSE
    <3>1. \A y \in N : y \in T
      BY <1>0, <1>1, <2>1, <2>4, <2>5
    <3>2. z \notin N
      BY <2>1, <2>5
    <3>3. IsFiniteSet(N) /\ N \cup {z} \in SUBSET T
      BY <1>1, <3>1, FS_Subset
    <3>4. Cardinality(N \cup {z}) = MaxEvents + 1
      BY <2>1, <3>2, <3>3, OneMore
    <3>5. MaxEvents + 1 <= Cardinality(T)
      BY <1>1, <3>3, <3>4, Sizes
    <3> QED  BY <1>1, <2>3, <3>5
  <2> QED  BY <2>3, <2>5
<1>4. Cardinality(T) = Min({MaxEvents, Cardinality(S)})
  <2>1. Min({MaxEvents, Cardinality(S)}) = IF MaxEvents <= Cardinality(S) THEN MaxEvents ELSE Cardinality(S)
    BY <1>1, <1>2, MinOfTwo
  <2>2. CASE M = S
    BY <1>1, <2>1, <2>2
  <2>3. CASE M # S
    <3>1. Cardinality(T) = MaxEvents
      BY <1>0, <1>3, <2>3
    <3>2. Cardinality(T) <= Cardinality(M)
      BY <1>1, Sizes
    <3> QED  BY <1>1, <1>2, <2>1, <3>1, <3>2
  <2> QED  BY <2>2, <2>3
<1>5. \A x \in T, y \in S \ T : x.start <= y.start
  BY <1>1, <1>3
<1> QED  BY <1>0, <1>1, <1>4, <1>5 DEF earliestVPC

\* What is kept of enough is enough.
LEMMA EnoughOfEnough ==
  ASSUME NEW S \in SUBSET Flow, NEW M, Enough(M, S), NEW T \in earliestVPC(M, MaxEvents)
  PROVE  Enough(T, S)
  BY EarliestOfEnough, EarliestIsEnough

-----------------------------------------------------------------------------
\* What the invariant says of the state's shape.
LEMMA Shape ==
  ASSUME IInv
  PROVE  /\ summary \in [Worker -> Summary] /\ merged \in Summary
         /\ matches \in [Worker -> SUBSET Flow] /\ mine \in [Worker -> SUBSET Flow]
         /\ table \in SUBSET Flow /\ next \in 0 .. Workers + 2 /\ next \in Nat
         /\ Visited \in SUBSET Flow /\ Before(next) \in SUBSET Flow
         /\ \A w \in Worker : w \in Nat /\ mine[w] \in SUBSET Visited
         /\ Bounded(merged) /\ \A w \in Worker : Bounded(summary[w])
<1>1. TypeOK
  BY DEF IInv
<1>2. next \in Nat /\ \A w \in Worker : w \in Nat
  BY <1>1, Limits DEF TypeOK, Worker
<1>3. Visited \in SUBSET Flow /\ Before(next) \in SUBSET Flow /\ \A w \in Worker : mine[w] \in SUBSET Visited
  BY <1>1 DEF TypeOK, Visited, Before
<1>4. Bounded(merged) /\ \A w \in Worker : Bounded(summary[w])
  BY <1>1 DEF TypeOK
<1> QED  BY <1>1, <1>2, <1>3, <1>4 DEF TypeOK

\* An empty summary is within its bounds.
LEMMA Empty ==
  /\ NewSummary \in Summary /\ Bounded(NewSummary)
  /\ SeesPorts(NewSummary.ports, {}) /\ HoldsPorts(NewSummary.ports, {})
  /\ SeesServices(NewSummary, {})
<1>1. NewSummary \in Summary
  BY DEF NewSummary, Summary, Counter
<1>2. /\ Keys(NewSummary.bySrc) = {} /\ Keys(NewSummary.egress) = {} /\ Keys(NewSummary.exposed) = {}
      /\ {s \in Addr : NewSummary.ports.sets[s] # {}} = {}
      /\ \A a \in Addr : NewSummary.ports.sets[a] = {}
      /\ NewSummary.ports.truncated = FALSE /\ NewSummary.exposedDropped = 0
  BY DEF NewSummary, Keys
<1>3. Cardinality({}) = 0 /\ {} \ {OtherKey} = {} /\ \A a : ProbedPorts({}, a) = {}
  BY FS_EmptySet DEF ProbedPorts
<1>4. Bounded(NewSummary)
  <2>1. Sources(NewSummary.ports) = 0
    BY <1>2, <1>3 DEF Sources
  <2>2. \A c \in {NewSummary.bySrc, NewSummary.egress} : Cardinality(Keys(c) \ {OtherKey}) = 0
    BY <1>2, <1>3
  <2>3. /\ Cardinality(Keys(NewSummary.exposed)) = 0
        /\ \A a \in Addr : Cardinality(NewSummary.ports.sets[a]) = 0
    BY <1>2, <1>3
  <2>4. MaxKeys \in Nat /\ MaxSources \in Nat /\ ScanPorts \in Nat
    BY Limits
  <2> QED  BY <2>1, <2>2, <2>3, <2>4 DEF Bounded
<1>5. SeesPorts(NewSummary.ports, {}) /\ HoldsPorts(NewSummary.ports, {}) /\ SeesServices(NewSummary, {})
  BY <1>2, <1>3 DEF SeesPorts, HoldsPorts, SeesServices
<1> QED  BY <1>1, <1>4, <1>5

\* The invariant holds at the start.
LEMMA Start == Init => IInv
<1> SUFFICES ASSUME Init PROVE IInv
  OBVIOUS
<1>1. /\ summary = [w \in Worker |-> NewSummary] /\ matches = [w \in Worker |-> {}]
      /\ mine = [w \in Worker |-> {}] /\ next = 0 /\ merged = NewSummary
      /\ rest = NothingLeft /\ table = {}
  BY DEF Init
<1>2. Before(next) = {}
  BY <1>1 DEF Before
<1>3. TypeOK
  <2>1. summary \in [Worker -> Summary] /\ merged \in Summary
    BY <1>1, Empty
  <2>2. matches \in [Worker -> SUBSET Flow] /\ mine \in [Worker -> SUBSET Flow] /\ table \in SUBSET Flow
    BY <1>1
  <2>3. next \in 0 .. Workers + 2 /\ \A w \in Worker : Cardinality(matches[w]) < 2 * MaxEvents
    BY <1>1, Limits, FS_EmptySet
  <2>4. rest \in [bySrc : SUBSET Key, egress : SUBSET Key, exposed : SUBSET Service,
                  ports : SUBSET (Addr \X Port)]
    BY <1>1 DEF NothingLeft
  <2>5. \A s \in {summary[w] : w \in Worker} \cup {merged} : Bounded(s)
    BY <1>1, Empty
  <2> QED  BY <2>1, <2>2, <2>3, <2>4, <2>5 DEF TypeOK
<1>4. Shards
  BY <1>1, Empty DEF Shards
<1>5. Result
  <2>1. SeesPorts(merged.ports, Before(next)) /\ SeesServices(merged, Before(next))
    BY <1>1, <1>2, Empty
  <2>2. \A a \in Addr : AllPorts(Ahead(a), Before(next), a)
    BY <1>2 DEF AllPorts, ProbedPorts
  <2>3. rest = NothingLeft /\ rest.bySrc = {} /\ rest.egress = {} /\ rest.exposed = {} /\ rest.ports = {}
    BY <1>1 DEF NothingLeft
  <2>4. ~(next > Workers) /\ ~Done
    BY <1>1, Limits DEF Done
  <2> QED  BY <2>1, <2>2, <2>3, <2>4 DEF Result
<1>6. Table
  <2>1. Enough({}, {})
    BY DEF Enough
  <2>2. ~Done
    BY <1>1, Limits DEF Done
  <2> QED  BY <1>1, <1>2, <2>1, <2>2 DEF Table
<1> QED  BY <1>3, <1>4, <1>5, <1>6 DEF IInv

\* A worker visits a flow: its shard keeps its bounds and holds the flow, and its
\* flow table has enough of its flows, trimmed or not.
LEMMA VisitKeeps ==
  ASSUME IInv, NEW w \in Worker, NEW f \in Flow, Visit(w, f)
  PROVE  IInv'
<1>1. /\ next = 0 /\ f \notin Visited
      /\ mine' = [mine EXCEPT ![w] = mine[w] \cup {f}]
      /\ summary' = [summary EXCEPT ![w] = addFlow(summary[w], f)]
      /\ next' = next /\ merged' = merged /\ rest' = rest /\ table' = table
  BY DEF Visit, Scanning, mergeVars
<1>2. PICK T : /\ matches' = [matches EXCEPT ![w] = T]
               /\ IF Cardinality(matches[w] \cup {f}) >= 2 * MaxEvents
                  THEN T \in earliestVPC(matches[w] \cup {f}, MaxEvents)
                  ELSE T = matches[w] \cup {f}
  BY DEF Visit
<1>3. TypeOK /\ Shards /\ Result /\ Table
  BY DEF IInv
<1>4. /\ summary \in [Worker -> Summary] /\ mine \in [Worker -> SUBSET Flow]
      /\ matches \in [Worker -> SUBSET Flow] /\ Bounded(summary[w])
  BY Shape
<1>5. /\ addFlow(summary[w], f) \in Summary /\ Bounded(addFlow(summary[w], f))
      /\ SeesPorts(addFlow(summary[w], f).ports, mine[w] \cup {f})
      /\ HoldsPorts(addFlow(summary[w], f).ports, mine[w] \cup {f})
      /\ SeesServices(addFlow(summary[w], f), mine[w] \cup {f})
  BY <1>3, <1>4, AddFlowKeeps DEF Shards
<1>6. T \in SUBSET Flow /\ Cardinality(T) < 2 * MaxEvents /\ Enough(T, mine[w] \cup {f})
  <2> DEFINE m == matches[w] \cup {f}
  <2>1. m \in SUBSET Flow /\ IsFiniteSet(m) /\ Cardinality(m) \in Nat
    BY <1>4, Finite, Sizes
  <2>2. Enough(m, mine[w] \cup {f})
    <3>1. Enough({f}, {f}) /\ Enough(matches[w], mine[w])
      BY <1>3 DEF Enough, Table
    <3> QED  BY <3>1, EnoughTogether
  <2>3. CASE Cardinality(m) >= 2 * MaxEvents
    <3>1. T \in earliestVPC(m, MaxEvents)
      BY <1>2, <2>3
    <3> HIDE DEF m
    <3>2. /\ T \subseteq m /\ Cardinality(T) \in Nat
          /\ Cardinality(T) = IF MaxEvents <= Cardinality(m) THEN MaxEvents ELSE Cardinality(m)
      BY <2>1, <3>1, EarliestFacts
    <3>3. Cardinality(T) < 2 * MaxEvents
      BY <2>1, <2>3, <3>2, Limits
    <3>4. Enough(T, mine[w] \cup {f})
      BY <1>4, <2>1, <2>2, <3>1, EnoughOfEnough
    <3> QED  BY <2>1, <3>2, <3>3, <3>4
  <2>4. CASE ~(Cardinality(m) >= 2 * MaxEvents)
    <3>1. T = m
      BY <1>2, <2>4
    <3> HIDE DEF m
    <3> QED  BY <2>1, <2>2, <2>4, <3>1, Limits
  <2> QED  BY <2>3, <2>4
<1>7. /\ summary'[w] = addFlow(summary[w], f) /\ mine'[w] = mine[w] \cup {f} /\ matches'[w] = T
      /\ \A v \in Worker \ {w} : summary'[v] = summary[v] /\ mine'[v] = mine[v] /\ matches'[v] = matches[v]
      /\ summary' \in [Worker -> Summary] /\ mine' \in [Worker -> SUBSET Flow]
      /\ matches' \in [Worker -> SUBSET Flow]
  BY <1>1, <1>2, <1>4, <1>5, <1>6
<1>8. Before(next) = {} /\ Before(next)' = {}
  BY <1>1, Limits DEF Before, Worker
<1>9. rest = NothingLeft
  BY <1>1, <1>3 DEF Result
<1>10. TypeOK'
  <2>1. \A v \in Worker : Bounded(summary'[v]) /\ Cardinality(matches'[v]) < 2 * MaxEvents
    BY <1>3, <1>5, <1>6, <1>7 DEF TypeOK
  <2>2. Bounded(merged')
    BY <1>1, Shape
  <2> QED  BY <1>1, <1>3, <1>7, <2>1, <2>2 DEF TypeOK
<1>11. Shards'
  BY <1>3, <1>5, <1>7 DEF Shards
<1>12. Result'
  <2>1. SeesPorts(merged'.ports, Before(next)') /\ SeesServices(merged', Before(next)')
    BY <1>1, <1>3, <1>8 DEF Result
  <2>2. \A a \in Addr : AllPorts(Ahead(a)', Before(next)', a)
    BY <1>8 DEF AllPorts, ProbedPorts
  <2>3. rest' = NothingLeft /\ rest'.bySrc = {} /\ rest'.egress = {} /\ rest'.exposed = {} /\ rest'.ports = {}
    BY <1>1, <1>9 DEF NothingLeft
  <2>4. ~(next' > Workers) /\ ~Done'
    BY <1>1, Limits DEF Done
  <2> QED  BY <2>1, <2>2, <2>3, <2>4 DEF Result
<1>13. Table'
  <2>1. \A v \in Worker : Enough(matches'[v], mine'[v])
    BY <1>3, <1>6, <1>7 DEF Table
  <2>2. ~Done /\ ~Done'
    BY <1>1, Limits DEF Done
  <2>3. Enough(table', Before(next)')
    BY <1>1, <1>3, <1>8, <2>2 DEF Table
  <2> QED  BY <2>1, <2>2, <2>3 DEF Table
<1> QED  BY <1>10, <1>11, <1>12, <1>13 DEF IInv

\* What only merging may change leaves the shards as they are.
LEMMA ShardsStay ==
  ASSUME IInv, UNCHANGED shardVars
  PROVE  /\ Shards' /\ (\A w \in Worker : Enough(matches'[w], mine'[w]))
         /\ \A n : Before(n)' = Before(n)
         /\ (/\ merged' \in Summary /\ Bounded(merged') /\ table' \in SUBSET Flow
             /\ next' \in 0 .. Workers + 2
             /\ rest' \in [bySrc : SUBSET Key, egress : SUBSET Key, exposed : SUBSET Service,
                           ports : SUBSET (Addr \X Port)]) => TypeOK'
<1>1. summary' = summary /\ matches' = matches /\ mine' = mine
  BY DEF shardVars
<1>2. TypeOK /\ Shards /\ Table
  BY DEF IInv
<1>3. \A w \in Worker : Enough(matches'[w], mine'[w])
  BY <1>1, <1>2 DEF Table
<1> QED  BY <1>1, <1>2, <1>3 DEF Shards, TypeOK, Before

\* The scan ends.
LEMMA EndScanKeeps ==
  ASSUME IInv, EndScan
  PROVE  IInv'
<1>1. /\ next = 0 /\ next' = 1 /\ merged' = merged /\ rest' = rest /\ table' = table
      /\ UNCHANGED shardVars
  BY DEF EndScan, Scanning
<1>2. TypeOK /\ Shards /\ Result /\ Table
  BY DEF IInv
<1>3. Before(0) = {} /\ Before(1) = {}
  BY Limits DEF Before, Worker
<1>4. /\ Before(next) = {} /\ Before(next)' = {}
  BY <1>1, <1>3, ShardsStay
<1>5. TypeOK'
  <2>1. next' \in 0 .. Workers + 2
    BY <1>1, Limits
  <2> QED  BY <1>1, <1>2, <2>1, ShardsStay, Shape DEF TypeOK
<1>6. rest = NothingLeft
  BY <1>1, <1>2 DEF Result
<1>7. Result'
  <2>2. SeesPorts(merged'.ports, Before(next)') /\ SeesServices(merged', Before(next)')
    BY <1>1, <1>2, <1>4 DEF Result
  <2>3. \A a \in Addr : AllPorts(Ahead(a)', Before(next)', a)
    BY <1>4 DEF AllPorts, ProbedPorts
  <2>4. rest' = NothingLeft /\ rest'.bySrc = {} /\ rest'.egress = {} /\ rest'.exposed = {} /\ rest'.ports = {}
    BY <1>1, <1>6 DEF NothingLeft
  <2>5. ~(next' > Workers) /\ ~Done'
    BY <1>1, Limits DEF Done
  <2> QED  BY <2>2, <2>3, <2>4, <2>5 DEF Result
<1>8. Table'
  <2>1. ~Done /\ ~Done'
    BY <1>1, Limits DEF Done
  <2>2. Enough(table', Before(next)')
    BY <1>1, <1>2, <1>4, <2>1 DEF Table
  <2> QED  BY <1>1, <2>1, <2>2, ShardsStay DEF Table
<1> QED  BY <1>1, <1>5, <1>7, <1>8, ShardsStay DEF IInv

\* Nothing is left of a shard when each of its parts is empty, and only then.
LEMMA NothingLeftFacts ==
  /\ NothingLeft.bySrc = {} /\ NothingLeft.egress = {} /\ NothingLeft.exposed = {}
  /\ NothingLeft.ports = {}
  BY DEF NothingLeft

\* What holds the ports of two shards holds those of both together.
LEMMA PortsTogether ==
  ASSUME NEW S \in SUBSET Flow, NEW T \in SUBSET Flow, NEW a \in Addr,
         NEW P \in SUBSET Port, NEW Q \in SUBSET Port, AllPorts(P, S, a), AllPorts(Q, T, a)
  PROVE  AllPorts(P \cup Q, S \cup T, a)
<1>1. /\ IsFiniteSet(P \cup Q) /\ P \in SUBSET (P \cup Q) /\ Q \in SUBSET (P \cup Q)
  BY Finite, Sizes
<1>2. /\ Cardinality(P) <= Cardinality(P \cup Q) /\ Cardinality(P) \in Nat
      /\ Cardinality(Q) <= Cardinality(P \cup Q) /\ Cardinality(Q) \in Nat
      /\ Cardinality(P \cup Q) \in Nat
  BY <1>1, Sizes
<1>3. ProbedPorts(S \cup T, a) = ProbedPorts(S, a) \cup ProbedPorts(T, a)
  BY DEF ProbedPorts
<1>4. CASE Cardinality(P) >= ScanPorts \/ Cardinality(Q) >= ScanPorts
  BY <1>2, <1>4, Limits DEF AllPorts
<1>5. CASE ~(Cardinality(P) >= ScanPorts \/ Cardinality(Q) >= ScanPorts)
  BY <1>3, <1>5 DEF AllPorts
<1> QED  BY <1>4, <1>5

\* A shard is begun: its plain parts are added, the rest of it is in hand.
LEMMA MergeShardKeeps ==
  ASSUME IInv, MergeShard
  PROVE  IInv'
<1> DEFINE n == next
           o == summary[n]
<1>1. /\ n \in Worker /\ rest = NothingLeft /\ next' = n + 1 /\ UNCHANGED shardVars
      /\ merged' = [merged EXCEPT !.exposedDropped = @ + o.exposedDropped,
                                  !.ports.truncated = @ \/ o.ports.truncated]
      /\ rest' = [bySrc |-> Keys(o.bySrc), egress |-> Keys(o.egress), exposed |-> Keys(o.exposed),
                  ports |-> UNION {{s} \X o.ports.sets[s] : s \in Addr}]
      /\ table' = table \cup matches[n]
  BY DEF MergeShard
<1>2. TypeOK /\ Shards /\ Result /\ Table
  BY DEF IInv
<1>3. /\ o \in Summary /\ Bounded(o) /\ merged \in Summary /\ Bounded(merged) /\ mine[n] \in SUBSET Flow
      /\ Before(n) \in SUBSET Flow /\ n \in Nat /\ matches[n] \in SUBSET Flow /\ table \in SUBSET Flow
  BY <1>1, Shape
<1>4. /\ n + 1 \in 2 .. Workers + 1 /\ n \in 1 .. Workers /\ ~Done /\ ~Done'
  BY <1>1, Limits DEF Worker, Done
<1>5. Before(next)' = Before(n) \cup mine[n]
  <2>1. Before(next)' = Before(n + 1)
    BY <1>1, ShardsStay
  <2>2. \A w \in Worker : w < n + 1 <=> w < n \/ w = n
    BY <1>3, Shape
  <2>3. {w \in Worker : w < n + 1} = {w \in Worker : w < n} \cup {n}
    BY <1>1, <2>2
  <2> HIDE DEF n
  <2> QED  BY <2>1, <2>3 DEF Before
<1>6. PICK T : T = Before(n) \cup mine[n]
  OBVIOUS
<1>7. /\ T \in SUBSET Flow /\ Before(n) \in SUBSET T /\ mine[n] \in SUBSET T /\ Before(next)' = T
  BY <1>3, <1>5, <1>6
<1>8. InHand' = o
  BY <1>1, <1>3 DEF InHand, shardVars
<1> HIDE DEF n, o
<1>9. /\ merged' \in Summary /\ merged'.bySrc = merged.bySrc /\ merged'.egress = merged.egress
      /\ merged'.exposed = merged.exposed /\ merged'.ports \in Trackers
      /\ merged'.exposedDropped = merged.exposedDropped + o.exposedDropped
      /\ merged'.ports.sets = merged.ports.sets
      /\ merged'.ports.truncated = (merged.ports.truncated \/ o.ports.truncated)
  <2>1. PICK m : m = [merged.ports EXCEPT !.truncated = merged.ports.truncated \/ o.ports.truncated]
    OBVIOUS
  <2>2. /\ m \in Trackers /\ m.sets = merged.ports.sets
        /\ m.truncated = (merged.ports.truncated \/ o.ports.truncated)
    BY <1>3, <2>1 DEF Summary, Trackers
  <2>3. merged' = [merged EXCEPT !.exposedDropped = merged.exposedDropped + o.exposedDropped, !.ports = m]
    BY <1>1, <1>3, <2>1 DEF Summary
  <2>4. /\ merged'.bySrc = merged.bySrc /\ merged'.egress = merged.egress
        /\ merged'.exposed = merged.exposed /\ merged'.ports = m
        /\ merged'.exposedDropped = merged.exposedDropped + o.exposedDropped
    BY <1>3, <2>3 DEF Summary
  <2>5. merged.exposedDropped + o.exposedDropped \in Nat
    BY <1>3 DEF Summary
  <2>6. merged' \in Summary
    BY <1>3, <2>2, <2>3, <2>5 DEF Summary, Trackers
  <2> QED  BY <2>2, <2>4, <2>6
<1>10. TypeOK'
  <2>1. Bounded(merged')
    BY <1>3, <1>9 DEF Bounded, Sources
  <2>2. table' \in SUBSET Flow /\ next' \in 0 .. Workers + 2
    BY <1>1, <1>3, <1>4, Limits
  <2>3. rest' \in [bySrc : SUBSET Key, egress : SUBSET Key, exposed : SUBSET Service,
                   ports : SUBSET (Addr \X Port)]
    BY <1>1, <1>3 DEF Summary, Counter, Keys
  <2> QED  BY <1>1, <1>9, <2>1, <2>2, <2>3, ShardsStay
<1>11. /\ SeesPorts(merged.ports, T) /\ SeesServices(merged, T)
       /\ SeesPorts(o.ports, T) /\ SeesServices(o, T)
  <2>1. /\ SeesPorts(merged.ports, Before(n)) /\ SeesServices(merged, Before(n))
        /\ SeesPorts(o.ports, mine[n]) /\ SeesServices(o, mine[n])
    BY <1>1, <1>2 DEF Result, Shards, n, o
  <2> QED  BY <1>7, <2>1, SeesMore
<1>12. Result'
  <2>1. SeesPorts(merged'.ports, T)
    BY <1>9, <1>11 DEF SeesPorts
  <2>2. SeesServices(merged', T)
    <3>1. merged.exposedDropped \in Nat /\ o.exposedDropped \in Nat
      BY <1>3 DEF Summary
    <3>2. merged'.exposedDropped > 0 => merged.exposedDropped > 0 \/ o.exposedDropped > 0
      BY <1>9, <3>1
    <3> QED  BY <1>9, <1>11, <3>2 DEF SeesServices
  <2>3. ASSUME NEW a \in Addr, ~merged'.ports.truncated PROVE AllPorts(Ahead(a)', T, a)
    <3>1. Ahead(a) = merged.ports.sets[a]
      BY <1>1, NothingLeftFacts DEF Ahead
    <3>2. AllPorts(merged.ports.sets[a], Before(n), a)
      BY <1>2, <1>9, <2>3, <3>1 DEF Result, n
    <3>3. HoldsPorts(o.ports, mine[n])
      BY <1>1, <1>2 DEF Shards, o
    <3>4. AllPorts(o.ports.sets[a], mine[n], a)
      BY <1>9, <2>3, <3>3 DEF HoldsPorts, AllPorts
    <3>5. merged.ports.sets[a] \in SUBSET Port /\ o.ports.sets[a] \in SUBSET Port
      BY <1>3 DEF Summary
    <3>6. Ahead(a)' = merged.ports.sets[a] \cup o.ports.sets[a]
      <4>1. \A v \in Port : <<a, v>> \in rest'.ports <=> v \in o.ports.sets[a]
        BY <1>1
      <4> QED  BY <1>9, <3>5, <4>1 DEF Ahead
    <3> QED  BY <1>3, <1>6, <3>2, <3>4, <3>5, <3>6, PortsTogether
  <2>4. next' \in 2 .. Workers + 1
    BY <1>1, <1>4
  <2>5. /\ \A k \in rest'.bySrc : o.bySrc[k] > 0
        /\ \A k \in rest'.egress : o.egress[k] > 0
        /\ \A k \in rest'.exposed : o.exposed[k] > 0
    BY <1>1 DEF Keys
  <2>6. \A a \in Addr, v \in Port : <<a, v>> \in rest'.ports => v \in o.ports.sets[a]
    BY <1>1
  <2>7. next' > Workers => \A w \in Worker : w < next'
    <3>1. \A w \in Worker : w \in Nat /\ w <= Workers
      BY Limits DEF Worker
    <3> QED  BY <1>1, <1>3, <3>1, Limits
  <2>8. ~Done'
    BY <1>4
  <2> QED  BY <1>7, <1>8, <2>1, <2>2, <2>3, <2>4, <2>5, <2>6, <2>7, <2>8 DEF Result
<1>13. Table'
  <2>1. Enough(table, Before(n)) /\ Enough(matches[n], mine[n])
    BY <1>1, <1>2, <1>4 DEF Table, n
  <2>2. Enough(table', Before(next)')
    BY <1>1, <1>5, <2>1, EnoughTogether
  <2> QED  BY <1>1, <1>4, <2>2, ShardsStay DEF Table
<1> QED  BY <1>1, <1>10, <1>12, <1>13, ShardsStay DEF IInv

\* While a shard is in hand, its flows are among those merged.
LEMMA InHandFacts ==
  ASSUME IInv, rest # NothingLeft
  PROVE  /\ next \in 2 .. Workers + 1 /\ ~Done /\ next - 1 \in Worker
         /\ InHand = summary[next - 1] /\ InHand \in Summary
         /\ Before(next) \in SUBSET Flow /\ mine[next - 1] \in SUBSET Before(next)
<1>1. next \in 2 .. Workers + 1
  BY DEF IInv, Result
<1>2. /\ ~Done /\ next - 1 \in Worker /\ next - 1 < next
  BY <1>1, Limits DEF Done, Worker
<1>3. mine[next - 1] \in SUBSET Before(next)
  BY <1>2 DEF Before
<1>4. InHand \in Summary
  BY <1>2, Shape DEF InHand
<1> QED  BY <1>1, <1>2, <1>3, <1>4, Shape DEF InHand

\* A step that folds a key of the shard in hand into the result.
Folds == /\ UNCHANGED <<shardVars, next, table>>
         /\ rest'.bySrc \subseteq rest.bySrc /\ rest'.egress \subseteq rest.egress
         /\ rest'.exposed \subseteq rest.exposed /\ rest'.ports \subseteq rest.ports
         /\ rest' \in [bySrc : SUBSET Key, egress : SUBSET Key, exposed : SUBSET Service,
                       ports : SUBSET (Addr \X Port)]

\* It keeps the invariant if the result stays within its bounds, sees nothing that
\* is not there, and loses no port of a source.
LEMMA FoldKeeps ==
  ASSUME IInv, rest # NothingLeft, Folds, merged' \in Summary, Bounded(merged'),
         SeesPorts(merged'.ports, Before(next)), SeesServices(merged', Before(next)),
         \A a \in Addr : merged'.ports.truncated \/ AllPorts(Ahead(a)', Before(next), a)
  PROVE  IInv'
<1>1. UNCHANGED shardVars /\ next' = next /\ table' = table
  BY DEF Folds
<1>2. TypeOK /\ Shards /\ Result /\ Table
  BY DEF IInv
<1>3. Before(next)' = Before(next)
  BY <1>1, ShardsStay
<1>4. InHand' = InHand /\ Done' = Done /\ ~Done /\ next \in 2 .. Workers + 1
  BY <1>1, InHandFacts DEF InHand, Done, shardVars
<1>5. TypeOK'
  BY <1>1, Shape, ShardsStay DEF Folds
<1>6. Result'
  <2>1. /\ \A k \in rest'.bySrc : InHand.bySrc[k] > 0
        /\ \A k \in rest'.egress : InHand.egress[k] > 0
        /\ \A k \in rest'.exposed : InHand.exposed[k] > 0
        /\ \A a \in Addr, v \in Port : <<a, v>> \in rest'.ports => v \in InHand.ports.sets[a]
    BY <1>2 DEF Result, Folds
  <2>2. next' > Workers => \A w \in Worker : w < next'
    BY <1>1, <1>2 DEF Result
  <2> QED  BY <1>1, <1>3, <1>4, <2>1, <2>2 DEF Result
<1>7. Table'
  BY <1>1, <1>2, <1>3, <1>4, ShardsStay DEF Table
<1> QED  BY <1>1, <1>5, <1>6, <1>7, ShardsStay DEF IInv

\* What the result holds of the ports does not change with its other parts.
LEMMA PortsStand ==
  ASSUME IInv, merged'.ports = merged.ports, rest'.ports = rest.ports
  PROVE  /\ SeesPorts(merged'.ports, Before(next))
         /\ \A a \in Addr : merged'.ports.truncated \/ AllPorts(Ahead(a)', Before(next), a)
<1>1. \A a \in Addr : Ahead(a)' = Ahead(a)
  BY DEF Ahead
<1> QED  BY <1>1 DEF IInv, Result

\* A source of the shard in hand is added up.
LEMMA MergeSrcKeeps ==
  ASSUME IInv, NEW k \in Key, MergeSrc(k)
  PROVE  IInv'
<1>1. /\ k \in rest.bySrc
      /\ merged' = [merged EXCEPT !.bySrc = addCapped(@, k, InHand.bySrc[k])]
      /\ rest' = [rest EXCEPT !.bySrc = @ \ {k}]
      /\ UNCHANGED <<shardVars, next, table>>
  BY DEF MergeSrc
<1>2. rest # NothingLeft
  BY <1>1, NothingLeftFacts
<1>3. InHand.bySrc[k] \in Nat
  BY <1>2, InHandFacts DEF Summary, Counter
<1>4. /\ merged \in Summary /\ Bounded(merged) /\ Capped(merged.bySrc) /\ Capped(merged.egress)
      /\ Tracked(merged.ports) /\ Listed(merged.exposed)
  BY Shape, Parts
<1>5. PICK c : c = addCapped(merged.bySrc, k, InHand.bySrc[k])
  OBVIOUS
<1>6. Capped(c)
  BY <1>3, <1>4, <1>5, AddCappedFacts
<1>7. merged' = [merged EXCEPT !.bySrc = c] /\ c \in Counter
  BY <1>1, <1>5, <1>6 DEF Capped
<1>8. /\ merged' \in Summary /\ merged'.bySrc = c /\ merged'.egress = merged.egress
      /\ merged'.ports = merged.ports /\ merged'.exposed = merged.exposed
      /\ merged'.exposedDropped = merged.exposedDropped
  BY <1>4, <1>7 DEF Summary
<1>9. Bounded(merged')
  BY <1>4, <1>6, <1>8, Parts
<1>10. Folds /\ rest'.ports = rest.ports
  BY <1>1 DEF IInv, TypeOK, Folds
<1>11. SeesServices(merged', Before(next))
  BY <1>8 DEF IInv, Result, SeesServices
<1> QED  BY <1>2, <1>8, <1>9, <1>10, <1>11, PortsStand, FoldKeeps

\* A sender of the shard in hand is added up.
LEMMA MergeEgressKeeps ==
  ASSUME IInv, NEW k \in Key, MergeEgress(k)
  PROVE  IInv'
<1>1. /\ k \in rest.egress
      /\ merged' = [merged EXCEPT !.egress = addCapped(@, k, InHand.egress[k])]
      /\ rest' = [rest EXCEPT !.egress = @ \ {k}]
      /\ UNCHANGED <<shardVars, next, table>>
  BY DEF MergeEgress
<1>2. rest # NothingLeft
  BY <1>1, NothingLeftFacts
<1>3. InHand.egress[k] \in Nat
  BY <1>2, InHandFacts DEF Summary, Counter
<1>4. /\ merged \in Summary /\ Bounded(merged) /\ Capped(merged.bySrc) /\ Capped(merged.egress)
      /\ Tracked(merged.ports) /\ Listed(merged.exposed)
  BY Shape, Parts
<1>5. PICK c : c = addCapped(merged.egress, k, InHand.egress[k])
  OBVIOUS
<1>6. Capped(c)
  BY <1>3, <1>4, <1>5, AddCappedFacts
<1>7. merged' = [merged EXCEPT !.egress = c] /\ c \in Counter
  BY <1>1, <1>5, <1>6 DEF Capped
<1>8. /\ merged' \in Summary /\ merged'.egress = c /\ merged'.bySrc = merged.bySrc
      /\ merged'.ports = merged.ports /\ merged'.exposed = merged.exposed
      /\ merged'.exposedDropped = merged.exposedDropped
  BY <1>4, <1>7 DEF Summary
<1>9. Bounded(merged')
  BY <1>4, <1>6, <1>8, Parts
<1>10. Folds /\ rest'.ports = rest.ports
  BY <1>1 DEF IInv, TypeOK, Folds
<1>11. SeesServices(merged', Before(next))
  BY <1>8 DEF IInv, Result, SeesServices
<1> QED  BY <1>2, <1>8, <1>9, <1>10, <1>11, PortsStand, FoldKeeps

\* An exposed service of the shard in hand is added up, or dropped.
LEMMA MergeExposedKeeps ==
  ASSUME IInv, NEW k \in Service, MergeExposed(k)
  PROVE  IInv'
<1>1. /\ k \in rest.exposed
      /\ merged' = expose(merged, k, InHand.exposed[k])
      /\ rest' = [rest EXCEPT !.exposed = @ \ {k}]
      /\ UNCHANGED <<shardVars, next, table>>
  BY DEF MergeExposed
<1>2. rest # NothingLeft
  BY <1>1, NothingLeftFacts
<1>3. /\ InHand.exposed[k] \in Nat /\ next - 1 \in Worker /\ InHand = summary[next - 1]
      /\ Before(next) \in SUBSET Flow /\ mine[next - 1] \in SUBSET Before(next)
      /\ InHand \in Summary
  BY <1>2, InHandFacts DEF Summary
<1>4. /\ merged \in Summary /\ Bounded(merged) /\ Capped(merged.bySrc) /\ Capped(merged.egress)
      /\ Tracked(merged.ports) /\ Listed(merged.exposed)
  BY Shape, Parts
<1>5. k \in Reached(Before(next))
  <2>1. InHand.exposed[k] > 0
    BY <1>1 DEF IInv, Result
  <2>2. k \in Keys(InHand.exposed)
    BY <1>3, <2>1 DEF Keys, Summary
  <2>3. k \in Reached(mine[next - 1])
    BY <1>3, <2>2 DEF IInv, Shards, SeesServices
  <2> QED  BY <1>3, <2>3, MoreFlows
<1>6. PICK n : n = InHand.exposed[k]
  OBVIOUS
<1>7. n \in Nat /\ merged' = expose(merged, k, n)
  BY <1>1, <1>3, <1>6
<1>8. /\ merged' \in Summary /\ merged'.bySrc = merged.bySrc /\ merged'.egress = merged.egress
      /\ merged'.ports = merged.ports /\ Listed(merged'.exposed)
  BY <1>4, <1>7, ExposeFacts
<1>9. SeesServices(merged, Before(next))
  BY DEF IInv, Result
<1>10. SeesServices(merged', Before(next))
  BY <1>3, <1>4, <1>5, <1>7, <1>9, ExposeSees
<1>11. Bounded(merged')
  BY <1>4, <1>8, Parts
<1>12. Folds /\ rest'.ports = rest.ports
  BY <1>1 DEF IInv, TypeOK, Folds
<1> QED  BY <1>2, <1>8, <1>10, <1>11, <1>12, PortsStand, FoldKeeps

\* A port of the shard in hand is added to its source, or the source has enough, or
\* there is no place for it.
LEMMA MergePortKeeps ==
  ASSUME IInv, NEW s \in Addr, NEW v \in Port, MergePort(s, v)
  PROVE  IInv'
<1>1. /\ <<s, v>> \in rest.ports
      /\ merged' = [merged EXCEPT !.ports = Add(@, s, v)]
      /\ rest' = [rest EXCEPT !.ports = @ \ {<<s, v>>}]
      /\ UNCHANGED <<shardVars, next, table>>
  BY DEF MergePort
<1>2. rest # NothingLeft
  BY <1>1, NothingLeftFacts
<1>3. /\ next - 1 \in Worker /\ InHand = summary[next - 1]
      /\ Before(next) \in SUBSET Flow /\ mine[next - 1] \in SUBSET Before(next)
  BY <1>2, InHandFacts
<1>4. /\ merged \in Summary /\ Bounded(merged) /\ Capped(merged.bySrc) /\ Capped(merged.egress)
      /\ Tracked(merged.ports) /\ Listed(merged.exposed)
  BY Shape, Parts
<1>5. v \in ProbedPorts(Before(next), s)
  <2>1. v \in InHand.ports.sets[s]
    BY <1>1 DEF IInv, Result
  <2>2. v \in ProbedPorts(mine[next - 1], s)
    BY <1>3, <2>1 DEF IInv, Shards, SeesPorts
  <2> QED  BY <1>3, <2>2, MoreFlows
<1>6. PICK d : d = merged.ports
  OBVIOUS
<1>7. PICK e : e = Add(d, s, v)
  OBVIOUS
<1>8. /\ Tracked(e) /\ \A a \in Addr \ {s} : e.sets[a] = d.sets[a]
      /\ \/ d.sets[s] = {} /\ e.sets[s] = {} /\ Sources(d) >= MaxSources /\ e.truncated
         \/ e.sets[s] = d.sets[s] \cup {v} /\ e.truncated = d.truncated
         \/ Cardinality(d.sets[s]) >= ScanPorts /\ d.sets[s] # {} /\ e = d
  BY <1>4, <1>6, <1>7, AddFacts
<1>9. /\ merged' \in Summary /\ merged'.bySrc = merged.bySrc /\ merged'.egress = merged.egress
      /\ merged'.ports = e /\ merged'.exposed = merged.exposed
      /\ merged'.exposedDropped = merged.exposedDropped
  <2>1. merged' = [merged EXCEPT !.ports = e] /\ e \in Trackers
    BY <1>1, <1>6, <1>7, <1>8 DEF Tracked
  <2> QED  BY <1>4, <2>1 DEF Summary, Trackers
<1>10. Bounded(merged')
  BY <1>4, <1>8, <1>9, Parts
<1>11. Folds /\ rest'.ports = rest.ports \ {<<s, v>>}
  BY <1>1 DEF IInv, TypeOK, Folds
<1>12. SeesServices(merged', Before(next))
  BY <1>9 DEF IInv, Result, SeesServices
<1>13. SeesPorts(merged'.ports, Before(next))
  <2>1. SeesPorts(d, Before(next)) /\ Tracked(d)
    BY <1>4, <1>6 DEF IInv, Result
  <2> QED  BY <1>3, <1>5, <1>7, <1>9, <2>1, AddSees
<1>14. ASSUME NEW a \in Addr, ~merged'.ports.truncated PROVE AllPorts(Ahead(a)', Before(next), a)
  <2> DEFINE R == {x \in Port : <<a, x>> \in rest.ports}
             Q == {x \in Port : <<a, x>> \in rest'.ports}
  <2>1. ~d.truncated /\ ~e.truncated
    BY <1>8, <1>9, <1>14
  <2>2. AllPorts(d.sets[a] \cup R, Before(next), a)
    BY <1>6, <2>1 DEF IInv, Result, Ahead
  <2>3. Ahead(a)' = e.sets[a] \cup Q
    BY <1>9 DEF Ahead
  <2>4. a # s => Q = R
    BY <1>11
  <2>5. a = s => R = Q \cup {v}
    BY <1>1, <1>11
  <2>6. /\ d.sets[a] \in SUBSET Port /\ e.sets[a] \in SUBSET Port
        /\ Q \in SUBSET Port
    BY <1>4, <1>6, <1>8 DEF Tracked, Trackers
  <2> HIDE DEF R, Q
  <2>7. CASE a # s
    BY <1>8, <2>2, <2>3, <2>4, <2>7
  <2>8. CASE a = s /\ e.sets[a] = d.sets[a] \cup {v}
    <3>1. e.sets[a] \cup Q = d.sets[a] \cup R
      BY <2>5, <2>8
    <3> QED  BY <2>2, <2>3, <3>1
  <2>9. CASE a = s /\ Cardinality(d.sets[a]) >= ScanPorts /\ e = d
    <3>1. d.sets[a] \cup Q \in SUBSET Port /\ d.sets[a] \in SUBSET (d.sets[a] \cup Q)
      BY <2>6
    <3>2. IsFiniteSet(d.sets[a] \cup Q)
      BY <3>1, Finite, Sizes
    <3>3. /\ Cardinality(d.sets[a]) <= Cardinality(d.sets[a] \cup Q)
          /\ Cardinality(d.sets[a]) \in Nat /\ Cardinality(d.sets[a] \cup Q) \in Nat
      BY <3>1, <3>2, Sizes
    <3>4. Cardinality(d.sets[a] \cup Q) >= ScanPorts
      BY <2>9, <3>3, Limits
    <3> QED  BY <2>3, <2>9, <3>4 DEF AllPorts
  <2> QED  BY <1>8, <2>1, <2>7, <2>8, <2>9
<1>15. \A a \in Addr : merged'.ports.truncated \/ AllPorts(Ahead(a)', Before(next), a)
  BY <1>14
<1> QED  BY <1>2, <1>9, <1>10, <1>11, <1>12, <1>13, <1>15, FoldKeeps

\* When all shards are merged, the result is that of all flows.
LEMMA AllMerged ==
  ASSUME IInv, NEW n \in Nat, n > Workers
  PROVE  Before(n) = Visited
<1>1. \A w \in Worker : w < n
  BY Limits DEF Worker
<1> QED  BY <1>1 DEF Before, Visited

\* The flow table is cut to its size.
LEMMA CutKeeps ==
  ASSUME IInv, Cut
  PROVE  IInv'
<1>1. /\ next = Workers + 1 /\ rest = NothingLeft /\ next' = Workers + 2
      /\ table' \in earliestVPC(table, MaxEvents)
      /\ UNCHANGED shardVars /\ merged' = merged /\ rest' = rest
  BY DEF Cut
<1>2. TypeOK /\ Shards /\ Result /\ Table
  BY DEF IInv
<1>3. ~Done /\ Done' /\ next \in Nat /\ next > Workers /\ next' \in Nat /\ next' > Workers
  BY <1>1, Limits DEF Done
<1>4. Before(next) = Visited /\ Before(next)' = Visited /\ Visited' = Visited
  <2>1. Before(next)' = Before(next')
    BY <1>1, ShardsStay
  <2>2. Visited' = Visited
    BY <1>1 DEF Visited, shardVars
  <2> QED  BY <1>3, <2>1, <2>2, AllMerged
<1>5. TypeOK'
  <2>1. table' \in SUBSET Flow
    BY <1>1, Shape DEF earliestVPC
  <2>2. next' \in 0 .. Workers + 2
    BY <1>1, Limits
  <2> QED  BY <1>1, <1>2, <2>1, <2>2, Shape, ShardsStay DEF TypeOK
<1>6. Result'
  <2>1. SeesPorts(merged'.ports, Before(next)') /\ SeesServices(merged', Before(next)')
    BY <1>1, <1>2, <1>4 DEF Result
  <2>2. \A a \in Addr : merged'.ports.truncated \/ AllPorts(Ahead(a)', Before(next)', a)
    <3>1. \A a \in Addr : Ahead(a)' = Ahead(a)
      BY <1>1 DEF Ahead
    <3> QED  BY <1>1, <1>2, <1>4, <3>1 DEF Result
  <2>3. rest' = NothingLeft /\ rest'.bySrc = {} /\ rest'.egress = {} /\ rest'.exposed = {} /\ rest'.ports = {}
    BY <1>1 DEF NothingLeft
  <2>4. \A w \in Worker : w < next'
    BY <1>1, Limits DEF Worker
  <2> QED  BY <2>1, <2>2, <2>3, <2>4 DEF Result
<1>7. Table'
  <2>1. Enough(table, Visited) /\ Visited \in SUBSET Flow
    BY <1>2, <1>3, <1>4, Shape DEF Table
  <2>2. table' \in earliestVPC(Visited', MaxEvents)
    BY <1>1, <1>4, <2>1, EarliestOfEnough
  <2> QED  BY <1>1, <1>3, <2>2, ShardsStay DEF Table
<1> QED  BY <1>1, <1>5, <1>6, <1>7, ShardsStay DEF IInv

\* A step that changes nothing.
LEMMA StutterKeeps ==
  ASSUME IInv, UNCHANGED vars
  PROVE  IInv'
<1>1. UNCHANGED shardVars /\ next' = next /\ merged' = merged /\ rest' = rest /\ table' = table
  BY DEF vars, mergeVars
<1>2. TypeOK /\ Shards /\ Result /\ Table
  BY DEF IInv
<1>3. Before(next)' = Before(next) /\ Visited' = Visited /\ InHand' = InHand /\ Done' = Done
  BY <1>1, ShardsStay DEF Visited, InHand, Done, shardVars
<1>4. \A a \in Addr : Ahead(a)' = Ahead(a)
  BY <1>1 DEF Ahead
<1>5. TypeOK'
  BY <1>1, <1>2, Shape, ShardsStay DEF TypeOK
<1>6. Result'
  BY <1>1, <1>2, <1>3, <1>4 DEF Result
<1>7. Table'
  BY <1>1, <1>2, <1>3, ShardsStay DEF Table
<1> QED  BY <1>1, <1>5, <1>6, <1>7, ShardsStay DEF IInv

\* Every step keeps the invariant.
LEMMA StepKeeps == IInv /\ [Next]_vars => IInv'
<1> SUFFICES ASSUME IInv, [Next]_vars PROVE IInv'
  OBVIOUS
<1>1. CASE \E w \in Worker, f \in Flow : Visit(w, f)
  BY <1>1, VisitKeeps
<1>2. CASE EndScan \/ MergeShard \/ Cut
  BY <1>2, EndScanKeeps, MergeShardKeeps, CutKeeps
<1>3. CASE \E k \in Key : MergeSrc(k) \/ MergeEgress(k)
  BY <1>3, MergeSrcKeeps, MergeEgressKeeps
<1>4. CASE \E k \in Service : MergeExposed(k)
  BY <1>4, MergeExposedKeeps
<1>5. CASE \E s \in Addr, v \in Port : MergePort(s, v)
  BY <1>5, MergePortKeeps
<1>6. CASE Stop \/ UNCHANGED vars
  BY <1>6, StutterKeeps DEF Stop
<1> QED  BY <1>1, <1>2, <1>3, <1>4, <1>5, <1>6 DEF Next

\* The invariant holds in every state.
LEMMA Invariance == Spec => []IInv
  BY Start, StepKeeps, PTL DEF Spec
-----------------------------------------------------------------------------
\* Memory stays bounded: no counter, tracker or list of a shard or of the result
\* grows over its limit, and no worker keeps twice the flow table (internal/stats/
\* bounded.go; vpc.go: visit, earliestVPC).
THEOREM MemoryBounded == Spec => []TypeOK
<1>1. IInv => TypeOK
  BY DEF IInv
<1> QED  BY <1>1, Invariance, PTL

\* Port scanners: those found are real, all of them are found unless a source was left
\* out, and something is reported as left out only if there was too much of it
\* (internal/stats/bounded.go; internal/vpcrules/rules.go).
THEOREM PortScansFound == Spec => []PortScansExact
<1>1. IInv => PortScansExact
  <2> SUFFICES ASSUME IInv, Done PROVE PortScansExact
    BY DEF PortScansExact
  <2> DEFINE real == {a \in Addr : Cardinality(ProbedPorts(Visited, a)) >= ScanPorts}
  <2>1. Before(next) = Visited /\ rest = NothingLeft /\ Visited \in SUBSET Flow
    <3>1. next \in Nat /\ next > Workers
      BY Limits DEF Done
    <3>2. Before(next) = Visited
      BY <3>1, AllMerged
    <3> QED  BY <3>2, Shape DEF IInv, Result
  <2>2. SeesPorts(merged.ports, Visited) /\ SeesServices(merged, Visited)
    BY <2>1 DEF IInv, Result
  <2>3. \A a \in Addr : Ahead(a) = merged.ports.sets[a]
    BY <2>1, NothingLeftFacts DEF Ahead
  <2>4. \A a \in Addr : merged.ports.truncated \/ AllPorts(merged.ports.sets[a], Visited, a)
    BY <2>1, <2>3 DEF IInv, Result
  <2>5. ASSUME NEW a \in Addr
        PROVE  /\ merged.ports.sets[a] \in SUBSET ProbedPorts(Visited, a)
               /\ Cardinality(merged.ports.sets[a]) <= Cardinality(ProbedPorts(Visited, a))
               /\ Cardinality(merged.ports.sets[a]) \in Nat
               /\ Cardinality(ProbedPorts(Visited, a)) \in Nat
    <3>1. merged.ports.sets[a] \in SUBSET ProbedPorts(Visited, a)
      BY <2>2 DEF SeesPorts
    <3>2. ProbedPorts(Visited, a) \in SUBSET Port
      BY <2>1, MoreFlows
    <3>3. IsFiniteSet(ProbedPorts(Visited, a))
      BY <3>2, Finite, Sizes
    <3> QED  BY <3>1, <3>3, Sizes
  <2>6. PortScans(merged) \subseteq real
    BY <2>5, Limits DEF PortScans
  <2>7. ASSUME ~merged.ports.truncated, NEW a \in real PROVE a \in PortScans(merged)
    <3>1. CASE Cardinality(merged.ports.sets[a]) >= ScanPorts
      BY <3>1 DEF PortScans
    <3>2. CASE ProbedPorts(Visited, a) \subseteq merged.ports.sets[a]
      <4>1. ProbedPorts(Visited, a) = merged.ports.sets[a]
        BY <2>5, <3>2
      <4> QED  BY <4>1 DEF PortScans
    <3> QED  BY <2>4, <2>7, <3>1, <3>2 DEF AllPorts
  <2>8. NoteJustified
    BY <2>2 DEF NoteJustified, SeesPorts, SeesServices, Probers, Reached
  <2> QED  BY <2>6, <2>7, <2>8 DEF PortScansExact
<1> QED  BY <1>1, Invariance, PTL

\* The flow table holds the earliest of all flows, however they were spread over the
\* workers and however often a worker trimmed what it kept (vpc.go: visit, VPC).
THEOREM EarliestOfAll == Spec => []EarliestKept
<1>1. IInv => EarliestKept
  <2> SUFFICES ASSUME IInv, Done PROVE EarliestKept
    BY DEF EarliestKept
  <2>1. table \in earliestVPC(Visited, MaxEvents)
    BY DEF IInv, Table
  <2> QED  BY <2>1 DEF earliestVPC, EarliestKept
<1> QED  BY <1>1, Invariance, PTL

-----------------------------------------------------------------------------
(***************************************************************************)
(* Sums over finite sets. The library's theorems on induction and on       *)
(* recursive definitions take an operator as a parameter; with a set in    *)
(* its place, of the numbers or of the sets that a claim holds for,        *)
(* induction is a fact about that set.                                     *)
(***************************************************************************)

\* A set of numbers has a least one: of the intervals up to its members, one does
\* not contain another.
LEMMA LeastFacts ==
  ASSUME NEW S \in SUBSET Nat, S # {}
  PROVE  \E n \in S : \A m \in S : n <= m
<1> DEFINE T == {0 .. n : n \in S}
           R == StrictSubsetOrdering(Nat)
<1>1. T \subseteq FiniteSubsetsOf(Nat) /\ T # {}
  <2>1. \A n \in S : 0 .. n \subseteq Nat /\ IsFiniteSet(0 .. n)
    BY FS_Interval
  <2> QED  BY <2>1 DEF FiniteSubsetsOf
<1>2. IsWellFoundedOn(R, FiniteSubsetsOf(Nat))
  BY FS_StrictSubsetOrderingWellFounded
<1>3. \E X \in T : \A Y \in T : <<Y, X>> \notin R
  <2> HIDE DEF T, R
  <2> QED  BY <1>1, <1>2, WFMin
<1>4. PICK n \in S : \A m \in S : <<0 .. m, 0 .. n>> \notin R
  BY <1>3
<1>5. ASSUME NEW m \in S, m < n PROVE FALSE
  <2>1. 0 .. m \in SUBSET Nat /\ 0 .. n \in SUBSET Nat /\ 0 .. m \subseteq 0 .. n
    BY <1>5
  <2>2. n \in 0 .. n /\ n \notin 0 .. m
    BY <1>5
  <2>3. <<0 .. m, 0 .. n>> \in R
    BY <2>1, <2>2 DEF StrictSubsetOrdering
  <2> QED  BY <1>4, <2>3
<1>6. \A m \in S : n <= m
  BY <1>5
<1> QED  BY <1>6

\* Induction over the numbers.
LEMMA EveryNumber ==
  ASSUME NEW P, 0 \in P, \A n \in Nat : n \in P => n + 1 \in P
  PROVE  \A n \in Nat : n \in P
<1> SUFFICES ASSUME Nat \ P # {} PROVE FALSE
  OBVIOUS
<1>1. PICK n \in Nat \ P : \A m \in Nat \ P : n <= m
  BY LeastFacts
<1>2. n - 1 \in Nat /\ n - 1 \notin P
  <2>1. n # 0
    OBVIOUS
  <2>2. n - 1 \in Nat /\ n = (n - 1) + 1
    BY <2>1
  <2>3. n - 1 \in P => n \in P
    BY <2>2
  <2> QED  BY <2>2, <2>3
<1>3. n - 1 \in Nat \ P
  BY <1>2
<1>4. n <= n - 1
  BY <1>1, <1>3
<1> QED  BY <1>4

\* Induction over a finite set, one element at a time.
LEMMA EverySet ==
  ASSUME NEW D, IsFiniteSet(D), NEW P, {} \in P,
         \A S \in SUBSET D, x \in D : S \in P /\ x \notin S => S \cup {x} \in P
  PROVE  D \in P
<1> DEFINE Q == {n \in Nat : \A S \in SUBSET D : Cardinality(S) <= n => S \in P}
<1>1. \A S \in SUBSET D : IsFiniteSet(S) /\ Cardinality(S) \in Nat
  BY Sizes
<1>2. 0 \in Q
  <2>1. \A S \in SUBSET D : Cardinality(S) <= 0 => S = {}
    BY <1>1, FS_EmptySet
  <2> QED  BY <2>1
<1>3. ASSUME NEW n \in Nat, n \in Q PROVE n + 1 \in Q
  <2> SUFFICES ASSUME NEW S \in SUBSET D, Cardinality(S) <= n + 1 PROVE S \in P
    OBVIOUS
  <2>1. CASE S = {}
    BY <2>1
  <2>2. CASE S # {}
    <3>1. PICK x : x \in S
      BY <2>2
    <3>2. S \ {x} \in SUBSET D /\ x \in D /\ x \notin S \ {x} /\ (S \ {x}) \cup {x} = S
      BY <3>1
    <3>3. Cardinality(S) = Cardinality(S \ {x}) + 1
      BY <1>1, <3>2, OneMore
    <3>4. Cardinality(S \ {x}) <= n
      BY <1>1, <3>2, <3>3
    <3>5. S \ {x} \in P
      BY <1>3, <3>2, <3>4
    <3> QED  BY <3>2, <3>5
  <2> QED  BY <2>1, <2>2
<1> HIDE DEF Q
<1>4. Cardinality(D) \in Q
  <2>1. \A n \in Nat : n \in Q
    BY <1>2, <1>3, EveryNumber
  <2> QED  BY <1>1, <2>1
<1>5. Cardinality(D) <= Cardinality(D)
  BY <1>1
<1> QED  BY <1>4, <1>5 DEF Q

\* The element that a sum takes first.
First(s) == CHOOSE x \in s : TRUE

\* g gives the sums of f over the parts of D.
Unfolds(g, f, D) == \A s \in SUBSET D : g[s] = IF s = {} THEN 0 ELSE f[First(s)] + g[s \ {First(s)}]
Adds(g, f, D) == g \in [SUBSET D -> Nat] /\ Unfolds(g, f, D)

\* There are such sums: up to size 0, and up to each size after it.
LEMMA SumsExist ==
  ASSUME NEW D, IsFiniteSet(D), NEW f, \A x \in D : f[x] \in Nat
  PROVE  \E g : Adds(g, f, D)
<1> DEFINE Rest(g, s) == IF s = {} THEN 0 ELSE f[First(s)] + g[s \ {First(s)}]
           UpTo(g, n) == \A s \in SUBSET D : Cardinality(s) <= n => g[s] = Rest(g, s)
           Q == {n \in Nat : \E g \in [SUBSET D -> Nat] : UpTo(g, n)}
<1>1. \A s \in SUBSET D : IsFiniteSet(s) /\ Cardinality(s) \in Nat
  BY Sizes
<1>2. \A s \in SUBSET D : s # {} => First(s) \in s
  BY DEF First
<1>3. 0 \in Q
  <2> DEFINE g == [s \in SUBSET D |-> 0]
  <2>1. \A s \in SUBSET D : Cardinality(s) <= 0 => s = {}
    BY <1>1, FS_EmptySet
  <2>2. g \in [SUBSET D -> Nat] /\ UpTo(g, 0)
    BY <2>1
  <2> HIDE DEF g, UpTo
  <2> QED  BY <2>2
<1>4. ASSUME NEW n \in Nat, n \in Q PROVE n + 1 \in Q
  <2>1. PICK g \in [SUBSET D -> Nat] : UpTo(g, n)
    BY <1>4
  <2> DEFINE h == [s \in SUBSET D |-> Rest(g, s)]
  <2>2. h \in [SUBSET D -> Nat]
    <3>1. \A s \in SUBSET D : Rest(g, s) \in Nat
      <4> SUFFICES ASSUME NEW s \in SUBSET D PROVE Rest(g, s) \in Nat
        OBVIOUS
      <4>1. CASE s = {}
        BY <4>1
      <4>2. CASE s # {}
        <5>1. f[First(s)] \in Nat /\ g[s \ {First(s)}] \in Nat
          BY <1>2, <4>2
        <5> QED  BY <4>2, <5>1
      <4> QED  BY <4>1, <4>2
    <3> HIDE DEF Rest
    <3> QED  BY <3>1
  <2>3. ASSUME NEW s \in SUBSET D, Cardinality(s) <= n + 1 PROVE h[s] = Rest(h, s)
    <3>1. CASE s = {}
      BY <3>1
    <3>2. CASE s # {}
      <4>1. PICK t : t = s \ {First(s)}
        OBVIOUS
      <4>2. First(s) \in s /\ t \in SUBSET D /\ First(s) \notin t /\ t \cup {First(s)} = s
        BY <1>2, <3>2, <4>1
      <4>3. Cardinality(s) = Cardinality(t) + 1
        BY <1>1, <4>2, OneMore
      <4>4. Cardinality(t) <= n
        BY <1>1, <2>3, <4>2, <4>3
      <4>5. g[t] = Rest(g, t)
        BY <2>1, <4>2, <4>4
      <4>6. h[t] = g[t]
        BY <4>2, <4>5
      <4>7. h[s] = f[First(s)] + g[t]
        BY <3>2, <4>1
      <4> QED  BY <3>2, <4>1, <4>6, <4>7
    <3> QED  BY <3>1, <3>2
  <2>4. UpTo(h, n + 1)
    BY <2>3
  <2> HIDE DEF h, UpTo
  <2> QED  BY <2>2, <2>4
<1> HIDE DEF Q
<1>5. \A n \in Nat : n \in Q
  BY <1>3, <1>4, EveryNumber
<1>6. PICK g \in [SUBSET D -> Nat] : UpTo(g, Cardinality(D))
  BY <1>1, <1>5 DEF Q
<1>7. \A s \in SUBSET D : Cardinality(s) <= Cardinality(D)
  BY Sizes
<1> QED  BY <1>6, <1>7 DEF Adds, Unfolds

\* Sum takes a function that satisfies its recursion, if there is one.
LEMMA SumUnfolds ==
  ASSUME NEW f, NEW S
  PROVE  Sum(f, S) = (CHOOSE g : g = [s \in SUBSET S |-> IF s = {} THEN 0
                                        ELSE f[CHOOSE x \in s : TRUE] + g[s \ {CHOOSE x \in s : TRUE}]])[S]
  BY DEF Sum, MapThenSumSet, MapThenFoldSet

\* Sums of a part are the same, whatever it is a part of.
LEMMA SumsAgree ==
  ASSUME NEW D, IsFiniteSet(D), NEW S \in SUBSET D, NEW f, NEW g, NEW h,
         Unfolds(g, f, D), Unfolds(h, f, S)
  PROVE  h[S] = g[S]
<1> DEFINE Q == {n \in Nat : \A s \in SUBSET S : Cardinality(s) <= n => h[s] = g[s]}
<1>1. \A s \in SUBSET S : s \in SUBSET D /\ IsFiniteSet(s) /\ Cardinality(s) \in Nat
  BY Sizes
<1>2. /\ \A s \in SUBSET D : g[s] = IF s = {} THEN 0 ELSE f[First(s)] + g[s \ {First(s)}]
      /\ \A s \in SUBSET S : h[s] = IF s = {} THEN 0 ELSE f[First(s)] + h[s \ {First(s)}]
  BY DEF Unfolds
<1>3. 0 \in Q
  <2>1. \A s \in SUBSET S : Cardinality(s) <= 0 => s = {}
    BY <1>1, FS_EmptySet
  <2> QED  BY <1>2, <2>1
<1>4. ASSUME NEW n \in Nat, n \in Q PROVE n + 1 \in Q
  <2> SUFFICES ASSUME NEW s \in SUBSET S, Cardinality(s) <= n + 1 PROVE h[s] = g[s]
    OBVIOUS
  <2>1. CASE s = {}
    BY <1>2, <2>1
  <2>2. CASE s # {}
    <3>1. PICK t : t = s \ {First(s)}
      OBVIOUS
    <3>2. First(s) \in s /\ t \in SUBSET S /\ First(s) \notin t /\ t \cup {First(s)} = s
      BY <2>2, <3>1 DEF First
    <3>3. Cardinality(s) = Cardinality(t) + 1
      BY <1>1, <3>2, OneMore
    <3>4. Cardinality(t) <= n
      BY <1>1, <3>2, <3>3
    <3>5. h[t] = g[t]
      BY <1>4, <3>2, <3>4
    <3>6. h[s] = f[First(s)] + h[t] /\ g[s] = f[First(s)] + g[t]
      BY <1>1, <1>2, <2>2, <3>1
    <3> QED  BY <3>5, <3>6
  <2> QED  BY <2>1, <2>2
<1> HIDE DEF Q
<1>5. Cardinality(S) \in Q
  <2>1. \A n \in Nat : n \in Q
    BY <1>3, <1>4, EveryNumber
  <2> QED  BY <1>1, <2>1
<1>6. Cardinality(S) <= Cardinality(S)
  BY <1>1
<1> QED  BY <1>5, <1>6 DEF Q

\* So Sum is that function.
LEMMA SumIs ==
  ASSUME NEW D, IsFiniteSet(D), NEW S \in SUBSET D, NEW f, \A x \in D : f[x] \in Nat,
         NEW g, Adds(g, f, D)
  PROVE  Sum(f, S) = g[S]
<1> DEFINE Is(h) == h = [s \in SUBSET S |-> IF s = {} THEN 0
                                     ELSE f[CHOOSE x \in s : TRUE] + h[s \ {CHOOSE x \in s : TRUE}]]
<1>1. IsFiniteSet(S) /\ \A x \in S : f[x] \in Nat
  BY Sizes
<1>2. PICK e : Adds(e, f, S)
  BY <1>1, SumsExist
<1>3. Is(e)
  BY <1>2 DEF Adds, Unfolds, First
<1>4. PICK h : h = CHOOSE k : Is(k)
  OBVIOUS
<1>5. Is(h) /\ Sum(f, S) = h[S]
  <2>1. Sum(f, S) = (CHOOSE k : Is(k))[S]
    BY SumUnfolds
  <2> HIDE DEF Is
  <2> QED  BY <1>3, <1>4, <2>1
<1>6. Unfolds(h, f, S)
  BY <1>5 DEF First, Unfolds
<1> HIDE DEF Is
<1>7. h[S] = g[S]
  BY <1>6, SumsAgree DEF Adds
<1> QED  BY <1>5, <1>7

\* One element at a time.
LEMMA SumRec ==
  ASSUME NEW S, IsFiniteSet(S), NEW f, \A x \in S : f[x] \in Nat
  PROVE  /\ Sum(f, S) \in Nat
         /\ S # {} => /\ First(S) \in S
                      /\ Sum(f, S) = f[First(S)] + Sum(f, S \ {First(S)})
<1>1. PICK g : Adds(g, f, S)
  BY SumsExist
<1>2. \A s \in SUBSET S : Sum(f, s) = g[s]
  BY <1>1, SumIs
<1>3. S \in SUBSET S /\ S \ {First(S)} \in SUBSET S
  OBVIOUS
<1> QED  BY <1>1, <1>2, <1>3 DEF Adds, Unfolds, First

\* Nothing adds up to 0.
LEMMA SumEmpty ==
  ASSUME NEW f
  PROVE  Sum(f, {}) = 0
<1>1. IsFiniteSet({}) /\ \A x \in {} : f[x] \in Nat
  BY FS_EmptySet
<1>2. PICK g : Adds(g, f, {})
  BY <1>1, SumsExist
<1>3. {} \in SUBSET {}
  OBVIOUS
<1>4. Sum(f, {}) = g[{}]
  BY <1>1, <1>2, <1>3, SumIs
<1> QED  BY <1>2, <1>3, <1>4 DEF Adds, Unfolds

\* An element more adds its value, wherever in the order of the sum it comes.
LEMMA SumAdd ==
  ASSUME NEW D, IsFiniteSet(D), NEW f, \A x \in D : f[x] \in Nat,
         NEW S0 \in SUBSET D, NEW x0 \in D, x0 \notin S0
  PROVE  Sum(f, S0 \cup {x0}) = Sum(f, S0) + f[x0]
<1> DEFINE Q == {n \in Nat : \A S \in SUBSET D, x \in D :
                     x \notin S /\ Cardinality(S) <= n => Sum(f, S \cup {x}) = Sum(f, S) + f[x]}
<1>0. \A S \in SUBSET D : IsFiniteSet(S) /\ Cardinality(S) \in Nat
  BY Sizes
<1>1. \A S \in SUBSET D : /\ Sum(f, S) \in Nat
                          /\ S # {} => /\ First(S) \in S
                                       /\ Sum(f, S) = f[First(S)] + Sum(f, S \ {First(S)})
  <2> SUFFICES ASSUME NEW S \in SUBSET D
               PROVE  /\ Sum(f, S) \in Nat
                      /\ S # {} => /\ First(S) \in S
                                   /\ Sum(f, S) = f[First(S)] + Sum(f, S \ {First(S)})
    OBVIOUS
  <2>1. IsFiniteSet(S) /\ \A x \in S : f[x] \in Nat
    BY <1>0
  <2> QED  BY <2>1, SumRec
<1>2. ASSUME NEW S \in SUBSET D, NEW x \in D, x \notin S, First(S \cup {x}) = x
      PROVE  Sum(f, S \cup {x}) = Sum(f, S) + f[x]
  <2>1. S \cup {x} \in SUBSET D /\ S \cup {x} # {} /\ (S \cup {x}) \ {x} = S
    BY <1>2
  <2>2. Sum(f, S \cup {x}) = f[x] + Sum(f, S)
    BY <1>1, <1>2, <2>1
  <2>3. Sum(f, S) \in Nat /\ f[x] \in Nat
    BY <1>1
  <2> HIDE DEF Q
  <2> QED  BY <2>2, <2>3
<1>3. 0 \in Q
  <2> SUFFICES ASSUME NEW S \in SUBSET D, NEW x \in D, x \notin S, Cardinality(S) <= 0
               PROVE  Sum(f, S \cup {x}) = Sum(f, S) + f[x]
    OBVIOUS
  <2>1. S = {}
    BY <1>0, FS_EmptySet
  <2>2. First(S \cup {x}) = x
    BY <2>1 DEF First
  <2> QED  BY <1>2, <2>2
<1>4. ASSUME NEW n \in Nat, n \in Q PROVE n + 1 \in Q
  <2> SUFFICES ASSUME NEW S \in SUBSET D, NEW x \in D, x \notin S, Cardinality(S) <= n + 1
               PROVE  Sum(f, S \cup {x}) = Sum(f, S) + f[x]
    OBVIOUS
  <2>1. PICK c : c = First(S \cup {x})
    OBVIOUS
  <2>2. CASE c = x
    BY <1>2, <2>1, <2>2
  <2>3. CASE c # x
    <3>1. PICK T : T = S \ {c}
      OBVIOUS
    <3>2. c \in S \cup {x} /\ Sum(f, S \cup {x}) = f[c] + Sum(f, (S \cup {x}) \ {c})
      <4>1. S \cup {x} \in SUBSET D /\ S \cup {x} # {}
        OBVIOUS
      <4> QED  BY <1>1, <2>1, <4>1
    <3>3. /\ c \in S /\ c \in D /\ T \in SUBSET D /\ c \notin T /\ x \notin T
          /\ T \cup {c} = S /\ (S \cup {x}) \ {c} = T \cup {x}
      BY <2>3, <3>1, <3>2
    <3>4. Cardinality(S) = Cardinality(T) + 1
      BY <1>0, <3>3, OneMore
    <3>5. Cardinality(T) <= n
      BY <1>0, <3>3, <3>4
    <3>6. Sum(f, T \cup {x}) = Sum(f, T) + f[x] /\ Sum(f, T \cup {c}) = Sum(f, T) + f[c]
      BY <1>4, <3>3, <3>5
    <3>7. Sum(f, T) \in Nat /\ f[x] \in Nat /\ f[c] \in Nat
      BY <1>1, <3>3
    <3> QED  BY <3>2, <3>3, <3>6, <3>7
  <2> QED  BY <2>2, <2>3
<1> HIDE DEF Q
<1>5. Cardinality(S0) \in Q
  <2>1. \A n \in Nat : n \in Q
    BY <1>3, <1>4, EveryNumber
  <2> QED  BY <1>0, <2>1
<1>6. Cardinality(S0) <= Cardinality(S0)
  BY <1>0
<1> QED  BY <1>5, <1>6 DEF Q

\* What SumAdd says of a whole set.
LEMMA SumTake ==
  ASSUME NEW S, IsFiniteSet(S), NEW f, \A x \in S : f[x] \in Nat, NEW k \in S
  PROVE  Sum(f, S) = Sum(f, S \ {k}) + f[k] /\ Sum(f, S) \in Nat /\ Sum(f, S \ {k}) \in Nat
<1>1. S \ {k} \in SUBSET S /\ k \notin S \ {k} /\ (S \ {k}) \cup {k} = S
  OBVIOUS
<1>2. Sum(f, (S \ {k}) \cup {k}) = Sum(f, S \ {k}) + f[k]
  BY <1>1, SumAdd
<1>3. IsFiniteSet(S \ {k}) /\ \A x \in S \ {k} : f[x] \in Nat
  BY <1>1, Sizes
<1>4. Sum(f, S) \in Nat /\ Sum(f, S \ {k}) \in Nat
  BY <1>3, SumRec
<1> QED  BY <1>1, <1>2, <1>4

\* Equal values have equal sums.
LEMMA SumSame ==
  ASSUME NEW S, IsFiniteSet(S), NEW f, NEW g, \A x \in S : f[x] \in Nat /\ g[x] = f[x]
  PROVE  Sum(g, S) = Sum(f, S)
<1> DEFINE P == {T \in SUBSET S : Sum(g, T) = Sum(f, T)}
<1>1. {} \in P
  BY SumEmpty
<1>2. ASSUME NEW T \in SUBSET S, NEW x \in S, T \in P, x \notin T PROVE T \cup {x} \in P
  <2>1. Sum(g, T \cup {x}) = Sum(g, T) + g[x] /\ Sum(f, T \cup {x}) = Sum(f, T) + f[x]
    BY <1>2, SumAdd
  <2> QED  BY <1>2, <2>1
<1> HIDE DEF P
<1>3. S \in P
  BY <1>1, <1>2, EverySet
<1> QED  BY <1>3 DEF P

\* Sums are added value by value.
LEMMA SumPlus ==
  ASSUME NEW S, IsFiniteSet(S), NEW f, NEW g, NEW h,
         \A x \in S : f[x] \in Nat /\ g[x] \in Nat /\ h[x] = f[x] + g[x]
  PROVE  Sum(h, S) = Sum(f, S) + Sum(g, S)
<1> DEFINE P == {T \in SUBSET S : Sum(h, T) = Sum(f, T) + Sum(g, T)}
<1>1. {} \in P
  BY SumEmpty
<1>2. ASSUME NEW T \in SUBSET S, NEW x \in S, T \in P, x \notin T PROVE T \cup {x} \in P
  <2>1. \A y \in S : h[y] \in Nat
    OBVIOUS
  <2>2. Sum(h, T \cup {x}) = Sum(h, T) + h[x]
    BY <1>2, <2>1, SumAdd
  <2>3. Sum(f, T \cup {x}) = Sum(f, T) + f[x] /\ Sum(g, T \cup {x}) = Sum(g, T) + g[x]
    BY <1>2, SumAdd
  <2>4. IsFiniteSet(T) /\ \A y \in T : f[y] \in Nat /\ g[y] \in Nat
    BY Sizes
  <2>5. Sum(f, T) \in Nat /\ Sum(g, T) \in Nat
    BY <2>4, SumRec
  <2> QED  BY <1>2, <2>2, <2>3, <2>5
<1> HIDE DEF P
<1>3. S \in P
  BY <1>1, <1>2, EverySet
<1> QED  BY <1>3 DEF P

\* A set is added up part by part.
LEMMA SumUnion ==
  ASSUME NEW D, IsFiniteSet(D), NEW f, \A x \in D : f[x] \in Nat,
         NEW A \in SUBSET D, NEW B \in SUBSET D, A \cap B = {}
  PROVE  Sum(f, A \cup B) = Sum(f, A) + Sum(f, B)
<1> DEFINE P == {T \in SUBSET B : Sum(f, A \cup T) = Sum(f, A) + Sum(f, T)}
<1>0. IsFiniteSet(A) /\ IsFiniteSet(B) /\ \A x \in A : f[x] \in Nat
  BY Sizes
<1>1. {} \in P
  <2>1. Sum(f, A) \in Nat /\ A \cup {} = A
    BY <1>0, SumRec
  <2> QED  BY <2>1, SumEmpty
<1>2. ASSUME NEW T \in SUBSET B, NEW x \in B, T \in P, x \notin T PROVE T \cup {x} \in P
  <2>1. /\ x \notin A \cup T /\ A \cup T \in SUBSET D /\ T \in SUBSET D /\ x \in D
        /\ A \cup (T \cup {x}) = (A \cup T) \cup {x}
    BY <1>2
  <2>2. PICK U : U = A \cup T
    OBVIOUS
  <2>5. Sum(f, U \cup {x}) = Sum(f, U) + f[x]
    BY <2>1, <2>2, SumAdd
  <2>6. Sum(f, T \cup {x}) = Sum(f, T) + f[x]
    BY <1>2, <2>1, SumAdd
  <2>3. IsFiniteSet(T) /\ \A y \in T : f[y] \in Nat
    BY <2>1, Sizes
  <2>4. Sum(f, T) \in Nat /\ Sum(f, A) \in Nat /\ f[x] \in Nat
    BY <1>0, <2>1, <2>3, SumRec
  <2>7. Sum(f, U) = Sum(f, A) + Sum(f, T) /\ A \cup (T \cup {x}) = U \cup {x}
    BY <1>2, <2>1, <2>2
  <2>8. Sum(f, A \cup (T \cup {x})) = Sum(f, A) + Sum(f, T \cup {x})
    <3>1. PICK a, b, m \in Nat : a = Sum(f, A) /\ b = Sum(f, T) /\ m = f[x]
      BY <2>4
    <3>2. Sum(f, U) = a + b /\ Sum(f, T \cup {x}) = b + m
      BY <2>6, <2>7, <3>1
    <3>3. Sum(f, A \cup (T \cup {x})) = (a + b) + m
      BY <2>5, <2>7, <3>1, <3>2
    <3>4. (a + b) + m = a + (b + m)
      OBVIOUS
    <3> QED  BY <3>1, <3>2, <3>3, <3>4
  <2> QED  BY <1>2, <2>8
<1> HIDE DEF P
<1>3. B \in P
  BY <1>0, <1>1, <1>2, EverySet
<1> QED  BY <1>3 DEF P

\* Zeros add up to 0.
LEMMA SumZero ==
  ASSUME NEW S, IsFiniteSet(S), NEW f, \A x \in S : f[x] = 0
  PROVE  Sum(f, S) = 0
<1> DEFINE P == {T \in SUBSET S : Sum(f, T) = 0}
<1>1. {} \in P
  BY SumEmpty
<1>2. ASSUME NEW T \in SUBSET S, NEW x \in S, T \in P, x \notin T PROVE T \cup {x} \in P
  <2>1. \A y \in S : f[y] \in Nat
    OBVIOUS
  <2>2. Sum(f, T \cup {x}) = Sum(f, T) + f[x]
    BY <1>2, <2>1, SumAdd
  <2> QED  BY <1>2, <2>2
<1> HIDE DEF P
<1>3. S \in P
  BY <1>1, <1>2, EverySet
<1> QED  BY <1>3 DEF P

\* g is f with n more at k.
OneMoreAt(f, g, k, n, S) == \A x \in S : f[x] \in Nat /\ g[x] = f[x] + (IF x = k THEN n ELSE 0)

\* One value more in one place.
LEMMA SumOne ==
  ASSUME NEW S, IsFiniteSet(S), NEW f, NEW g, NEW k \in S, NEW n \in Nat, OneMoreAt(f, g, k, n, S)
  PROVE  Sum(g, S) = Sum(f, S) + n
<1>1. \A x \in S : f[x] \in Nat /\ g[x] \in Nat
  BY DEF OneMoreAt
<1>2. g[k] = f[k] + n /\ f[k] \in Nat /\ \A x \in S \ {k} : f[x] \in Nat /\ g[x] = f[x]
  BY <1>1 DEF OneMoreAt
<1>3. IsFiniteSet(S \ {k})
  BY Sizes
<1>4. Sum(g, S \ {k}) = Sum(f, S \ {k})
  BY <1>2, <1>3, SumSame
<1>5. Sum(g, S) = Sum(g, S \ {k}) + g[k] /\ Sum(f, S) = Sum(f, S \ {k}) + f[k] /\ Sum(f, S \ {k}) \in Nat
  BY <1>1, SumTake
<1> QED  BY <1>2, <1>4, <1>5

\* The keys that are there have the whole sum.
LEMMA SumKeys ==
  ASSUME NEW D, IsFiniteSet(D), NEW c \in [D -> Nat]
  PROVE  Sum(c, D) = Sum(c, Keys(c))
<1>1. /\ Keys(c) \in SUBSET D /\ D \ Keys(c) \in SUBSET D /\ \A x \in D \ Keys(c) : c[x] = 0
      /\ \A x \in D : c[x] \in Nat
  BY DEF Keys
<1>2. Keys(c) \cap (D \ Keys(c)) = {} /\ Keys(c) \cup (D \ Keys(c)) = D
  BY <1>1
<1>3. Sum(c, D) = Sum(c, Keys(c)) + Sum(c, D \ Keys(c))
  <2>1. Sum(c, Keys(c) \cup (D \ Keys(c))) = Sum(c, Keys(c)) + Sum(c, D \ Keys(c))
    BY <1>1, <1>2, SumUnion
  <2> QED  BY <1>2, <2>1
<1>4. IsFiniteSet(D \ Keys(c)) /\ IsFiniteSet(Keys(c)) /\ \A x \in Keys(c) : c[x] \in Nat
  BY <1>1, Sizes
<1>5. Sum(c, D \ Keys(c)) = 0 /\ Sum(c, Keys(c)) \in Nat
  BY <1>1, <1>4, SumZero, SumRec
<1> QED  BY <1>3, <1>5
-----------------------------------------------------------------------------
\* A capped counter loses nothing: what does not fit is counted as OtherKey.
LEMMA AddCappedSums ==
  ASSUME NEW c \in Counter, NEW k \in Key, NEW n \in Nat, NEW e, e = addCapped(c, k, n)
  PROVE  /\ Sum(e, Key) = Sum(c, Key) + n
         /\ \A x \in Key : x # OtherKey => e[x] <= c[x] + (IF x = k THEN n ELSE 0)
<1>1. OtherKey \in Key /\ IsFiniteSet(Key) /\ (\A x \in Key : c[x] \in Nat) /\ c \in [Key -> Nat]
  BY Finite DEF Key, Counter
<1>2. Sum(c, Key) \in Nat
  BY <1>1, SumRec
<1>3. CASE n = 0
  <2>1. e = c
    BY <1>3 DEF addCapped
  <2> QED  BY <1>1, <1>2, <1>3, <2>1
<1>4. CASE n # 0 /\ e = [c EXCEPT ![k] = c[k] + n]
  <2>1. OneMoreAt(c, e, k, n, Key)
    BY <1>1, <1>4 DEF OneMoreAt
  <2>2. Sum(e, Key) = Sum(c, Key) + n
    BY <1>1, <2>1, SumOne
  <2>3. \A x \in Key : e[x] <= c[x] + (IF x = k THEN n ELSE 0)
    BY <1>1, <2>1 DEF OneMoreAt
  <2> QED  BY <2>2, <2>3
<1>5. CASE n # 0 /\ e = [c EXCEPT ![OtherKey] = c[OtherKey] + n]
  <2>1. OneMoreAt(c, e, OtherKey, n, Key)
    BY <1>1, <1>5 DEF OneMoreAt
  <2>2. Sum(e, Key) = Sum(c, Key) + n
    BY <1>1, <2>1, SumOne
  <2>3. \A x \in Key : x # OtherKey => e[x] = c[x]
    BY <1>1, <2>1 DEF OneMoreAt
  <2> QED  BY <1>1, <2>2, <2>3
<1> QED  BY <1>3, <1>4, <1>5 DEF addCapped

\* An exposed service is counted, or the flows to it are dropped.
LEMMA ExposeSums ==
  ASSUME NEW s \in Summary, NEW k \in Service, NEW n \in Nat, n # 0, NEW e, e = expose(s, k, n)
  PROVE  /\ Sum(e.exposed, Service) + e.exposedDropped = Sum(s.exposed, Service) + s.exposedDropped + n
         /\ e.exposedDropped = 0 =>
              /\ s.exposedDropped = 0
              /\ \A x \in Service : e.exposed[x] = s.exposed[x] + (IF x = k THEN n ELSE 0)
<1>1. /\ s.exposed \in [Service -> Nat] /\ (\A x \in Service : s.exposed[x] \in Nat)
      /\ s.exposedDropped \in Nat /\ IsFiniteSet(Service)
  BY Finite DEF Summary
<1>2. Sum(s.exposed, Service) \in Nat
  BY <1>1, SumRec
<1>3. CASE Known(s, k)
  <2>1. e = [s EXCEPT !.exposed[k] = s.exposed[k] + n]
    BY <1>3 DEF expose
  <2>2. /\ e.exposed = [s.exposed EXCEPT ![k] = s.exposed[k] + n]
        /\ e.exposedDropped = s.exposedDropped
    BY <2>1 DEF Summary
  <2>3. OneMoreAt(s.exposed, e.exposed, k, n, Service)
    BY <1>1, <2>2 DEF OneMoreAt
  <2>4. Sum(e.exposed, Service) = Sum(s.exposed, Service) + n
    BY <1>1, <2>3, SumOne
  <2>5. e.exposedDropped = s.exposedDropped
    BY <2>2
  <2>6. Sum(e.exposed, Service) + e.exposedDropped = Sum(s.exposed, Service) + s.exposedDropped + n
    BY <1>1, <1>2, <2>4, <2>5
  <2> QED  BY <2>3, <2>5, <2>6 DEF OneMoreAt
<1>4. CASE ~Known(s, k)
  <2>1. e = [s EXCEPT !.exposedDropped = s.exposedDropped + n]
    BY <1>4 DEF expose
  <2>2. e.exposed = s.exposed /\ e.exposedDropped = s.exposedDropped + n
    BY <2>1 DEF Summary
  <2>3. e.exposedDropped # 0
    BY <1>1, <2>2
  <2>4. Sum(e.exposed, Service) + e.exposedDropped = Sum(s.exposed, Service) + s.exposedDropped + n
    BY <1>1, <1>2, <2>2
  <2> QED  BY <2>3, <2>4
<1> QED  BY <1>3, <1>4

\* With nothing in hand it does not matter what was in hand before.
LEMMA FoldNothing ==
  /\ \A c, o, p, t : Folding(c, o, {}, t) => Folding(c, p, {}, t)
  /\ \A s, o, p, t : Exposing(s, o, {}, t) => Exposing(s, p, {}, t)
  BY SumEmpty DEF Folding, Exposing

\* What is folded as nothing in hand is what a counter should count, and the reverse.
LEMMA FoldFacts ==
  ASSUME NEW c \in Counter, NEW o, NEW t
  PROVE  Folding(c, o, {}, t) <=> CountsFor(c, t)
<1>1. \A x \in Key : c[x] \in Nat
  BY DEF Counter
<1>2. Sum(c, Key) \in Nat
  BY <1>1, Finite, SumRec
<1>3. \A a \in Addr : c[a] \in Nat /\ c[a] + 0 = c[a]
  BY <1>1 DEF Key
<1>4. Sum(c, Key) + Sum(o, {}) = Sum(c, Key)
  BY <1>2, SumEmpty
<1> QED  BY <1>3, <1>4 DEF Folding, CountsFor

\* A flow is counted.
LEMMA FoldAdd ==
  ASSUME NEW c \in Counter, NEW o, NEW t \in [Addr -> Nat], NEW u \in [Addr -> Nat],
         Folding(c, o, {}, t), NEW k \in Addr, NEW n \in Nat,
         OneMoreAt(t, u, k, n, Addr), NEW e \in Counter, e = addCapped(c, k, n), NEW p
  PROVE  Folding(e, p, {}, u)
<1>1. k \in Key /\ OtherKey \notin Addr /\ \A a \in Addr : a \in Key /\ a # OtherKey
  BY FlowsAssumption DEF Key, Addr, OtherKey
<1>2. Sum(c, Key) = Sum(t, Addr) /\ \A a \in Addr : c[a] <= t[a]
  BY FoldFacts DEF CountsFor
<1>3. Sum(e, Key) = Sum(c, Key) + n /\ \A a \in Addr : e[a] <= c[a] + (IF a = k THEN n ELSE 0)
  BY <1>1, AddCappedSums
<1>4. Sum(u, Addr) = Sum(t, Addr) + n
  BY Finite, SumOne
<1>5. \A a \in Addr : c[a] \in Nat /\ e[a] \in Nat /\ t[a] \in Nat
  BY <1>1 DEF Counter
<1>6. \A a \in Addr : e[a] <= u[a]
  BY <1>2, <1>3, <1>5 DEF OneMoreAt
<1>7. CountsFor(e, u)
  BY <1>2, <1>3, <1>4, <1>6 DEF CountsFor
<1> QED  BY <1>7, FoldFacts

\* A shard is taken in hand.
LEMMA FoldBegin ==
  ASSUME NEW c \in Counter, NEW o \in Counter, NEW t \in [Addr -> Nat], NEW u \in [Addr -> Nat],
         NEW v \in [Addr -> Nat], NEW p, NEW q, Folding(c, p, {}, t), Folding(o, q, {}, u),
         \A a \in Addr : v[a] = t[a] + u[a]
  PROVE  Folding(c, o, Keys(o), v)
<1>1. /\ Sum(c, Key) = Sum(t, Addr) /\ (\A a \in Addr : c[a] <= t[a])
      /\ Sum(o, Key) = Sum(u, Addr) /\ (\A a \in Addr : o[a] <= u[a])
  BY FoldFacts DEF CountsFor
<1>2. /\ \A a \in Addr : c[a] \in Nat /\ o[a] \in Nat /\ t[a] \in Nat /\ u[a] \in Nat
      /\ \A x \in Key : o[x] \in Nat
  BY DEF Counter, Key
<1>3. Sum(v, Addr) = Sum(t, Addr) + Sum(u, Addr)
  BY <1>2, Finite, SumPlus
<1>4. Sum(o, Key) = Sum(o, Keys(o))
  BY Finite, SumKeys DEF Counter
<1>5. \A a \in Addr : c[a] + (IF a \in Keys(o) THEN o[a] ELSE 0) <= v[a]
  BY <1>1, <1>2
<1> QED  BY <1>1, <1>3, <1>4, <1>5 DEF Folding

\* A key of the shard in hand is folded in.
LEMMA FoldStep ==
  ASSUME NEW c \in Counter, NEW o \in Counter, NEW R \in SUBSET Key, NEW k \in R,
         NEW t \in [Addr -> Nat], Folding(c, o, R, t),
         NEW e \in Counter, e = addCapped(c, k, o[k])
  PROVE  Folding(e, o, R \ {k}, t)
<1>1. OtherKey \notin Addr /\ \A a \in Addr : a \in Key /\ a # OtherKey
  BY FlowsAssumption DEF Key, Addr, OtherKey
<1>2. /\ \A x \in Key : o[x] \in Nat /\ c[x] \in Nat /\ e[x] \in Nat
      /\ IsFiniteSet(R) /\ o[k] \in Nat /\ k \in Key
  BY Finite, Sizes DEF Counter
<1>3. Sum(e, Key) = Sum(c, Key) + o[k] /\ \A a \in Addr : e[a] <= c[a] + (IF a = k THEN o[k] ELSE 0)
  BY <1>1, <1>2, AddCappedSums
<1>4. Sum(o, R) = Sum(o, R \ {k}) + o[k] /\ Sum(o, R \ {k}) \in Nat /\ Sum(c, Key) \in Nat
  <2>1. \A x \in R : o[x] \in Nat
    BY <1>2
  <2>2. Sum(o, R) = Sum(o, R \ {k}) + o[k] /\ Sum(o, R \ {k}) \in Nat
    BY <1>2, <2>1, SumTake
  <2>3. Sum(c, Key) \in Nat
    BY <1>2, Finite, SumRec
  <2> QED  BY <2>2, <2>3
<1>5. Sum(e, Key) + Sum(o, R \ {k}) = Sum(t, Addr)
  BY <1>2, <1>3, <1>4 DEF Folding
<1>6. ASSUME NEW a \in Addr
      PROVE  e[a] + (IF a \in R \ {k} THEN o[a] ELSE 0) <= t[a]
  <2>1. c[a] + (IF a \in R THEN o[a] ELSE 0) <= t[a]
    BY DEF Folding
  <2>2. c[a] \in Nat /\ e[a] \in Nat /\ o[a] \in Nat /\ t[a] \in Nat
    BY <1>1, <1>2
  <2>3. e[a] <= c[a] + (IF a = k THEN o[k] ELSE 0)
    BY <1>3
  <2>4. CASE a = k
    BY <2>1, <2>2, <2>3, <2>4
  <2>5. CASE a # k
    BY <2>1, <2>2, <2>3, <2>5
  <2> QED  BY <2>4, <2>5
<1> QED  BY <1>5, <1>6 DEF Folding

\* With nothing in hand, the services are what they should be, and the reverse.
LEMMA ExposingFacts ==
  ASSUME NEW s \in Summary, NEW o, NEW t \in [Service -> Nat]
  PROVE  Exposing(s, o, {}, t) <=> ServicesFor(s, t)
<1>1. /\ s.exposed \in [Service -> Nat] /\ s.exposedDropped \in Nat
      /\ \A k \in Service : s.exposed[k] \in Nat
  BY DEF Summary
<1>2. Sum(s.exposed, Service) \in Nat
  BY <1>1, Finite, SumRec
<1>3. Sum(s.exposed, Service) + s.exposedDropped + Sum(o, {}) = Sum(s.exposed, Service) + s.exposedDropped
  BY <1>1, <1>2, SumEmpty
<1>4. (\A k \in Service : s.exposed[k] + (IF k \in {} THEN o[k] ELSE 0) = t[k]) <=> s.exposed = t
  <2>1. \A k \in Service : s.exposed[k] + (IF k \in {} THEN o[k] ELSE 0) = s.exposed[k]
    BY <1>1
  <2>2. (\A k \in Service : s.exposed[k] = t[k]) <=> s.exposed = t
    BY <1>1
  <2> QED  BY <2>1, <2>2
<1> QED  BY <1>3, <1>4 DEF Exposing, ServicesFor

\* A flow to an exposed service is counted.
LEMMA ExposeAdd ==
  ASSUME NEW s \in Summary, NEW o, NEW t \in [Service -> Nat], NEW u \in [Service -> Nat],
         Exposing(s, o, {}, t), NEW k \in Service, NEW n \in Nat, n # 0,
         OneMoreAt(t, u, k, n, Service), NEW e \in Summary, e = expose(s, k, n), NEW p
  PROVE  Exposing(e, p, {}, u)
<1>1. /\ Sum(s.exposed, Service) + s.exposedDropped = Sum(t, Service)
      /\ s.exposedDropped = 0 => s.exposed = t
  BY ExposingFacts DEF ServicesFor
<1>2. /\ Sum(e.exposed, Service) + e.exposedDropped = Sum(s.exposed, Service) + s.exposedDropped + n
      /\ e.exposedDropped = 0 =>
           /\ s.exposedDropped = 0
           /\ \A x \in Service : e.exposed[x] = s.exposed[x] + (IF x = k THEN n ELSE 0)
  BY ExposeSums
<1>3. Sum(u, Service) = Sum(t, Service) + n
  BY Finite, SumOne
<1>4. Sum(e.exposed, Service) + e.exposedDropped = Sum(u, Service)
  BY <1>1, <1>2, <1>3
<1>5. ASSUME e.exposedDropped = 0 PROVE e.exposed = u
  <2>1. \A x \in Service : e.exposed[x] = u[x]
    BY <1>1, <1>2, <1>5 DEF OneMoreAt
  <2>2. e.exposed \in [Service -> Nat]
    BY DEF Summary
  <2> QED  BY <2>1, <2>2
<1> QED  BY <1>4, <1>5, ExposingFacts DEF ServicesFor

\* The services of a shard are taken in hand, and what it dropped is added.
LEMMA ExposeBegin ==
  ASSUME NEW s \in Summary, NEW o \in Summary, NEW e \in Summary, e.exposed = s.exposed,
         e.exposedDropped = s.exposedDropped + o.exposedDropped,
         NEW t \in [Service -> Nat], NEW u \in [Service -> Nat], NEW v \in [Service -> Nat],
         NEW p, NEW q, Exposing(s, p, {}, t), Exposing(o, q, {}, u),
         \A k \in Service : v[k] = t[k] + u[k]
  PROVE  Exposing(e, o.exposed, Keys(o.exposed), v)
<1>1. /\ Sum(s.exposed, Service) + s.exposedDropped = Sum(t, Service)
      /\ s.exposedDropped = 0 => s.exposed = t
      /\ Sum(o.exposed, Service) + o.exposedDropped = Sum(u, Service)
      /\ o.exposedDropped = 0 => o.exposed = u
  BY ExposingFacts DEF ServicesFor
<1>2. /\ s.exposed \in [Service -> Nat] /\ o.exposed \in [Service -> Nat]
      /\ s.exposedDropped \in Nat /\ o.exposedDropped \in Nat
  BY DEF Summary
<1>3. \A k \in Service : t[k] \in Nat /\ u[k] \in Nat /\ v[k] \in Nat /\ o.exposed[k] \in Nat /\ s.exposed[k] \in Nat
  BY <1>2
<1>4. Sum(v, Service) = Sum(t, Service) + Sum(u, Service)
  BY <1>3, Finite, SumPlus
<1>5. Sum(o.exposed, Service) = Sum(o.exposed, Keys(o.exposed))
  BY <1>2, Finite, SumKeys
<1>6. Sum(s.exposed, Service) \in Nat /\ Sum(o.exposed, Service) \in Nat
  BY <1>3, Finite, SumRec
<1>7. Sum(e.exposed, Service) + e.exposedDropped + Sum(o.exposed, Keys(o.exposed)) = Sum(v, Service)
  BY <1>1, <1>2, <1>4, <1>5, <1>6
<1>8. ASSUME e.exposedDropped = 0, NEW k \in Service
      PROVE  e.exposed[k] + (IF k \in Keys(o.exposed) THEN o.exposed[k] ELSE 0) = v[k]
  <2>1. s.exposedDropped = 0 /\ o.exposedDropped = 0
    BY <1>2, <1>8
  <2>2. e.exposed[k] = t[k] /\ o.exposed[k] = u[k]
    BY <1>1, <2>1
  <2>3. k \in Keys(o.exposed) <=> o.exposed[k] > 0
    BY <1>2 DEF Keys
  <2> QED  BY <1>3, <2>2, <2>3
<1> QED  BY <1>7, <1>8 DEF Exposing

\* A service of the shard in hand is folded in, or dropped.
LEMMA ExposeStep ==
  ASSUME NEW s \in Summary, NEW o \in [Service -> Nat], NEW R \in SUBSET Service, NEW k \in R,
         o[k] # 0, NEW t \in [Service -> Nat], Exposing(s, o, R, t),
         NEW e \in Summary, e = expose(s, k, o[k])
  PROVE  Exposing(e, o, R \ {k}, t)
<1>1. IsFiniteSet(R) /\ o[k] \in Nat /\ k \in Service /\ \A x \in Service : o[x] \in Nat
  BY Finite, Sizes
<1>2. /\ Sum(e.exposed, Service) + e.exposedDropped = Sum(s.exposed, Service) + s.exposedDropped + o[k]
      /\ e.exposedDropped = 0 =>
           /\ s.exposedDropped = 0
           /\ \A x \in Service : e.exposed[x] = s.exposed[x] + (IF x = k THEN o[k] ELSE 0)
  BY <1>1, ExposeSums
<1>3. Sum(o, R) = Sum(o, R \ {k}) + o[k] /\ Sum(o, R \ {k}) \in Nat
  BY <1>1, SumTake
<1>4. /\ s.exposedDropped \in Nat /\ e.exposedDropped \in Nat
      /\ \A x \in Service : s.exposed[x] \in Nat /\ e.exposed[x] \in Nat /\ t[x] \in Nat
  BY DEF Summary
<1>5. Sum(s.exposed, Service) \in Nat /\ Sum(e.exposed, Service) \in Nat
  BY <1>4, Finite, SumRec
<1>6. Sum(s.exposed, Service) + s.exposedDropped + Sum(o, R) = Sum(t, Service)
  BY DEF Exposing
<1>7. Sum(e.exposed, Service) + e.exposedDropped + Sum(o, R \ {k}) = Sum(t, Service)
  BY <1>1, <1>2, <1>3, <1>4, <1>5, <1>6
<1>8. ASSUME e.exposedDropped = 0, NEW x \in Service
      PROVE  e.exposed[x] + (IF x \in R \ {k} THEN o[x] ELSE 0) = t[x]
  <2>1. s.exposed[x] + (IF x \in R THEN o[x] ELSE 0) = t[x]
    BY <1>2, <1>8 DEF Exposing
  <2>2. e.exposed[x] = s.exposed[x] + (IF x = k THEN o[k] ELSE 0)
    BY <1>2, <1>8
  <2>3. CASE x = k
    BY <1>1, <1>4, <2>1, <2>2, <2>3
  <2>4. CASE x # k
    BY <1>1, <1>4, <2>1, <2>2, <2>4
  <2> QED  BY <2>3, <2>4
<1> QED  BY <1>7, <1>8 DEF Exposing

-----------------------------------------------------------------------------
\* The flows of two sets without a common one are counted apart.
LEMMA CountTogether ==
  ASSUME NEW S \in SUBSET Flow, NEW T \in SUBSET Flow, S \cap T = {}
  PROVE  Cardinality(S \cup T) = Cardinality(S) + Cardinality(T)
<1>1. IsFiniteSet(S) /\ IsFiniteSet(T) /\ Cardinality(S) \in Nat /\ Cardinality(T) \in Nat
  BY Finite, Sizes
<1>2. Cardinality(S \cup T) = Cardinality(S) + Cardinality(T) - Cardinality(S \cap T)
  BY <1>1, FS_Union
<1>3. Cardinality(S \cap T) = 0
  BY FS_EmptySet
<1> QED  BY <1>1, <1>2, <1>3

\* What flows amount to is numbers.
LEMMA Amounts ==
  ASSUME NEW S \in SUBSET Flow
  PROVE  /\ SrcFlows(S) \in [Addr -> Nat] /\ SentBytes(S) \in [Addr -> Nat]
         /\ ExposedFlows(S) \in [Service -> Nat]
<1>1. SrcFlows(S) \in [Addr -> Nat]
  <2>1. \A a \in Addr : {f \in S : f.src = a} \in SUBSET Flow
    OBVIOUS
  <2>2. \A a \in Addr : Cardinality({f \in S : f.src = a}) \in Nat
    BY <2>1, Finite, Sizes
  <2> QED  BY <2>2 DEF SrcFlows
<1>2. ExposedFlows(S) \in [Service -> Nat]
  <2>1. \A k \in Service : {f \in S : Exposure(f) /\ <<f.dst, f.port>> = k} \in SUBSET Flow
    OBVIOUS
  <2>2. \A k \in Service : Cardinality({f \in S : Exposure(f) /\ <<f.dst, f.port>> = k}) \in Nat
    BY <2>1, Finite, Sizes
  <2> QED  BY <2>2 DEF ExposedFlows
<1>3. SentBytes(S) \in [Addr -> Nat]
  <2>1. PICK b : b = [f \in Flow |-> f.bytes]
    OBVIOUS
  <2>2. \A f \in Flow : b[f] \in Nat
    BY <2>1, FlowFacts
  <2>3. ASSUME NEW a \in Addr PROVE Sum(b, {f \in S : Egress(f) /\ f.src = a}) \in Nat
    <3>1. PICK A : A = {f \in S : Egress(f) /\ f.src = a}
      OBVIOUS
    <3>2. IsFiniteSet(A) /\ \A f \in A : b[f] \in Nat
      BY <2>2, <3>1, Finite, Sizes
    <3> QED  BY <3>1, <3>2, SumRec
  <2> QED  BY <2>1, <2>3 DEF SentBytes
<1> QED  BY <1>1, <1>2, <1>3

\* What the flows of two sets amount to is added.
LEMMA AmountsTogether ==
  ASSUME NEW S \in SUBSET Flow, NEW T \in SUBSET Flow, S \cap T = {}
  PROVE  /\ \A a \in Addr : SrcFlows(S \cup T)[a] = SrcFlows(S)[a] + SrcFlows(T)[a]
         /\ \A a \in Addr : SentBytes(S \cup T)[a] = SentBytes(S)[a] + SentBytes(T)[a]
         /\ \A k \in Service : ExposedFlows(S \cup T)[k] = ExposedFlows(S)[k] + ExposedFlows(T)[k]
<1>1. ASSUME NEW a \in Addr PROVE SrcFlows(S \cup T)[a] = SrcFlows(S)[a] + SrcFlows(T)[a]
  <2>1. PICK A \in SUBSET Flow : A = {f \in S : f.src = a}
    OBVIOUS
  <2>2. PICK B \in SUBSET Flow : B = {f \in T : f.src = a}
    OBVIOUS
  <2>3. A \cap B = {} /\ {f \in S \cup T : f.src = a} = A \cup B
    BY <2>1, <2>2
  <2>4. Cardinality(A \cup B) = Cardinality(A) + Cardinality(B)
    BY <2>3, CountTogether
  <2> QED  BY <2>1, <2>2, <2>3, <2>4 DEF SrcFlows
<1>2. ASSUME NEW k \in Service PROVE ExposedFlows(S \cup T)[k] = ExposedFlows(S)[k] + ExposedFlows(T)[k]
  <2>1. PICK A \in SUBSET Flow : A = {f \in S : Exposure(f) /\ <<f.dst, f.port>> = k}
    OBVIOUS
  <2>2. PICK B \in SUBSET Flow : B = {f \in T : Exposure(f) /\ <<f.dst, f.port>> = k}
    OBVIOUS
  <2>3. A \cap B = {} /\ {f \in S \cup T : Exposure(f) /\ <<f.dst, f.port>> = k} = A \cup B
    BY <2>1, <2>2
  <2>4. Cardinality(A \cup B) = Cardinality(A) + Cardinality(B)
    BY <2>3, CountTogether
  <2> QED  BY <2>1, <2>2, <2>3, <2>4 DEF ExposedFlows
<1>3. ASSUME NEW a \in Addr PROVE SentBytes(S \cup T)[a] = SentBytes(S)[a] + SentBytes(T)[a]
  <2>1. PICK b : b = [f \in Flow |-> f.bytes]
    OBVIOUS
  <2>2. \A f \in Flow : b[f] \in Nat
    BY <2>1, FlowFacts
  <2>3. PICK A \in SUBSET Flow : A = {f \in S : Egress(f) /\ f.src = a}
    OBVIOUS
  <2>4. PICK B \in SUBSET Flow : B = {f \in T : Egress(f) /\ f.src = a}
    OBVIOUS
  <2>5. A \cap B = {} /\ {f \in S \cup T : Egress(f) /\ f.src = a} = A \cup B
    BY <2>3, <2>4
  <2>6. Sum(b, A \cup B) = Sum(b, A) + Sum(b, B)
    BY <2>2, <2>5, Finite, SumUnion
  <2>7. SentBytes(S)[a] = Sum(b, A) /\ SentBytes(T)[a] = Sum(b, B)
    BY <2>1, <2>3, <2>4 DEF SentBytes
  <2>8. SentBytes(S \cup T)[a] = Sum(b, A \cup B)
    BY <2>1, <2>5 DEF SentBytes
  <2> QED  BY <2>6, <2>7, <2>8
<1> QED  BY <1>1, <1>2, <1>3

\* What one flow amounts to.
LEMMA AmountsOfOne ==
  ASSUME NEW f \in Flow
  PROVE  /\ \A a \in Addr : SrcFlows({f})[a] = IF a = f.src THEN 1 ELSE 0
         /\ \A a \in Addr : SentBytes({f})[a] = IF Egress(f) /\ a = f.src THEN f.bytes ELSE 0
         /\ \A k \in Service :
              ExposedFlows({f})[k] = IF Exposure(f) /\ k = <<f.dst, f.port>> THEN 1 ELSE 0
<1>1. Cardinality({f}) = 1 /\ Cardinality({}) = 0
  BY FS_Singleton, FS_EmptySet
<1>2. ASSUME NEW a \in Addr PROVE SrcFlows({f})[a] = IF a = f.src THEN 1 ELSE 0
  <2>1. {g \in {f} : g.src = a} = IF a = f.src THEN {f} ELSE {}
    OBVIOUS
  <2> QED  BY <1>1, <2>1 DEF SrcFlows
<1>3. ASSUME NEW k \in Service
      PROVE  ExposedFlows({f})[k] = IF Exposure(f) /\ k = <<f.dst, f.port>> THEN 1 ELSE 0
  <2>1. {g \in {f} : Exposure(g) /\ <<g.dst, g.port>> = k}
          = IF Exposure(f) /\ k = <<f.dst, f.port>> THEN {f} ELSE {}
    OBVIOUS
  <2> QED  BY <1>1, <2>1 DEF ExposedFlows
<1>4. ASSUME NEW a \in Addr
      PROVE  SentBytes({f})[a] = IF Egress(f) /\ a = f.src THEN f.bytes ELSE 0
  <2>1. PICK b : b = [g \in Flow |-> g.bytes]
    OBVIOUS
  <2>2. b[f] = f.bytes /\ \A g \in Flow : b[g] \in Nat
    BY <2>1, FlowFacts
  <2>3. Sum(b, {}) = 0 /\ Sum(b, {f}) = f.bytes
    <3>1. {} \in SUBSET Flow /\ {} \cup {f} = {f}
      OBVIOUS
    <3>2. Sum(b, {} \cup {f}) = Sum(b, {}) + b[f]
      BY <2>2, <3>1, Finite, SumAdd
    <3> QED  BY <2>2, <3>1, <3>2, SumEmpty, FlowFacts
  <2>4. {g \in {f} : Egress(g) /\ g.src = a} = IF Egress(f) /\ a = f.src THEN {f} ELSE {}
    OBVIOUS
  <2>5. SentBytes({f})[a] = Sum(b, IF Egress(f) /\ a = f.src THEN {f} ELSE {})
    BY <2>1, <2>4 DEF SentBytes
  <2> QED  BY <2>3, <2>5
<1> QED  BY <1>2, <1>3, <1>4

\* What a flow more amounts to.
LEMMA AmountsWith ==
  ASSUME NEW S \in SUBSET Flow, NEW f \in Flow, f \notin S
  PROVE  /\ OneMoreAt(SrcFlows(S), SrcFlows(S \cup {f}), f.src, 1, Addr)
         /\ Egress(f) => OneMoreAt(SentBytes(S), SentBytes(S \cup {f}), f.src, f.bytes, Addr)
         /\ ~Egress(f) => SentBytes(S \cup {f}) = SentBytes(S)
         /\ Exposure(f) => OneMoreAt(ExposedFlows(S), ExposedFlows(S \cup {f}), <<f.dst, f.port>>, 1, Service)
         /\ ~Exposure(f) => ExposedFlows(S \cup {f}) = ExposedFlows(S)
<1>1. {f} \in SUBSET Flow /\ S \cup {f} \in SUBSET Flow /\ S \cap {f} = {}
  OBVIOUS
<1>2. /\ \A a \in Addr : SrcFlows(S \cup {f})[a] = SrcFlows(S)[a] + SrcFlows({f})[a]
      /\ \A a \in Addr : SentBytes(S \cup {f})[a] = SentBytes(S)[a] + SentBytes({f})[a]
      /\ \A k \in Service : ExposedFlows(S \cup {f})[k] = ExposedFlows(S)[k] + ExposedFlows({f})[k]
  BY <1>1, AmountsTogether
<1>3. /\ SrcFlows(S) \in [Addr -> Nat] /\ SentBytes(S) \in [Addr -> Nat]
      /\ ExposedFlows(S) \in [Service -> Nat]
      /\ SentBytes(S \cup {f}) \in [Addr -> Nat] /\ ExposedFlows(S \cup {f}) \in [Service -> Nat]
  BY <1>1, Amounts
<1>4. f.bytes \in Nat
  BY FlowFacts
<1>5. /\ \A a \in Addr : SrcFlows({f})[a] = IF a = f.src THEN 1 ELSE 0
      /\ Egress(f) => \A a \in Addr : SentBytes({f})[a] = IF a = f.src THEN f.bytes ELSE 0
      /\ ~Egress(f) => \A a \in Addr : SentBytes({f})[a] = 0
      /\ Exposure(f) =>
           \A k \in Service : ExposedFlows({f})[k] = IF k = <<f.dst, f.port>> THEN 1 ELSE 0
      /\ ~Exposure(f) => \A k \in Service : ExposedFlows({f})[k] = 0
  <2>1. /\ \A a \in Addr : SrcFlows({f})[a] = IF a = f.src THEN 1 ELSE 0
        /\ \A a \in Addr : SentBytes({f})[a] = IF Egress(f) /\ a = f.src THEN f.bytes ELSE 0
        /\ \A k \in Service :
             ExposedFlows({f})[k] = IF Exposure(f) /\ k = <<f.dst, f.port>> THEN 1 ELSE 0
    BY AmountsOfOne
  <2> QED  BY <2>1
<1>6. /\ \A a \in Addr : SrcFlows(S)[a] \in Nat /\ SentBytes(S)[a] \in Nat
      /\ \A k \in Service : ExposedFlows(S)[k] \in Nat
  BY <1>3
<1>7. OneMoreAt(SrcFlows(S), SrcFlows(S \cup {f}), f.src, 1, Addr)
  <2>1. ASSUME NEW a \in Addr
        PROVE  /\ SrcFlows(S)[a] \in Nat
               /\ SrcFlows(S \cup {f})[a] = SrcFlows(S)[a] + (IF a = f.src THEN 1 ELSE 0)
    <3>1. SrcFlows({f})[a] = IF a = f.src THEN 1 ELSE 0
      BY <1>5
    <3>2. SrcFlows(S \cup {f})[a] = SrcFlows(S)[a] + SrcFlows({f})[a]
      BY <1>2
    <3> QED  BY <1>6, <3>1, <3>2
  <2> QED  BY <2>1 DEF OneMoreAt
<1>8. ASSUME Egress(f) PROVE OneMoreAt(SentBytes(S), SentBytes(S \cup {f}), f.src, f.bytes, Addr)
  <2>1. ASSUME NEW a \in Addr
        PROVE  /\ SentBytes(S)[a] \in Nat
               /\ SentBytes(S \cup {f})[a] = SentBytes(S)[a] + (IF a = f.src THEN f.bytes ELSE 0)
    <3>1. SentBytes({f})[a] = IF a = f.src THEN f.bytes ELSE 0
      BY <1>5, <1>8
    <3>2. SentBytes(S \cup {f})[a] = SentBytes(S)[a] + SentBytes({f})[a]
      BY <1>2
    <3> QED  BY <1>6, <3>1, <3>2
  <2> QED  BY <2>1 DEF OneMoreAt
<1>9. ASSUME ~Egress(f) PROVE SentBytes(S \cup {f}) = SentBytes(S)
  <2>1. ASSUME NEW a \in Addr PROVE SentBytes(S \cup {f})[a] = SentBytes(S)[a]
    <3>1. SentBytes({f})[a] = 0
      BY <1>5, <1>9
    <3>2. SentBytes(S \cup {f})[a] = SentBytes(S)[a] + 0 /\ SentBytes(S)[a] \in Nat
      BY <1>2, <1>6, <3>1
    <3> QED  BY <3>2
  <2> QED  BY <1>3, <2>1
<1>10. ASSUME Exposure(f)
       PROVE  OneMoreAt(ExposedFlows(S), ExposedFlows(S \cup {f}), <<f.dst, f.port>>, 1, Service)
  <2>1. ASSUME NEW k \in Service
        PROVE  /\ ExposedFlows(S)[k] \in Nat
               /\ ExposedFlows(S \cup {f})[k] = ExposedFlows(S)[k] + (IF k = <<f.dst, f.port>> THEN 1 ELSE 0)
    <3>1. ExposedFlows({f})[k] = IF k = <<f.dst, f.port>> THEN 1 ELSE 0
      BY <1>5, <1>10
    <3>2. ExposedFlows(S \cup {f})[k] = ExposedFlows(S)[k] + ExposedFlows({f})[k]
      BY <1>2
    <3> QED  BY <1>6, <3>1, <3>2
  <2> QED  BY <2>1 DEF OneMoreAt
<1>11. ASSUME ~Exposure(f) PROVE ExposedFlows(S \cup {f}) = ExposedFlows(S)
  <2>1. ASSUME NEW k \in Service PROVE ExposedFlows(S \cup {f})[k] = ExposedFlows(S)[k]
    <3>1. ExposedFlows({f})[k] = 0
      BY <1>5, <1>11
    <3>2. ExposedFlows(S \cup {f})[k] = ExposedFlows(S)[k] + 0 /\ ExposedFlows(S)[k] \in Nat
      BY <1>2, <1>6, <3>1
    <3> QED  BY <3>2
  <2> QED  BY <1>3, <2>1
<1> QED  BY <1>7, <1>8, <1>9, <1>10, <1>11

-----------------------------------------------------------------------------
\* With nothing in hand it does not matter what was in hand before.
LEMMA CountingNothing ==
  ASSUME NEW s, NEW o, NEW p, NEW S, Counting(s, o, NothingLeft, S)
  PROVE  Counting(s, p, NothingLeft, S)
  BY FoldNothing, NothingLeftFacts DEF Counting

\* The parts of a summary that count a flow.
LEMMA AddFlowParts ==
  ASSUME NEW s \in Summary, NEW f \in Flow, NEW e, e = addFlow(s, f)
  PROVE  /\ e.bySrc = addCapped(s.bySrc, f.src, 1)
         /\ e.egress = IF Egress(f) THEN addCapped(s.egress, f.src, f.bytes) ELSE s.egress
         /\ ~Exposure(f) => e.exposed = s.exposed /\ e.exposedDropped = s.exposedDropped
         /\ Exposure(f) => /\ e.exposed = expose(s, <<f.dst, f.port>>, 1).exposed
                           /\ e.exposedDropped = expose(s, <<f.dst, f.port>>, 1).exposedDropped
<1> DEFINE ports == IF Probe(f) THEN Add(s.ports, f.src, f.port) ELSE s.ports
           egress == IF Egress(f) THEN addCapped(s.egress, f.src, f.bytes) ELSE s.egress
           k == <<f.dst, f.port>>
<1>1. PICK a : a = [s EXCEPT !.bySrc = addCapped(s.bySrc, f.src, 1), !.ports = ports, !.egress = egress]
  OBVIOUS
<1>2. e = IF Exposure(f) THEN expose(a, k, 1) ELSE a
  BY <1>1 DEF addFlow
<1> HIDE DEF ports, egress, k
<1>3. /\ a.bySrc = addCapped(s.bySrc, f.src, 1) /\ a.egress = egress /\ a.ports = ports
      /\ a.exposed = s.exposed /\ a.exposedDropped = s.exposedDropped
  BY <1>1 DEF Summary
<1>4. CASE ~Exposure(f)
  BY <1>2, <1>3, <1>4 DEF egress
<1>5. CASE Exposure(f)
  <2>1. e = expose(a, k, 1)
    BY <1>2, <1>5
  <2>2. e.bySrc = a.bySrc /\ e.egress = a.egress
    BY <1>1, <2>1 DEF expose, Summary
  <2>3. /\ e.exposed = expose(s, k, 1).exposed
        /\ e.exposedDropped = expose(s, k, 1).exposedDropped
    <3>1. Known(a, k) <=> Known(s, k)
      BY <1>3 DEF Known
    <3>2. CASE Known(s, k)
      BY <1>1, <1>3, <2>1, <3>1, <3>2 DEF expose, Summary
    <3>3. CASE ~Known(s, k)
      BY <1>1, <1>3, <2>1, <3>1, <3>3 DEF expose, Summary
    <3> QED  BY <3>2, <3>3
  <2> QED  BY <1>3, <1>5, <2>2, <2>3 DEF egress, k
<1> QED  BY <1>4, <1>5

\* A worker counts a flow.
LEMMA CountingAdd ==
  ASSUME NEW s \in Summary, Bounded(s), NEW S \in SUBSET Flow, NEW f \in Flow, f \notin S,
         NEW o, Counting(s, o, NothingLeft, S), NEW e \in Summary, e = addFlow(s, f), NEW p
  PROVE  Counting(e, p, NothingLeft, S \cup {f})
<1> DEFINE k == <<f.dst, f.port>>
           T == S \cup {f}
<1>1. /\ Folding(s.bySrc, o.bySrc, {}, SrcFlows(S)) /\ Folding(s.egress, o.egress, {}, SentBytes(S))
      /\ Exposing(s, o.exposed, {}, ExposedFlows(S))
  BY NothingLeftFacts DEF Counting
<1>2. /\ e.bySrc = addCapped(s.bySrc, f.src, 1)
      /\ e.egress = IF Egress(f) THEN addCapped(s.egress, f.src, f.bytes) ELSE s.egress
      /\ ~Exposure(f) => e.exposed = s.exposed /\ e.exposedDropped = s.exposedDropped
      /\ Exposure(f) => e.exposed = expose(s, k, 1).exposed /\ e.exposedDropped = expose(s, k, 1).exposedDropped
  BY AddFlowParts
<1>3. f.src \in Addr /\ f.bytes \in Nat /\ (Exposure(f) => k \in Service)
  BY FlowFacts
<1>4. /\ s.bySrc \in Counter /\ s.egress \in Counter /\ e.bySrc \in Counter /\ e.egress \in Counter
  BY DEF Summary
<1>5. /\ T \in SUBSET Flow
      /\ SrcFlows(S) \in [Addr -> Nat] /\ SentBytes(S) \in [Addr -> Nat] /\ ExposedFlows(S) \in [Service -> Nat]
      /\ SrcFlows(T) \in [Addr -> Nat] /\ SentBytes(T) \in [Addr -> Nat] /\ ExposedFlows(T) \in [Service -> Nat]
  BY Amounts
<1>6. /\ OneMoreAt(SrcFlows(S), SrcFlows(T), f.src, 1, Addr)
      /\ Egress(f) => OneMoreAt(SentBytes(S), SentBytes(T), f.src, f.bytes, Addr)
      /\ ~Egress(f) => SentBytes(T) = SentBytes(S)
      /\ Exposure(f) => OneMoreAt(ExposedFlows(S), ExposedFlows(T), k, 1, Service)
      /\ ~Exposure(f) => ExposedFlows(T) = ExposedFlows(S)
  BY AmountsWith
<1> HIDE DEF k, T
<1>7. Folding(e.bySrc, p.bySrc, {}, SrcFlows(T))
  BY <1>1, <1>2, <1>3, <1>4, <1>5, <1>6, FoldAdd
<1>8. Folding(e.egress, p.egress, {}, SentBytes(T))
  <2>1. CASE Egress(f)
    BY <1>1, <1>2, <1>3, <1>4, <1>5, <1>6, <2>1, FoldAdd
  <2>2. CASE ~Egress(f)
    BY <1>1, <1>2, <1>6, <2>2, FoldNothing
  <2> QED  BY <2>1, <2>2
<1>9. Exposing(e, p.exposed, {}, ExposedFlows(T))
  <2>1. CASE Exposure(f)
    <3>1. PICK d : d = expose(s, k, 1)
      OBVIOUS
    <3>2. d \in Summary
      BY <1>3, <2>1, <3>1, Parts, ExposeFacts
    <3>3. Exposing(d, p.exposed, {}, ExposedFlows(T))
      BY <1>1, <1>3, <1>5, <1>6, <2>1, <3>1, <3>2, ExposeAdd
    <3> QED  BY <1>2, <2>1, <3>1, <3>3 DEF Exposing
  <2>2. CASE ~Exposure(f)
    <3>1. Exposing(s, p.exposed, {}, ExposedFlows(T))
      BY <1>1, <1>6, <2>2, FoldNothing
    <3> QED  BY <1>2, <2>2, <3>1 DEF Exposing
  <2> QED  BY <2>1, <2>2
<1> QED  BY <1>7, <1>8, <1>9, NothingLeftFacts DEF Counting, T

\* A shard is taken in hand.
LEMMA CountingBegin ==
  ASSUME NEW s \in Summary, NEW o \in Summary, NEW e \in Summary, e.bySrc = s.bySrc, e.egress = s.egress,
         e.exposed = s.exposed, e.exposedDropped = s.exposedDropped + o.exposedDropped,
         NEW S \in SUBSET Flow, NEW T \in SUBSET Flow, S \cap T = {}, NEW p, NEW q,
         Counting(s, p, NothingLeft, S), Counting(o, q, NothingLeft, T), NEW r,
         r.bySrc = Keys(o.bySrc), r.egress = Keys(o.egress), r.exposed = Keys(o.exposed)
  PROVE  Counting(e, o, r, S \cup T)
<1>1. /\ Folding(s.bySrc, p.bySrc, {}, SrcFlows(S)) /\ Folding(s.egress, p.egress, {}, SentBytes(S))
      /\ Exposing(s, p.exposed, {}, ExposedFlows(S))
      /\ Folding(o.bySrc, q.bySrc, {}, SrcFlows(T)) /\ Folding(o.egress, q.egress, {}, SentBytes(T))
      /\ Exposing(o, q.exposed, {}, ExposedFlows(T))
  BY NothingLeftFacts DEF Counting
<1>2. PICK U : U = S \cup T
  OBVIOUS
<1>3. /\ SrcFlows(S) \in [Addr -> Nat] /\ SentBytes(S) \in [Addr -> Nat] /\ ExposedFlows(S) \in [Service -> Nat]
      /\ SrcFlows(T) \in [Addr -> Nat] /\ SentBytes(T) \in [Addr -> Nat] /\ ExposedFlows(T) \in [Service -> Nat]
      /\ SrcFlows(U) \in [Addr -> Nat] /\ SentBytes(U) \in [Addr -> Nat] /\ ExposedFlows(U) \in [Service -> Nat]
  <2>1. U \in SUBSET Flow
    BY <1>2
  <2> QED  BY <2>1, Amounts
<1>4. /\ \A a \in Addr : SrcFlows(U)[a] = SrcFlows(S)[a] + SrcFlows(T)[a]
      /\ \A a \in Addr : SentBytes(U)[a] = SentBytes(S)[a] + SentBytes(T)[a]
      /\ \A k \in Service : ExposedFlows(U)[k] = ExposedFlows(S)[k] + ExposedFlows(T)[k]
  BY <1>2, AmountsTogether
<1>5. s.bySrc \in Counter /\ s.egress \in Counter /\ o.bySrc \in Counter /\ o.egress \in Counter
  BY DEF Summary
<1>6. Folding(e.bySrc, o.bySrc, r.bySrc, SrcFlows(U))
  BY <1>1, <1>3, <1>4, <1>5, FoldBegin
<1>7. Folding(e.egress, o.egress, r.egress, SentBytes(U))
  BY <1>1, <1>3, <1>4, <1>5, FoldBegin
<1>8. Exposing(e, o.exposed, r.exposed, ExposedFlows(U))
  BY <1>1, <1>3, <1>4, ExposeBegin
<1> QED  BY <1>2, <1>6, <1>7, <1>8 DEF Counting

\* An empty summary counts no flow.
LEMMA CountingNone == \A o : Counting(NewSummary, o, NothingLeft, {})
<1> SUFFICES ASSUME NEW o PROVE Counting(NewSummary, o, NothingLeft, {})
  OBVIOUS
<1>1. /\ {} \in SUBSET Flow /\ NewSummary \in Summary
      /\ NewSummary.bySrc \in Counter /\ NewSummary.egress \in Counter
      /\ \A k \in Key : NewSummary.bySrc[k] = 0 /\ NewSummary.egress[k] = 0
      /\ NewSummary.exposed = [k \in Service |-> 0] /\ NewSummary.exposedDropped = 0
  BY DEF NewSummary, Summary, Counter
<1>2. /\ SrcFlows({}) \in [Addr -> Nat] /\ SentBytes({}) \in [Addr -> Nat]
      /\ ExposedFlows({}) \in [Service -> Nat]
  BY <1>1, Amounts
<1>3. /\ \A a \in Addr : SrcFlows({})[a] = 0 /\ SentBytes({})[a] = 0
      /\ \A k \in Service : ExposedFlows({})[k] = 0
  BY SumEmpty, FS_EmptySet DEF SrcFlows, SentBytes, ExposedFlows
<1>4. \A a \in Addr : a \in Key
  BY DEF Key
<1>5. CountsFor(NewSummary.bySrc, SrcFlows({}))
  <2>1. Sum(NewSummary.bySrc, Key) = 0 /\ Sum(SrcFlows({}), Addr) = 0
    BY <1>1, <1>3, Finite, SumZero
  <2> QED  BY <1>1, <1>3, <1>4, <2>1 DEF CountsFor
<1>6. CountsFor(NewSummary.egress, SentBytes({}))
  <2>1. Sum(NewSummary.egress, Key) = 0 /\ Sum(SentBytes({}), Addr) = 0
    BY <1>1, <1>3, Finite, SumZero
  <2> QED  BY <1>1, <1>3, <1>4, <2>1 DEF CountsFor
<1>7. ServicesFor(NewSummary, ExposedFlows({}))
  <2>1. Sum(NewSummary.exposed, Service) = 0 /\ Sum(ExposedFlows({}), Service) = 0
    <3>1. \A k \in Service : NewSummary.exposed[k] = 0
      BY <1>1
    <3> QED  BY <1>3, <3>1, Finite, SumZero
  <2>2. NewSummary.exposed = ExposedFlows({})
    BY <1>1, <1>2, <1>3
  <2> QED  BY <1>1, <2>1, <2>2 DEF ServicesFor
<1>8. /\ Folding(NewSummary.bySrc, o.bySrc, {}, SrcFlows({}))
      /\ Folding(NewSummary.egress, o.egress, {}, SentBytes({}))
  BY <1>1, <1>5, <1>6, FoldFacts
<1>9. Exposing(NewSummary, o.exposed, {}, ExposedFlows({}))
  BY <1>1, <1>2, <1>7, ExposingFacts
<1> QED  BY <1>8, <1>9, NothingLeftFacts DEF Counting

\* Everything is counted at the start: there is nothing.
LEMMA TotalsStart == Init => Totals
<1> SUFFICES ASSUME Init PROVE Totals
  OBVIOUS
<1>1. /\ summary = [w \in Worker |-> NewSummary] /\ mine = [w \in Worker |-> {}]
      /\ next = 0 /\ merged = NewSummary /\ rest = NothingLeft
  BY DEF Init
<1>2. Before(next) = {}
  BY <1>1 DEF Before
<1>3. Counting(merged, InHand, rest, Before(next))
  BY <1>1, <1>2, CountingNone
<1>4. \A w \in Worker : Counting(summary[w], summary[w], NothingLeft, mine[w])
  BY <1>1, CountingNone
<1>5. Apart
  BY <1>1 DEF Apart
<1> QED  BY <1>3, <1>4, <1>5 DEF Totals

\* A worker visits a flow that none has visited.
LEMMA VisitCounts ==
  ASSUME IInv, Totals, NEW w \in Worker, NEW f \in Flow, Visit(w, f)
  PROVE  Totals'
<1>1. /\ next = 0 /\ f \notin Visited
      /\ mine' = [mine EXCEPT ![w] = mine[w] \cup {f}]
      /\ summary' = [summary EXCEPT ![w] = addFlow(summary[w], f)]
      /\ next' = next /\ merged' = merged /\ rest' = rest
  BY DEF Visit, Scanning, mergeVars
<1>2. /\ summary \in [Worker -> Summary] /\ mine \in [Worker -> SUBSET Flow] /\ Bounded(summary[w])
      /\ \A v \in Worker : mine[v] \in SUBSET Visited
  BY Shape
<1>3. addFlow(summary[w], f) \in Summary
  <2>1. IInv'
    BY VisitKeeps
  <2>2. summary' \in [Worker -> Summary]
    BY <2>1 DEF IInv, TypeOK
  <2> QED  BY <1>1, <1>2, <2>2
<1>4. /\ summary'[w] = addFlow(summary[w], f) /\ mine'[w] = mine[w] \cup {f}
      /\ \A v \in Worker \ {w} : summary'[v] = summary[v] /\ mine'[v] = mine[v]
      /\ \A v \in Worker : f \notin mine[v]
  BY <1>1, <1>2
<1>5. Apart'
  <2> SUFFICES ASSUME NEW u \in Worker, NEW v \in Worker, u # v PROVE mine'[u] \cap mine'[v] = {}
    BY DEF Apart
  <2>1. mine[u] \cap mine[v] = {}
    BY DEF Totals, Apart
  <2> QED  BY <1>4, <2>1
<1>6. ASSUME NEW v \in Worker PROVE Counting(summary'[v], summary'[v], NothingLeft, mine'[v])
  <2>1. Counting(summary[v], summary[v], NothingLeft, mine[v])
    BY DEF Totals
  <2>2. CASE v = w
    <3>1. mine[w] \in SUBSET Flow /\ summary[w] \in Summary
      BY <1>2
    <3>2. Counting(summary'[w], summary'[w], NothingLeft, mine[w] \cup {f})
      BY <1>2, <1>3, <1>4, <2>1, <2>2, <3>1, CountingAdd
    <3> QED  BY <1>4, <2>2, <3>2
  <2>3. CASE v # w
    BY <1>4, <2>1, <2>3
  <2> QED  BY <2>2, <2>3
<1>7. Counting(merged', InHand', rest', Before(next)')
  <2>1. rest = NothingLeft
    <3>1. ~(next \in 2 .. Workers + 1)
      BY <1>1, Limits
    <3> QED  BY <3>1 DEF IInv, Result
  <2>2. Before(next) = {} /\ Before(next)' = {}
    BY <1>1, Limits DEF Before, Worker
  <2>3. Counting(merged, InHand, NothingLeft, {})
    BY <2>1, <2>2 DEF Totals
  <2> QED  BY <1>1, <2>1, <2>2, <2>3, CountingNothing
<1> QED  BY <1>5, <1>6, <1>7 DEF Totals

\* A step that leaves the shards alone keeps all but what the result is to count.
LEMMA CountsStay ==
  ASSUME Totals, UNCHANGED shardVars, Counting(merged', InHand', rest', Before(next)')
  PROVE  Totals'
<1>1. summary' = summary /\ mine' = mine
  BY DEF shardVars
<1> QED  BY <1>1 DEF Totals, Apart

\* The scan ends, and when all is merged the flow table is cut: nothing is counted.
LEMMA PhaseCounts ==
  ASSUME IInv, Totals, EndScan \/ Cut
  PROVE  Totals'
<1>1. UNCHANGED shardVars /\ merged' = merged /\ rest' = rest /\ rest = NothingLeft
  <2>1. ASSUME EndScan PROVE rest = NothingLeft
    <3>1. ~(next \in 2 .. Workers + 1)
      BY <2>1, Limits DEF EndScan, Scanning
    <3> QED  BY <3>1 DEF IInv, Result
  <2> QED  BY <2>1 DEF EndScan, Cut
<1>2. Before(next)' = Before(next)
  <2>1. Before(next)' = Before(next')
    BY <1>1, ShardsStay
  <2>2. CASE EndScan
    BY <2>1, <2>2, Limits DEF EndScan, Scanning, Before, Worker
  <2>3. CASE Cut
    <3>1. next \in Nat /\ next > Workers /\ next' \in Nat /\ next' > Workers
      BY <2>3, Limits DEF Cut
    <3> QED  BY <2>1, <3>1, AllMerged
  <2> QED  BY <2>2, <2>3
<1>3. Counting(merged, InHand, NothingLeft, Before(next))
  BY <1>1 DEF Totals
<1>4. Counting(merged', InHand', rest', Before(next)')
  BY <1>1, <1>2, <1>3, CountingNothing
<1> QED  BY <1>1, <1>4, CountsStay

\* A shard is taken in hand: its flows are none of those merged before.
LEMMA MergeShardCounts ==
  ASSUME IInv, Totals, MergeShard
  PROVE  Totals'
<1>1. PICK n : n = next
  OBVIOUS
<1>2. PICK o : o = summary[n]
  OBVIOUS
<1>3. /\ n \in Worker /\ rest = NothingLeft /\ next' = n + 1 /\ UNCHANGED shardVars
      /\ merged' = [merged EXCEPT !.exposedDropped = merged.exposedDropped + o.exposedDropped,
                                  !.ports.truncated = merged.ports.truncated \/ o.ports.truncated]
      /\ rest'.bySrc = Keys(o.bySrc) /\ rest'.egress = Keys(o.egress) /\ rest'.exposed = Keys(o.exposed)
  BY <1>1, <1>2 DEF MergeShard
<1>4. /\ o \in Summary /\ merged \in Summary /\ mine[n] \in SUBSET Flow
      /\ Before(n) \in SUBSET Flow /\ n \in Nat /\ \A v \in Worker : v \in Nat
  BY <1>1, <1>2, <1>3, Shape
<1>5. merged' \in Summary
  <2>1. IInv'
    BY MergeShardKeeps
  <2> QED  BY <2>1 DEF IInv, TypeOK
<1>6. /\ merged'.bySrc = merged.bySrc /\ merged'.egress = merged.egress /\ merged'.exposed = merged.exposed
      /\ merged'.exposedDropped = merged.exposedDropped + o.exposedDropped
  BY <1>3, <1>4 DEF Summary
<1>7. Before(next)' = Before(n) \cup mine[n] /\ Before(n) \cap mine[n] = {}
  <2>1. Before(next)' = Before(n + 1)
    BY <1>3, ShardsStay
  <2>2. {v \in Worker : v < n + 1} = {v \in Worker : v < n} \cup {n}
    BY <1>3, <1>4
  <2>3. \A v \in Worker : v < n => mine[v] \cap mine[n] = {}
    BY <1>3, <1>4 DEF Totals, Apart
  <2> QED  BY <2>1, <2>2, <2>3 DEF Before
<1>8. InHand' = o
  <2>1. (n + 1) - 1 = n
    BY <1>4
  <2> QED  BY <1>2, <1>3, <2>1 DEF InHand, shardVars
<1>9. Counting(merged, InHand, NothingLeft, Before(n)) /\ Counting(o, o, NothingLeft, mine[n])
  BY <1>1, <1>2, <1>3 DEF Totals
<1>10. Counting(merged', o, rest', Before(n) \cup mine[n])
  BY <1>3, <1>4, <1>5, <1>6, <1>7, <1>9, CountingBegin
<1> QED  BY <1>3, <1>7, <1>8, <1>10, CountsStay

\* A step that folds a key in leaves the shard in hand and the flows to be counted.
LEMMA FoldStays ==
  ASSUME IInv, UNCHANGED <<shardVars, next, table>>
  PROVE  InHand' = InHand /\ Before(next)' = Before(next) /\ UNCHANGED shardVars
<1>1. UNCHANGED shardVars /\ next' = next
  OBVIOUS
<1>2. Before(next)' = Before(next)
  BY <1>1, ShardsStay
<1> QED  BY <1>1, <1>2 DEF InHand, shardVars

\* A source of the shard in hand is added up.
LEMMA MergeSrcCounts ==
  ASSUME IInv, Totals, NEW k \in Key, MergeSrc(k)
  PROVE  Totals'
<1>1. /\ k \in rest.bySrc
      /\ merged' = [merged EXCEPT !.bySrc = addCapped(merged.bySrc, k, InHand.bySrc[k])]
      /\ rest' = [rest EXCEPT !.bySrc = rest.bySrc \ {k}]
      /\ UNCHANGED <<shardVars, next, table>>
  BY DEF MergeSrc
<1>2. rest # NothingLeft
  BY <1>1, NothingLeftFacts
<1>3. merged \in Summary /\ InHand \in Summary /\ Before(next) \in SUBSET Flow
  BY <1>2, Shape, InHandFacts
<1>4. merged' \in Summary /\ rest.bySrc \in SUBSET Key
  <2>1. IInv'
    BY MergeSrcKeeps
  <2> QED  BY <2>1 DEF IInv, TypeOK
<1>5. /\ merged'.bySrc = addCapped(merged.bySrc, k, InHand.bySrc[k]) /\ merged'.egress = merged.egress
      /\ merged'.exposed = merged.exposed /\ merged'.exposedDropped = merged.exposedDropped
  BY <1>1, <1>3 DEF Summary
<1>6. rest'.bySrc = rest.bySrc \ {k} /\ rest'.egress = rest.egress /\ rest'.exposed = rest.exposed
  BY <1>1 DEF IInv, TypeOK
<1>7. Counting(merged, InHand, rest, Before(next))
  BY DEF Totals
<1>8. Folding(merged'.bySrc, InHand.bySrc, rest.bySrc \ {k}, SrcFlows(Before(next)))
  <2>1. /\ merged.bySrc \in Counter /\ merged'.bySrc \in Counter /\ InHand.bySrc \in Counter
        /\ SrcFlows(Before(next)) \in [Addr -> Nat]
    BY <1>3, <1>4, Amounts DEF Summary
  <2>2. Folding(merged.bySrc, InHand.bySrc, rest.bySrc, SrcFlows(Before(next)))
    BY <1>7 DEF Counting
  <2> QED  BY <1>1, <1>4, <1>5, <2>1, <2>2, FoldStep
<1>9. Counting(merged', InHand, rest', Before(next))
  BY <1>5, <1>6, <1>7, <1>8 DEF Counting, Exposing
<1> QED  BY <1>1, <1>9, FoldStays, CountsStay

\* A sender of the shard in hand is added up.
LEMMA MergeEgressCounts ==
  ASSUME IInv, Totals, NEW k \in Key, MergeEgress(k)
  PROVE  Totals'
<1>1. /\ k \in rest.egress
      /\ merged' = [merged EXCEPT !.egress = addCapped(merged.egress, k, InHand.egress[k])]
      /\ rest' = [rest EXCEPT !.egress = rest.egress \ {k}]
      /\ UNCHANGED <<shardVars, next, table>>
  BY DEF MergeEgress
<1>2. rest # NothingLeft
  BY <1>1, NothingLeftFacts
<1>3. merged \in Summary /\ InHand \in Summary /\ Before(next) \in SUBSET Flow
  BY <1>2, Shape, InHandFacts
<1>4. merged' \in Summary /\ rest.egress \in SUBSET Key
  <2>1. IInv'
    BY MergeEgressKeeps
  <2> QED  BY <2>1 DEF IInv, TypeOK
<1>5. /\ merged'.egress = addCapped(merged.egress, k, InHand.egress[k]) /\ merged'.bySrc = merged.bySrc
      /\ merged'.exposed = merged.exposed /\ merged'.exposedDropped = merged.exposedDropped
  BY <1>1, <1>3 DEF Summary
<1>6. rest'.egress = rest.egress \ {k} /\ rest'.bySrc = rest.bySrc /\ rest'.exposed = rest.exposed
  BY <1>1 DEF IInv, TypeOK
<1>7. Counting(merged, InHand, rest, Before(next))
  BY DEF Totals
<1>8. Folding(merged'.egress, InHand.egress, rest.egress \ {k}, SentBytes(Before(next)))
  <2>1. /\ merged.egress \in Counter /\ merged'.egress \in Counter /\ InHand.egress \in Counter
        /\ SentBytes(Before(next)) \in [Addr -> Nat]
    BY <1>3, <1>4, Amounts DEF Summary
  <2>2. Folding(merged.egress, InHand.egress, rest.egress, SentBytes(Before(next)))
    BY <1>7 DEF Counting
  <2> QED  BY <1>1, <1>4, <1>5, <2>1, <2>2, FoldStep
<1>9. Counting(merged', InHand, rest', Before(next))
  BY <1>5, <1>6, <1>7, <1>8 DEF Counting, Exposing
<1> QED  BY <1>1, <1>9, FoldStays, CountsStay

\* An exposed service of the shard in hand is added up, or dropped.
LEMMA MergeExposedCounts ==
  ASSUME IInv, Totals, NEW k \in Service, MergeExposed(k)
  PROVE  Totals'
<1>1. /\ k \in rest.exposed
      /\ merged' = expose(merged, k, InHand.exposed[k])
      /\ rest' = [rest EXCEPT !.exposed = rest.exposed \ {k}]
      /\ UNCHANGED <<shardVars, next, table>>
  BY DEF MergeExposed
<1>2. rest # NothingLeft
  BY <1>1, NothingLeftFacts
<1>3. merged \in Summary /\ InHand \in Summary /\ Before(next) \in SUBSET Flow
  BY <1>2, Shape, InHandFacts
<1>4. merged' \in Summary /\ rest.exposed \in SUBSET Service
  <2>1. IInv'
    BY MergeExposedKeeps
  <2> QED  BY <2>1 DEF IInv, TypeOK
<1>5. merged'.bySrc = merged.bySrc /\ merged'.egress = merged.egress
  BY <1>1, <1>3 DEF expose, Summary
<1>6. rest'.exposed = rest.exposed \ {k} /\ rest'.bySrc = rest.bySrc /\ rest'.egress = rest.egress
  BY <1>1 DEF IInv, TypeOK
<1>7. Counting(merged, InHand, rest, Before(next))
  BY DEF Totals
<1>8. Exposing(merged', InHand.exposed, rest.exposed \ {k}, ExposedFlows(Before(next)))
  <2>1. /\ InHand.exposed \in [Service -> Nat] /\ InHand.exposed[k] # 0
        /\ ExposedFlows(Before(next)) \in [Service -> Nat]
    <3>1. InHand.exposed[k] > 0 /\ InHand.exposed \in [Service -> Nat]
      BY <1>1, <1>3 DEF IInv, Result, Summary
    <3> QED  BY <1>3, <3>1, Amounts
  <2>2. Exposing(merged, InHand.exposed, rest.exposed, ExposedFlows(Before(next)))
    BY <1>7 DEF Counting
  <2> QED  BY <1>1, <1>3, <1>4, <2>1, <2>2, ExposeStep
<1>9. Counting(merged', InHand, rest', Before(next))
  BY <1>5, <1>6, <1>7, <1>8 DEF Counting
<1> QED  BY <1>1, <1>9, FoldStays, CountsStay

\* A port of the shard in hand is none of what is added up.
LEMMA MergePortCounts ==
  ASSUME IInv, Totals, NEW s \in Addr, NEW v \in Port, MergePort(s, v)
  PROVE  Totals'
<1>1. /\ merged' = [merged EXCEPT !.ports = Add(merged.ports, s, v)]
      /\ rest' = [rest EXCEPT !.ports = rest.ports \ {<<s, v>>}]
      /\ UNCHANGED <<shardVars, next, table>>
  BY DEF MergePort
<1>2. /\ merged'.bySrc = merged.bySrc /\ merged'.egress = merged.egress
      /\ merged'.exposed = merged.exposed /\ merged'.exposedDropped = merged.exposedDropped
  BY <1>1, Shape DEF Summary
<1>3. rest'.bySrc = rest.bySrc /\ rest'.egress = rest.egress /\ rest'.exposed = rest.exposed
  BY <1>1 DEF IInv, TypeOK
<1>4. Counting(merged, InHand, rest, Before(next))
  BY DEF Totals
<1>5. Counting(merged', InHand, rest', Before(next))
  BY <1>2, <1>3, <1>4 DEF Counting, Exposing
<1> QED  BY <1>1, <1>5, FoldStays, CountsStay

\* Every step keeps the totals.
LEMMA StepCounts == IInv /\ Totals /\ [Next]_vars => Totals'
<1> SUFFICES ASSUME IInv, Totals, [Next]_vars PROVE Totals'
  OBVIOUS
<1>1. CASE \E w \in Worker, f \in Flow : Visit(w, f)
  BY <1>1, VisitCounts
<1>2. CASE EndScan \/ MergeShard \/ Cut
  BY <1>2, PhaseCounts, MergeShardCounts
<1>3. CASE \E k \in Key : MergeSrc(k) \/ MergeEgress(k)
  BY <1>3, MergeSrcCounts, MergeEgressCounts
<1>4. CASE \E k \in Service : MergeExposed(k)
  BY <1>4, MergeExposedCounts
<1>5. CASE \E s \in Addr, v \in Port : MergePort(s, v)
  BY <1>5, MergePortCounts
<1>6. CASE Stop \/ UNCHANGED vars
  <2>1. UNCHANGED shardVars /\ next' = next /\ merged' = merged /\ rest' = rest /\ UNCHANGED summary
    BY <1>6 DEF Stop, vars, mergeVars, shardVars
  <2>2. Before(next)' = Before(next) /\ InHand' = InHand
    BY <2>1, ShardsStay DEF InHand
  <2>3. Counting(merged', InHand', rest', Before(next)')
    BY <2>1, <2>2 DEF Totals
  <2> QED  BY <2>1, <2>3, CountsStay
<1> QED  BY <1>1, <1>2, <1>3, <1>4, <1>5, <1>6 DEF Next

\* The totals of the shards and of the result are exact: every flow and every byte is
\* in a named key or in the one for the others, every flow to an exposed service in
\* the service or in the number dropped; no named key has more than it should
\* (internal/stats/bounded.go: addCapped; vpc.go: Add, Merge, expose).
THEOREM TotalsHold == Spec => []TotalsExact
<1>1. IInv /\ Totals => TotalsExact
  <2> SUFFICES ASSUME IInv, Totals PROVE TotalsExact
    OBVIOUS
  <2>1. ASSUME NEW s \in Summary, NEW S \in SUBSET Flow, NEW o, Counting(s, o, NothingLeft, S)
        PROVE  /\ CountsFor(s.bySrc, SrcFlows(S)) /\ CountsFor(s.egress, SentBytes(S))
               /\ ServicesFor(s, ExposedFlows(S))
    <3>1. /\ Folding(s.bySrc, o.bySrc, {}, SrcFlows(S)) /\ Folding(s.egress, o.egress, {}, SentBytes(S))
          /\ Exposing(s, o.exposed, {}, ExposedFlows(S))
      BY <2>1, NothingLeftFacts DEF Counting
    <3>2. s.bySrc \in Counter /\ s.egress \in Counter /\ ExposedFlows(S) \in [Service -> Nat]
      BY Amounts DEF Summary
    <3> QED  BY <3>1, <3>2, FoldFacts, ExposingFacts
  <2>2. ASSUME NEW w \in Worker
        PROVE  /\ CountsFor(summary[w].bySrc, SrcFlows(mine[w]))
               /\ CountsFor(summary[w].egress, SentBytes(mine[w]))
               /\ ServicesFor(summary[w], ExposedFlows(mine[w]))
    <3>1. summary[w] \in Summary /\ mine[w] \in SUBSET Flow
      BY Shape
    <3>2. Counting(summary[w], summary[w], NothingLeft, mine[w])
      BY DEF Totals
    <3> QED  BY <2>1, <3>1, <3>2
  <2>3. ASSUME Done
        PROVE  /\ CountsFor(merged.bySrc, SrcFlows(Visited)) /\ CountsFor(merged.egress, SentBytes(Visited))
               /\ ServicesFor(merged, ExposedFlows(Visited))
    <3>1. rest = NothingLeft /\ next \in Nat /\ next > Workers
      BY <2>3, Limits DEF Done, IInv, Result
    <3>2. Before(next) = Visited
      BY <3>1, AllMerged
    <3>3. Counting(merged, InHand, NothingLeft, Visited)
      BY <3>1, <3>2 DEF Totals
    <3> QED  BY <2>1, <3>3, Shape
  <2> QED  BY <2>2, <2>3 DEF TotalsExact
<1>2. Spec => []Totals
  BY TotalsStart, StepCounts, Invariance, PTL DEF Spec
<1> QED  BY <1>1, <1>2, Invariance, PTL
=============================================================================
