------------------------------- MODULE VpcLog -------------------------------
(***************************************************************************)
(* VPC flow logs: the header and the record it decodes, the filter, the    *)
(* summary in bounded memory and the rules over it (internal/flowlog,      *)
(* internal/stats/{vpc,bounded}.go, internal/vpcrules). Flows has the same *)
(* bounds over every order of flows and merges; here are all counters, and *)
(* records as the objects hold them. A record is [id, v]: the texts of its *)
(* columns, "-" for none, "" for no address and -1 for an unknown number.  *)
(***************************************************************************)
EXTENDS LogLine

CONSTANTS IsPublic, IsPrivate,  \* addresses that are one or the other
          Unmapped,             \* Unmapped[a]: an IPv4 address written as IPv6
          VPCSensitivePorts, VPCLegacyPorts,
          MaxKeys, MaxSources, ScanPorts, SweepHosts, ExposedSourceCap  \* VPCLimits

ASSUME VpcLimitsAssumption ==
  {MaxKeys, MaxSources, ScanPorts, SweepHosts, ExposedSourceCap} \subseteq Nat \ {0}
\* The empty text is no address, neither a public nor a private one.
ASSUME AddressAssumption == "" \notin IsPublic \cup IsPrivate

Unmap(a) == IF a \in DOMAIN Unmapped THEN Unmapped[a] ELSE a
Addr == IsPublic \cup IsPrivate \cup DOMAIN Unmapped
Numeric == {"version", "srcport", "dstport", "protocol", "packets", "bytes", "start", "end", "tcp-flags", "traffic-path"}
Address == {"srcaddr", "dstaddr", "pkt-srcaddr", "pkt-dstaddr"}

\* ParseHeader: the start field must be there, and the first line must be names.
headerParses(header) == /\ \E i \in DOMAIN header : header[i] = "start"
                        /\ \A i \in DOMAIN header : header[i] \notin DOMAIN Number

\* Header.Parse: as many columns as names, none that its field cannot be.
vpcParses(header, l) ==
  /\ Len(l.v) = Len(header)
  /\ \A i \in DOMAIN l.v : l.v[i] # "-" =>
       /\ header[i] \in Numeric => l.v[i] \in DOMAIN Number
       /\ header[i] \in {"srcport", "dstport"} => Number[l.v[i]] \in 0..65535
       /\ header[i] \in Address => l.v[i] \in Addr
vpcEntry(header, l) ==
  LET column == [i \in {j \in DOMAIN header : l.v[j] # "-"} |-> header[i]]    \* the last of a name counts
      text(name) == IF name \in Range(column) THEN l.v[Max({i \in DOMAIN column : column[i] = name})] ELSE ""
      num(name, unknown) == number(text(name), unknown)
      real(packet, plain) == IF text(packet) # "" THEN text(packet) ELSE text(plain)
  IN  [id |-> l.id, time |-> num("start", 0), eni |-> text("interface-id"), action |-> text("action"),
       status |-> text("log-status"), direction |-> text("flow-direction"), vpc |-> text("vpc-id"),
       src |-> Unmap(real("pkt-srcaddr", "srcaddr")), dst |-> Unmap(real("pkt-dstaddr", "dstaddr")),
       srcs |-> {Unmap(text("srcaddr")), Unmap(text("pkt-srcaddr"))} \ {""},
       dsts |-> {Unmap(text("dstaddr")), Unmap(text("pkt-dstaddr"))} \ {""},
       srcport |-> num("srcport", -1), dstport |-> num("dstport", -1), protocol |-> num("protocol", -1),
       flags |-> num("tcp-flags", -1), packets |-> num("packets", 0), bytes |-> num("bytes", 0)]

protocolNames == 1 :> "icmp" @@ 6 :> "tcp" @@ 17 :> "udp" @@ 47 :> "gre" @@ 50 :> "esp" @@ 51 :> "ah" @@ 58 :> "icmpv6" @@ 132 :> "sctp"
ProtocolName(e) == IF e.protocol < 0 THEN ""
                   ELSE IF e.protocol \in DOMAIN protocolNames THEN protocolNames[e.protocol] ELSE ToString(e.protocol)
Service(e) ==
  LET p == ProtocolName(e) IN
  IF e.protocol \in {1, 58} \/ e.dstport < 0 THEN p
  ELSE IF p = "" THEN ToString(e.dstport) ELSE ToString(e.dstport) \o "/" \o p

\* NODATA and SKIPDATA rows carry no flow.
IsFlow(e) == e.status \in {"", "OK"}
initiator(e) == e.protocol \in {1, 58} \/ e.srcport < 0 \/ e.dstport < 0 \/ e.srcport > e.dstport
Syn(flags) == (flags \div 2) % 2 = 1
Ack(flags) == (flags \div 16) % 2 = 1
connAttempt(e) == e.protocol # 6 \/ e.flags < 0 \/ (Syn(e.flags) /\ ~Ack(e.flags))
-----------------------------------------------------------------------------
vpcCriterion(c, e) == CASE c = "action" -> {e.action} [] c = "src" -> e.srcs [] c = "dst" -> e.dsts
                        [] c = "port" -> {e.srcport, e.dstport} [] c = "protocol" -> {e.protocol}
                        [] c = "interface" -> {e.eni} [] c = "vpc" -> {e.vpc}
vpcMatches(f, e) == InTime(f, e) /\ \A c \in DOMAIN f.want : vpcCriterion(c, e) \cap f.want[c] # {}
-----------------------------------------------------------------------------
\* A distinct tracker: up to limit values of each of up to MaxSources sources.
NoDistinct == [sets |-> <<>>, truncated |-> FALSE]
DistinctAdd(d, src, v, limit) ==
  IF src \notin DOMAIN d.sets /\ Cardinality(DOMAIN d.sets) >= MaxSources THEN [d EXCEPT !.truncated = TRUE]
  ELSE [d EXCEPT !.sets = into(@, {src}, LAMBDA set, s : IF Cardinality(set) < limit THEN set \cup {v} ELSE set, {})]
DistinctMerge(d, o, limit) ==    \* any of the new sources and values that fit
  LET new == DOMAIN o.sets \ DOMAIN d.sets
      fill(set, more) == {set \cup X : X \in kSubset(Min({limit - Cardinality(set), Cardinality(more \ set)}), more \ set)}
      fits == kSubset(Min({Max({MaxSources - Cardinality(DOMAIN d.sets), 0}), Cardinality(new)}), new)
  IN  UNION {{[sets |-> over(sets, d.sets), truncated |-> d.truncated \/ o.truncated \/ fit # new] :
               sets \in EveryPick([s \in fit \cup (DOMAIN o.sets \ new) |-> fill(ValueAt(d.sets, s, {}), o.sets[s])])} : fit \in fits}
AtLeast(d, n) == {s \in DOMAIN d.sets : Cardinality(d.sets[s]) >= n}

\* What a flow is, for the rules.
tcpUDP(e) == e.protocol \in {6, 17}
Probe(e) == /\ e.action = "REJECT" /\ e.src \in IsPublic /\ tcpUDP(e) /\ e.dstport >= 0 /\ connAttempt(e)
Swept(e) == e.src # "" /\ e.dst \in IsPrivate /\ initiator(e)
Exposure(e) == /\ e.action = "ACCEPT" /\ e.src \in IsPublic /\ e.dst \in IsPrivate /\ tcpUDP(e) /\ initiator(e)
               /\ e.direction # "egress" /\ e.dstport \in VPCSensitivePorts
Egress(e) == e.action = "ACCEPT" /\ e.src \in IsPrivate /\ e.dst \in IsPublic /\ initiator(e)
LegacyIn(e) == e.src \in IsPublic /\ e.dst \in IsPrivate
LegacyOut(e) == e.src \in IsPrivate /\ e.dst \in IsPublic
Legacy(e) == e.action = "ACCEPT" /\ tcpUDP(e) /\ e.dstport \in VPCLegacyPorts /\ (LegacyIn(e) \/ LegacyOut(e))
LegacyKey(host, way, service) == host \o "|" \o way \o "|" \o service
exposedKey(e) == e.dst \o ":" \o Service(e)
-----------------------------------------------------------------------------
\* VPCSummary: the capped counters, with the key and how much an entry adds.
vpcCapped(e) ==
  [ByAction |-> OneKey(e.action, 1), BytesByAction |-> OneKey(e.action, e.bytes), ByProtocol |-> OneKey(ProtocolName(e), 1),
   ByDstPort |-> OneKey(Service(e), 1), ByInterface |-> OneKey(e.eni, 1), ByDirection |-> OneKey(e.direction, 1),
   BySrc |-> OneKey(e.src, 1), ByDst |-> OneKey(e.dst, 1),
   PairBytes |-> OneKey(e.src \o " -> " \o e.dst, IF e.src # "" /\ e.dst # "" THEN e.bytes ELSE 0),
   RejectsBySrc |-> OneKey(e.src, One(e.action = "REJECT")), EgressBytes |-> OneKey(e.src, IF Egress(e) THEN e.bytes ELSE 0),
   Legacy |-> OneKey(IF LegacyIn(e) THEN LegacyKey(e.dst, "in", Service(e)) ELSE LegacyKey(e.src, "out", Service(e)),
                     One(Legacy(e)))]
vpcCounters == {"ByAction", "BytesByAction", "ByProtocol", "ByDstPort", "ByInterface", "ByDirection", "BySrc", "ByDst",
                "PairBytes", "RejectsBySrc", "EgressBytes", "Legacy"}
vpcSums(e) == [Flows |-> One(IsFlow(e)), Bytes |-> IF IsFlow(e) THEN e.bytes ELSE 0,
               Packets |-> IF IsFlow(e) THEN e.packets ELSE 0,
               NoData |-> One(e.status = "NODATA"), SkipData |-> One(e.status = "SKIPDATA")]
vpcTotals == {"Flows", "Bytes", "Packets", "NoData", "SkipData"}

NewVPCSummary ==
  [sums |-> NoSums(vpcTotals), span |-> NoSpan, capped |-> NoKeys(vpcCounters), ByHour |-> <<>>,
   ScanPorts |-> NoDistinct, Sweep |-> NoDistinct, Exposed |-> <<>>, ExposedDropped |-> 0]
NoService == [flows |-> 0, bytes |-> 0, first |-> 0, sources |-> EmptyBag]
mergeFirst(a, b) == IF a = 0 \/ (b # 0 /\ b < a) THEN b ELSE a

AddStatus(s, e) == [s EXCEPT !.sums = plus(@, vpcSums(e))]
vpcAdd(s, e) ==
  LET n == vpcCapped(e)  key == exposedKey(e)
      fits == key \in DOMAIN s.Exposed \/ Cardinality(DOMAIN s.Exposed) < MaxKeys
      exposed(x, k) == [flows |-> x.flows + 1, bytes |-> x.bytes + e.bytes, first |-> mergeFirst(x.first, e.time),
                        sources |-> capAdd(x.sources, e.src, 1, ExposedSourceCap)]
  IN  [sums |-> plus(s.sums, vpcSums(e)), span |-> widen(s.span, At(e.time)),
       capped |-> [c \in DOMAIN s.capped |-> capAdd(s.capped[c], n[c].key, n[c].n, MaxKeys)],
       ByHour |-> into(s.ByHour, IF e.time = 0 THEN {} ELSE {Hour[e.time]}, LAMBDA c, h : capAdd(c, e.action, 1, MaxKeys), EmptyBag),
       ScanPorts |-> IF Probe(e) THEN DistinctAdd(s.ScanPorts, e.src, e.dstport, ScanPorts) ELSE s.ScanPorts,
       Sweep |-> IF Swept(e) THEN DistinctAdd(s.Sweep, e.src, e.dst, SweepHosts) ELSE s.Sweep,
       Exposed |-> into(s.Exposed, IF Exposure(e) /\ fits THEN {key} ELSE {}, exposed, NoService),
       ExposedDropped |-> s.ExposedDropped + One(Exposure(e) /\ ~fits)]

\* Merge: the summaries it may come to. New services fit in any order.
mergeService(y, x) ==
  {[flows |-> y.flows + x.flows, bytes |-> y.bytes + x.bytes, first |-> mergeFirst(y.first, x.first), sources |-> c] :
     c \in capMerge(y.sources, x.sources, ExposedSourceCap)}
exposedMerge(m, o) ==
  LET new == DOMAIN o \ DOMAIN m
      lost(fit) == Sum([k \in DOMAIN o |-> o[k].flows], new \ fit)
  IN  UNION {{[map |-> over(f, m), dropped |-> lost(fit)] :
                f \in EveryPick([k \in fit \cup (DOMAIN o \ new) |-> mergeService(ValueAt(m, k, NoService), o[k])])} :
             fit \in kSubset(Min({Room(m, MaxKeys), Cardinality(new)}), new)}
vpcMerge(s, o) ==
  {[sums |-> plus(s.sums, o.sums), span |-> widen(s.span, o.span), capped |-> c, ByHour |-> over(h, s.ByHour),
    ScanPorts |-> p, Sweep |-> w, Exposed |-> x.map, ExposedDropped |-> s.ExposedDropped + o.ExposedDropped + x.dropped] :
     c \in EveryPick([n \in vpcCounters |-> capMerge(s.capped[n], o.capped[n], MaxKeys)]),
     h \in EveryPick([t \in DOMAIN o.ByHour |-> capMerge(ValueAt(s.ByHour, t, EmptyBag), o.ByHour[t], MaxKeys)]),
     p \in DistinctMerge(s.ScanPorts, o.ScanPorts, ScanPorts), w \in DistinctMerge(s.Sweep, o.Sweep, SweepHosts),
     x \in exposedMerge(s.Exposed, o.Exposed)}
Truncated(s) == s.ScanPorts.truncated \/ s.Sweep.truncated \/ s.ExposedDropped > 0
-----------------------------------------------------------------------------
\* The rules over a summary; of a legacy key the host is the actor.
vpcHits(s, egress) ==
  LET legacy == s.capped.Legacy
      host(k) == CHOOSE a \in Addr : \E e \in {"in", "out"}, p \in VPCLegacyPorts, t \in {"tcp", "udp"} :
                   k = LegacyKey(a, e, ToString(p) \o "/" \o t)
  IN  {Hit("vpc-port-scan", HIGH, a, Cardinality(s.ScanPorts.sets[a]), s.span.first) : a \in AtLeast(s.ScanPorts, ScanPorts)}
      \cup {Hit("vpc-sensitive-port-exposed", HIGH, k, s.Exposed[k].flows,
                IF s.Exposed[k].first = 0 THEN s.span.first ELSE s.Exposed[k].first) : k \in DOMAIN s.Exposed}
      \cup {Hit("vpc-host-sweep", MEDIUM, a, Cardinality(s.Sweep.sets[a]), s.span.first) : a \in AtLeast(s.Sweep, SweepHosts)}
      \cup {Hit("vpc-large-egress", MEDIUM, a, s.capped.EgressBytes[a], s.span.first) :
              a \in {k \in DOMAIN s.capped.EgressBytes \ {OtherKey} : s.capped.EgressBytes[k] >= egress}}
      \cup {[Hit("vpc-legacy-protocol", LOW, host(k), legacy[k], s.span.first) EXCEPT !.key = k] :
              k \in DOMAIN legacy \ {OtherKey}}
-----------------------------------------------------------------------------
\* What a report should show of the flows F and the status rows R.
DistinctIsOf(d, S, src(_), v(_), limit) ==
  LET all == {src(e) : e \in S}
      truth(a) == {v(e) : e \in {x \in S : src(x) = a}}
  IN  /\ DOMAIN d.sets \subseteq all /\ Cardinality(DOMAIN d.sets) = Min({MaxSources, Cardinality(all)})
      /\ d.truncated <=> Cardinality(all) > MaxSources
      /\ \A a \in DOMAIN d.sets :
           /\ d.sets[a] \subseteq truth(a)
           /\ d.truncated \/ Cardinality(d.sets[a]) = Min({limit, Cardinality(truth(a))})
sourceOf(e) == e.src
ExposedIsOf(m, dropped, S) ==
  /\ Sum([k \in DOMAIN m |-> m[k].flows], DOMAIN m) + dropped = Cardinality(S)
  /\ DOMAIN m \subseteq {exposedKey(e) : e \in S}
  /\ dropped > 0 => Cardinality(DOMAIN m) = MaxKeys
  /\ dropped = 0 => \A k \in DOMAIN m :
       LET X == {e \in S : exposedKey(e) = k} IN
         /\ m[k].flows = Cardinality(X) /\ m[k].bytes = SumOf(X, LAMBDA e : e.bytes)
         /\ m[k].first = SpanOf({e \in X : e.time > 0}).first
         /\ CappedOf(m[k].sources, X, sourceOf, LAMBDA e : 1)
VpcIsOf(s, F, R) ==
  /\ \A n \in vpcTotals : s.sums[n] = SumOf(F \cup R, LAMBDA e : vpcSums(e)[n])
  /\ LET T == {e \in F : e.time > 0} IN
       /\ s.span = SpanOf(T) /\ DOMAIN s.ByHour = {Hour[e.time] : e \in T}
       /\ \A h \in DOMAIN s.ByHour :
            CappedOf(s.ByHour[h], {e \in T : Hour[e.time] = h}, LAMBDA e : e.action, LAMBDA e : 1)
  /\ \A n \in vpcCounters : CappedOf(s.capped[n], F, LAMBDA e : vpcCapped(e)[n].key, LAMBDA e : vpcCapped(e)[n].n)
  /\ DistinctIsOf(s.ScanPorts, {e \in F : Probe(e)}, sourceOf, LAMBDA e : e.dstport, ScanPorts)
  /\ DistinctIsOf(s.Sweep, {e \in F : Swept(e)}, sourceOf, LAMBDA e : e.dst, SweepHosts)
  /\ ExposedIsOf(s.Exposed, s.ExposedDropped, {e \in F : Exposure(e)})

\* Of each rule, whom the flows F make a finding; a summary that lost nothing of what
\* the rule looks at finds all of them, and no summary finds another.
VpcHitsAre(hits, s, F, egress) ==
  LET many(S, v(_), n) == {a \in {e.src : e \in S} : Cardinality({v(e) : e \in {x \in S : x.src = a}}) >= n}
      folded(n) == OtherKey \in DOMAIN s.capped[n]
      found(rule) == {IF h.key = "" THEN h.actor ELSE h.key : h \in {x \in hits : x.rule = rule}}
      is(rule, truth, lost) == found(rule) \subseteq truth /\ (lost \/ found(rule) = truth)
      sent(a) == SumOf({e \in F : Egress(e) /\ e.src = a}, LAMBDA e : e.bytes)
  IN  /\ is("vpc-port-scan", many({e \in F : Probe(e)}, LAMBDA e : e.dstport, ScanPorts), s.ScanPorts.truncated)
      /\ is("vpc-host-sweep", many({e \in F : Swept(e)}, LAMBDA e : e.dst, SweepHosts), s.Sweep.truncated)
      /\ is("vpc-sensitive-port-exposed", {exposedKey(e) : e \in {x \in F : Exposure(x)}}, s.ExposedDropped > 0)
      /\ is("vpc-large-egress", {a \in {e.src : e \in {x \in F : Egress(x)}} : sent(a) >= egress}, folded("EgressBytes"))
      /\ is("vpc-legacy-protocol", {vpcCapped(e).Legacy.key : e \in {x \in F : Legacy(x)}} \ {""}, folded("Legacy"))
=============================================================================
