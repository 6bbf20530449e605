------------------------------- MODULE ElbLog -------------------------------
(***************************************************************************)
(* Load balancer logs: the four line formats, the filter, and the          *)
(* summaries of requests and of connections (internal/elblog,              *)
(* internal/stats/{elb,elb_health,conn}.go).                               *)
(*                                                                         *)
(* A request is the parts of one field. Fields that are only shown (trace, *)
(* certificate, redirect, ...) are left out.                               *)
(***************************************************************************)
EXTENDS LogLine

CONSTANT Minute     \* Minute[t]: the minute of a time

\* Durations, in milliseconds. Negative is unknown.
seconds(s) == IF s \in DOMAIN Number THEN 1000 * Number[s] ELSE -1
millis(s) == IF s \in DOMAIN Number /\ Number[s] >= 0 THEN Number[s] ELSE -1
-----------------------------------------------------------------------------
\* The positions of the fields, and the fewest fields of a line.
Request(i) == [n \in {"method", "scheme", "host", "path"} |-> i]
Field ==
  [alb |-> Request(12) @@
     [type |-> 0, time |-> 1, lb |-> 2, client |-> 3, target |-> 4, requestTime |-> 5, targetTime |-> 6,
      responseTime |-> 7, status |-> 8, targetStatus |-> 9, received |-> 10, sent |-> 11, agent |-> 13,
      cipher |-> 14, protocol |-> 15, group |-> 16, domain |-> 18, actions |-> 22, reason |-> 24],
   conn |->
     [time |-> 0, client |-> 1, listener |-> 3, protocol |-> 4, cipher |-> 5, handshake |-> 6,
      verify |-> 10, keyExchange |-> 12, lb |-> 13],
   nlb |->
     [type |-> 0, time |-> 2, lb |-> 3, listener |-> 4, client |-> 5, target |-> 6, connTime |-> 7,
      handshake |-> 8, received |-> 9, sent |-> 10, cipher |-> 14, protocol |-> 15, keyExchange |-> 16,
      domain |-> 17],
   classic |-> Request(11) @@
     [time |-> 0, lb |-> 1, client |-> 2, target |-> 3, requestTime |-> 4, targetTime |-> 5,
      responseTime |-> 6, status |-> 7, targetStatus |-> 8, received |-> 9, sent |-> 10, agent |-> 12,
      cipher |-> 13, protocol |-> 14]]
MinFields == [alb |-> 13, conn |-> 14, nlb |-> 11, classic |-> 12]

sumLatency(a, b, c) == IF a < 0 \/ b < 0 \/ c < 0 THEN -1 ELSE a + b + c

\* An entry as the parser of the format makes it.
EntryOf(fmt, l) ==
  LET text(name) == at(Field[fmt], l, name)
      num(name) == seconds(text(name))
      phases == sumLatency(num("requestTime"), num("targetTime"), num("responseTime"))
  IN  [id |-> l.id, conn |-> fmt = "conn", time |-> number(text("time"), 0),
       type |-> IF fmt = "classic" THEN (IF text("scheme") = "" THEN "tcp" ELSE text("scheme")) ELSE text("type"),
       lb |-> text("lb"), client |-> text("client"), target |-> text("target"), targetTime |-> num("targetTime"),
       latency |-> CASE fmt \in {"alb", "classic"} -> phases [] fmt = "nlb" -> millis(text("connTime")) [] OTHER -> -1,
       status |-> text("status"), targetStatus |-> text("targetStatus"),
       received |-> number(text("received"), 0), sent |-> number(text("sent"), 0),
       method |-> text("method"), host |-> text("host"), path |-> text("path"), agent |-> text("agent"),
       cipher |-> text("cipher"), protocol |-> text("protocol"), group |-> text("group"),
       domain |-> text("domain"), actions |-> text("actions"), reason |-> text("reason"),
       listener |-> text("listener"),
       handshake |-> IF fmt = "nlb" THEN millis(text("handshake")) ELSE num("handshake"),
       keyExchange |-> text("keyExchange"), verify |-> text("verify")]

\* ParseALB, ParseALBConn, ParseNLB, ParseClassic: too few fields or a bad time
\* make the line a bad one.
elbParses(fmt, l) == /\ l.n >= MinFields[fmt]
                     /\ Raw(l, "time") \in DOMAIN Number

HostOrSNI(e) == IF e.host # "" THEN e.host ELSE e.domain
Digit(code) == LET n == number(code, 0) IN IF n \in 100..599 THEN n \div 100 ELSE 0

\* The first reason stands for those that start with "TargetConnection".
TargetConnError(e) == /\ ~e.conn
                      /\ \/ e.reason = "TargetConnectionError"
                         \/ e.status = "502" /\ e.target # "" /\ e.targetStatus = ""
HandshakeFailed(e) == e.conn /\ e.listener = "443" /\ e.protocol = ""
-----------------------------------------------------------------------------
\* The filter.
elbCriterion(c, e) == CASE c = "client" -> e.client [] c = "host" -> HostOrSNI(e) [] c = "path" -> e.path
                        [] c = "target" -> e.target [] c = "agent" -> e.agent [] c = "method" -> e.method
                        [] c = "status" -> e.status
elbMatches(f, e) == /\ Wanted(f, e, elbCriterion)
                    /\ f.slower > 0 => e.latency >= f.slower
                    /\ InTime(f, e)
connMatches(f, e) == /\ DOMAIN f.want \subseteq {"client"} /\ f.slower = 0
                     /\ "client" \in DOMAIN f.want => e.client \in f.want.client
                     /\ InTime(f, e)
-----------------------------------------------------------------------------
\* ELBSummary. The counters by their names:
elbKeys(e) ==
  [ByLB |-> e.lb, ByType |-> e.type, ByStatus |-> e.status, ByTargetStatus |-> e.targetStatus,
   ByHost |-> HostOrSNI(e), ByPath |-> NormalizePath(e.path), ByClientIP |-> e.client,
   ByUserAgent |-> e.agent, ByTarget |-> e.target, ByMethod |-> e.method, BySSLProtocol |-> e.protocol,
   BySSLCipher |-> e.cipher, ByErrorReason |-> e.reason, ByAction |-> e.actions, ByHour |-> Hour[e.time],
   ByTarget5xx |-> IF Digit(e.targetStatus) = 5 THEN e.target ELSE ""]
elbSums(e) ==
  [Total |-> 1, ReceivedBytes |-> e.received, SentBytes |-> e.sent, Errors4xx |-> One(Digit(e.status) = 4),
   Errors5xx |-> One(Digit(e.status) = 5), TargetConnErrors |-> One(TargetConnError(e))]
elbCounters == {"ByLB", "ByType", "ByStatus", "ByTargetStatus", "ByHost", "ByPath", "ByClientIP", "ByUserAgent",
                "ByTarget", "ByMethod", "BySSLProtocol", "BySSLCipher", "ByErrorReason", "ByAction", "ByHour",
                "ByTarget5xx"}
elbTotals == {"Total", "ReceivedBytes", "SentBytes", "Errors4xx", "Errors5xx", "TargetConnErrors"}

\* (The code keeps no least Latency.)
NewELBSummary ==
  [sums |-> NoSums(elbTotals), span |-> NoSpan, by |-> NoKeys(elbCounters), Latency |-> NoLat, TargetTime |-> NoLat,
   Timeline |-> <<>>, ByTargetGroup |-> <<>>, PathTiming |-> <<>>]

\* TimeBucket and GroupStats: what differs is which classes they count.
NoCell == [requests |-> 0, connErrors |-> 0, elb |-> EmptyBag, tgt |-> EmptyBag, targets |-> EmptyBag,
           TargetTime |-> NoLat, Latency |-> NoLat]
BucketOf(e) ==
  [requests |-> 1, connErrors |-> One(TargetConnError(e)), elb |-> SetToBag({Digit(e.status)}),
   tgt |-> SetToBag({Digit(e.targetStatus)}), targets |-> EmptyBag,
   TargetTime |-> addLat(NoLat, e.targetTime), Latency |-> addLat(NoLat, e.latency)]
GroupOf(e) ==
  [BucketOf(e) EXCEPT !.elb = IF Digit(e.status) = 5 THEN @ ELSE EmptyBag,
                      !.targets = add(EmptyBag, e.target), !.Latency = NoLat]
mergeCell(c, o) ==
  [requests |-> c.requests + o.requests, connErrors |-> c.connErrors + o.connErrors,
   elb |-> c.elb (+) o.elb, tgt |-> c.tgt (+) o.tgt, targets |-> c.targets (+) o.targets,
   TargetTime |-> mergeLat(c.TargetTime, o.TargetTime), Latency |-> mergeLat(c.Latency, o.Latency)]

\* addHealth and mergeHealth.
addHealth(s, e) ==
  LET path == NormalizePath(e.path) IN
  [TargetTime |-> addLat(s.TargetTime, e.targetTime),
   Timeline |-> into(s.Timeline, {Minute[e.time]}, LAMBDA b, m : mergeCell(b, BucketOf(e)), NoCell),
   ByTargetGroup |-> into(s.ByTargetGroup, {e.group} \ {""}, LAMBDA g, k : mergeCell(g, GroupOf(e)), NoCell),
   PathTiming |-> into(s.PathTiming, IF e.latency >= 0 THEN {path} \ {""} ELSE {},
                       LAMBDA l, p : addLat(l, e.latency), NoLat)]
mergeHealth(s, o) ==
  [TargetTime |-> mergeLat(s.TargetTime, o.TargetTime),
   Timeline |-> mergeMaps(s.Timeline, o.Timeline, mergeCell, NoCell),
   ByTargetGroup |-> mergeMaps(s.ByTargetGroup, o.ByTargetGroup, mergeCell, NoCell),
   PathTiming |-> mergeMaps(s.PathTiming, o.PathTiming, mergeLat, NoLat)]

elbAdd(s, e) ==
  LET health == addHealth(s, e) IN
  [sums |-> plus(s.sums, elbSums(e)), span |-> widen(s.span, At(e.time)), by |-> addKeys(s.by, elbKeys(e)),
   Latency |-> addLat(s.Latency, e.latency), TargetTime |-> health.TargetTime, Timeline |-> health.Timeline,
   ByTargetGroup |-> health.ByTargetGroup, PathTiming |-> health.PathTiming]
elbMerge(s, o) ==
  LET health == mergeHealth(s, o) IN
  [sums |-> plus(s.sums, o.sums), span |-> widen(s.span, o.span), by |-> merge(s.by, o.by),
   Latency |-> mergeLat(s.Latency, o.Latency), TargetTime |-> health.TargetTime, Timeline |-> health.Timeline,
   ByTargetGroup |-> health.ByTargetGroup, PathTiming |-> health.PathTiming]
-----------------------------------------------------------------------------
\* ConnSummary.
connKeys(e) ==
  LET proto == IF e.protocol = "" THEN "no TLS" ELSE e.protocol IN
  [ByLB |-> e.lb, ByListener |-> e.listener, ByProtocol |-> e.protocol, ByCipher |-> e.cipher,
   ByListenerTLS |-> IF e.listener = "" THEN "" ELSE e.listener \o " " \o proto,
   ByKeyExchange |-> e.keyExchange, ByVerify |-> e.verify, ByClientIP |-> e.client,
   ByFailedClientIP |-> IF HandshakeFailed(e) THEN e.client ELSE ""]
connSums(e) == [Total |-> 1, TLS |-> One(e.protocol # ""), HandshakeFailed |-> One(HandshakeFailed(e))]
NewConnSummary ==
  [sums |-> NoSums({"Total", "TLS", "HandshakeFailed"}), span |-> NoSpan, Handshake |-> NoLat,
   by |-> NoKeys({"ByLB", "ByListener", "ByProtocol", "ByCipher", "ByListenerTLS", "ByKeyExchange", "ByVerify",
                  "ByClientIP", "ByFailedClientIP"})]
connAdd(s, e) ==
  [sums |-> plus(s.sums, connSums(e)), span |-> widen(s.span, At(e.time)), Handshake |-> addLat(s.Handshake, e.handshake),
   by |-> addKeys(s.by, connKeys(e))]
connMerge(s, o) ==
  [sums |-> plus(s.sums, o.sums), span |-> widen(s.span, o.span), Handshake |-> mergeLat(s.Handshake, o.Handshake),
   by |-> merge(s.by, o.by)]
-----------------------------------------------------------------------------
\* What a report should show of the requests S, and of the connections S.
CellOf(S) == [requests |-> Cardinality(S), connErrors |-> Cardinality({e \in S : TargetConnError(e)}),
              tgt |-> CountAll(S, LAMBDA e : Digit(e.targetStatus)),
              TargetTime |-> LatOf(S, LAMBDA e : e.targetTime)]
ElbIsOf(s, S) ==
  /\ \A n \in elbTotals : s.sums[n] = SumOf(S, LAMBDA e : elbSums(e)[n])
  /\ \A n \in elbCounters : s.by[n] = CountKeys(S, LAMBDA e : elbKeys(e)[n])
  /\ s.span = SpanOf(S)
  /\ s.Latency = LatOf(S, LAMBDA e : e.latency) /\ s.TargetTime = LatOf(S, LAMBDA e : e.targetTime)
  /\ s.PathTiming = [p \in {NormalizePath(e.path) : e \in {x \in S : x.latency >= 0}} \ {""} |->
                       LatOf({e \in S : NormalizePath(e.path) = p}, LAMBDA e : e.latency)]
  /\ DOMAIN s.Timeline = {Minute[e.time] : e \in S}
  /\ DOMAIN s.ByTargetGroup = {e.group : e \in S} \ {""}
  /\ LET shows(c, T) == \A n \in DOMAIN CellOf(T) : c[n] = CellOf(T)[n] IN
       /\ \A m \in DOMAIN s.Timeline :
            LET T == {e \in S : Minute[e.time] = m} IN
              /\ shows(s.Timeline[m], T)
              /\ s.Timeline[m].elb = CountAll(T, LAMBDA e : Digit(e.status))
              /\ s.Timeline[m].Latency = LatOf(T, LAMBDA e : e.latency)
       /\ \A g \in DOMAIN s.ByTargetGroup :
            LET T == {e \in S : e.group = g} IN
              /\ shows(s.ByTargetGroup[g], T)
              /\ CountOf(s.ByTargetGroup[g].elb, 5) = Cardinality({e \in T : Digit(e.status) = 5})
              /\ s.ByTargetGroup[g].targets = CountKeys(T, LAMBDA e : e.target)
ConnIsOf(s, S) ==
  /\ \A n \in DOMAIN s.sums : s.sums[n] = SumOf(S, LAMBDA e : connSums(e)[n])
  /\ \A n \in DOMAIN s.by : s.by[n] = CountKeys(S, LAMBDA e : connKeys(e)[n])
  /\ s.span = SpanOf(S) /\ s.Handshake = LatOf(S, LAMBDA e : e.handshake)
=============================================================================
