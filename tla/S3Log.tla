------------------------------- MODULE S3Log --------------------------------
(***************************************************************************)
(* S3 server access logs: the line, the filter, the summary with its capped*)
(* counters, and the rules over it (internal/s3log, internal/stats/s3.go,  *)
(* internal/s3rules). A line with open TRUE has a bracket or a quote that  *)
(* does not end.                                                           *)
(***************************************************************************)
EXTENDS LogLine

CONSTANTS S3MaxKeys,          \* keys of a capped counter
          S3MaxAccessChanges, \* access changes kept for the rules
          NormTLS             \* NormTLS[s]: TLSv1.2 for TLSV1.2

ASSUME S3CapsAssumption == S3MaxKeys \in Nat \ {0} /\ S3MaxAccessChanges \in Nat \ {0}

Anonymous == "anonymous"
S3Field ==
  [bucket |-> 1, time |-> 2, ip |-> 3, requester |-> 4, operation |-> 6, key |-> 7, status |-> 9, error |-> 10,
   sent |-> 11, agent |-> 16, sig |-> 19, auth |-> 21, tls |-> 23]
S3MinFields == 10

\* Parse: the errors, and the entry.
s3Parses(l) == /\ ~l.open /\ l.n >= S3MinFields /\ Raw(l, "time") \in DOMAIN Number
               /\ at(S3Field, l, "bucket") # "" /\ at(S3Field, l, "operation") # ""

\* The operations by what they do; those of REST requests stand for the prefix "REST.".
WriteOps == {"REST.PUT.OBJECT", "REST.POST.OBJECT", "REST.COPY.OBJECT", "REST.POST.UPLOADS", "REST.PUT.PART",
             "REST.COPY.PART", "REST.POST.UPLOAD"}
DeleteOps == {"REST.DELETE.OBJECT", "BATCH.DELETE.OBJECT"}
ReadOps == {"REST.GET.OBJECT", "REST.HEAD.OBJECT", "REST.GET.BUCKET", "REST.GET.BUCKETVERSIONS", "REST.COPY.OBJECT_GET"}
AccessOps == {"REST.PUT.BUCKETPOLICY", "REST.DELETE.BUCKETPOLICY", "REST.PUT.ACL", "REST.PUT.PUBLIC_ACCESS_BLOCK",
              "REST.DELETE.PUBLIC_ACCESS_BLOCK"}
MultiDelete == "REST.POST.MULTI_OBJECT_DELETE"
normTLS(s) == IF s \in DOMAIN NormTLS THEN NormTLS[s] ELSE s
RestOps == (WriteOps \cup DeleteOps \cup ReadOps \cup AccessOps \cup {MultiDelete}) \ {"BATCH.DELETE.OBJECT"}
s3Entry(l) ==
  LET text(name) == at(S3Field, l, name)
      status == number(text("status"), 0)
  IN  [id |-> l.id, time |-> Number[Raw(l, "time")], bucket |-> text("bucket"), ip |-> text("ip"),
       requester |-> text("requester"), operation |-> text("operation"), key |-> text("key"),
       error |-> text("error"), agent |-> text("agent"), sig |-> text("sig"), auth |-> text("auth"),
       tls |-> normTLS(text("tls")), status |-> status, sent |-> number(text("sent"), 0),
       plainHTTP |-> l.n > S3Field.tls /\ Raw(l, "tls") = "-" /\ text("operation") \in RestOps]

Principal(e) == IF e.requester = "" THEN Anonymous ELSE e.requester
StatusClass(e) == IF e.status \in 200..599 THEN ToString(e.status \div 100) \o "xx" ELSE "other"
Success(e) == e.status \in 200..299
IsError(e) == e.status >= 400 \/ e.error # ""
Denied(e) == e.status = 403 \/ e.error = "AccessDenied"
WeakTLS(e) == e.tls \in {"TLSv1", "TLSv1.0", "TLSv1.1"}
SigV2(e) == e.sig = "SigV2"
-----------------------------------------------------------------------------
\* The filter; a status is wanted by its code or by its class.
s3Criterion(c, e) == CASE c = "operation" -> {e.operation} [] c = "status" -> {ToString(e.status), StatusClass(e)}
                       [] c = "requester" -> {Principal(e)} [] c = "ip" -> {e.ip} [] c = "key" -> {e.key}
                       [] c = "bucket" -> {e.bucket}
s3Matches(f, e) == /\ \A c \in DOMAIN f.want : s3Criterion(c, e) \cap f.want[c] # {}
                   /\ f.errorsOnly => IsError(e)
                   /\ InTime(f, e)
-----------------------------------------------------------------------------
\* S3Summary. The counters that are not capped, and the capped ones with how much an
\* entry adds to its key.
s3Keys(e) ==
  [ByOperation |-> e.operation, ByStatus |-> IF e.status > 0 THEN ToString(e.status) ELSE "",
   ByErrorCode |-> e.error, ByBucket |-> e.bucket, ByTLS |-> e.tls, ByAuthType |-> e.auth, BySigVersion |-> e.sig]
s3Counters == {"ByOperation", "ByStatus", "ByErrorCode", "ByBucket", "ByTLS", "ByAuthType", "BySigVersion"}
s3Capped(e) ==
  LET p == Principal(e)
      one(condition, k) == OneKey(k, One(condition))
      known == e.requester # ""
      sent == IF e.sent > 0 THEN e.sent ELSE 0
  IN  [ByRequester |-> OneKey(p, 1), ByRemoteIP |-> OneKey(e.ip, 1),
       ByKey |-> OneKey(e.bucket \o "/" \o e.key, One(e.key # "")), ByUserAgent |-> OneKey(e.agent, 1),
       BytesByIP |-> OneKey(e.ip, sent), BytesByRequester |-> OneKey(p, IF known THEN sent ELSE 0),
       DeniedByIP |-> one(Denied(e), e.ip), DeniedByRequester |-> one(Denied(e) /\ known, p),
       DeletesByPrincipal |-> one(Success(e) /\ e.operation \in DeleteOps, p), WeakTLSBy |-> one(WeakTLS(e), p),
       PlainHTTPBy |-> one(e.plainHTTP, p), SigV2By |-> one(SigV2(e), p)]
s3CappedCounters == {"ByRequester", "ByRemoteIP", "ByKey", "ByUserAgent", "BytesByIP", "BytesByRequester", "DeniedByIP",
                     "DeniedByRequester", "DeletesByPrincipal", "WeakTLSBy", "PlainHTTPBy", "SigV2By"}
s3Sums(e) == [Total |-> 1, BytesSent |-> e.sent, Errors |-> One(IsError(e)),
              Anonymous |-> One(e.requester = ""), Denied |-> One(Denied(e))]
s3Totals == {"Total", "BytesSent", "Errors", "Anonymous", "Denied"}

\* Successful anonymous requests, by what they do.
AnonWrite(e) == Success(e) /\ e.requester = "" /\ e.operation \in WriteOps \cup DeleteOps \cup {MultiDelete}
AnonRead(e) == Success(e) /\ e.requester = "" /\ e.operation \in ReadOps
NoAnon == [count |-> 0, first |-> 0, ips |-> EmptyBag, keys |-> EmptyBag, ops |-> EmptyBag]
anonHit(h, e) ==
  [count |-> h.count + 1, first |-> IF h.first = 0 \/ e.time < h.first THEN e.time ELSE h.first,
   ips |-> capAdd(h.ips, e.ip, 1, S3MaxKeys), keys |-> capAdd(h.keys, e.key, 1, S3MaxKeys),
   ops |-> add(h.ops, e.operation)]

change(e) == [id |-> e.id, time |-> e.time, principal |-> Principal(e)]

NewS3Summary ==
  [sums |-> NoSums(s3Totals), span |-> NoSpan, by |-> NoKeys(s3Counters), capped |-> NoKeys(s3CappedCounters),
   ByHour |-> <<>>, AnonWrites |-> <<>>, AnonReads |-> <<>>, AccessChanges |-> <<>>]

s3Add(s, e) ==
  LET capped1 == s3Capped(e)
      hit(m, anon) == into(m, IF anon THEN {e.bucket} ELSE {}, LAMBDA h, b : anonHit(h, e), NoAnon)
      changes == IF Success(e) /\ e.operation \in AccessOps THEN Append(s.AccessChanges, change(e)) ELSE s.AccessChanges
  IN  [sums |-> plus(s.sums, s3Sums(e)), span |-> widen(s.span, At(e.time)), by |-> addKeys(s.by, s3Keys(e)),
       capped |-> [n \in DOMAIN s.capped |-> capAdd(s.capped[n], capped1[n].key, capped1[n].n, S3MaxKeys)],
       ByHour |-> into(s.ByHour, {Hour[e.time]}, LAMBDA c, h : add(c, StatusClass(e)), EmptyBag),
       AnonWrites |-> hit(s.AnonWrites, AnonWrite(e)), AnonReads |-> hit(s.AnonReads, AnonRead(e)),
       AccessChanges |-> IF Len(changes) >= 2 * S3MaxAccessChanges
                         THEN earliest(changes, S3MaxAccessChanges) ELSE changes]

mergeAnon(d, h) ==
  {[count |-> d.count + h.count, first |-> IF d.first = 0 \/ (h.first # 0 /\ h.first < d.first) THEN h.first ELSE d.first,
    ips |-> ips, keys |-> keys, ops |-> d.ops (+) h.ops] :
   ips \in capMerge(d.ips, h.ips, S3MaxKeys), keys \in capMerge(d.keys, h.keys, S3MaxKeys)}

\* Merge: the summaries it may come to.
s3Merge(s, o) ==
  LET anon(m, n) == {over(f, m) : f \in EveryPick([b \in DOMAIN n |-> mergeAnon(ValueAt(m, b, NoAnon), n[b])])}
  IN  {[sums |-> plus(s.sums, o.sums), span |-> widen(s.span, o.span), by |-> merge(s.by, o.by), capped |-> c,
        ByHour |-> mergeMaps(s.ByHour, o.ByHour, LAMBDA x, y : x (+) y, EmptyBag), AnonWrites |-> w, AnonReads |-> r,
        AccessChanges |-> earliest(s.AccessChanges \o o.AccessChanges, S3MaxAccessChanges)] :
       c \in EveryPick([n \in s3CappedCounters |-> capMerge(s.capped[n], o.capped[n], S3MaxKeys)]),
       w \in anon(s.AnonWrites, o.AnonWrites), r \in anon(s.AnonReads, o.AnonReads)}
-----------------------------------------------------------------------------
\* The rules over a summary. Keys that were folded are nobody's.
s3Hits(s, denied, deletes, egress) ==
  LET first == s.span.first
      of(n, least) == {k \in DOMAIN s.capped[n] \ {OtherKey} : s.capped[n][k] >= least}
      each(n, rule, severity, least) == {Hit(rule, severity, k, s.capped[n][k], first) : k \in of(n, least)}
      anon(m, rule, severity) == {Hit(rule, severity, b, m[b].count, m[b].first) : b \in DOMAIN m}
  IN  anon(s.AnonWrites, "s3-anonymous-write", CRITICAL) \cup anon(s.AnonReads, "s3-anonymous-read", HIGH)
      \cup each("DeniedByIP", "s3-access-denied-burst", HIGH, denied)
      \cup each("DeniedByRequester", "s3-access-denied-burst", HIGH, denied)
      \cup each("DeletesByPrincipal", "s3-mass-delete", HIGH, deletes)
      \cup {[Hit("s3-access-change", MEDIUM, c.principal, 1, c.time) EXCEPT !.detail = c.id] : c \in Range(s.AccessChanges)}
      \cup each("BytesByRequester", "s3-large-egress", MEDIUM, egress)
      \cup each("BytesByIP", "s3-large-egress", MEDIUM, egress)
      \cup each("WeakTLSBy", "s3-weak-tls", LOW, 1) \cup each("PlainHTTPBy", "s3-plain-http", LOW, 1)
      \cup each("SigV2By", "s3-sigv2", LOW, 1)
-----------------------------------------------------------------------------
\* What a report should show of the requests S.
AnonIsOf(m, S) ==
  /\ DOMAIN m = {e.bucket : e \in S}
  /\ \A b \in DOMAIN m :
       LET X == {e \in S : e.bucket = b} IN
         /\ m[b].count = Cardinality(X) /\ m[b].first = SpanOf(X).first
         /\ m[b].ops = CountKeys(X, LAMBDA e : e.operation)
         /\ CappedOf(m[b].ips, X, LAMBDA e : e.ip, LAMBDA e : 1)
         /\ CappedOf(m[b].keys, X, LAMBDA e : e.key, LAMBDA e : 1)
changes(S) == {e \in S : Success(e) /\ e.operation \in AccessOps}
S3IsOf(s, S) ==
  /\ \A n \in s3Totals : s.sums[n] = SumOf(S, LAMBDA e : s3Sums(e)[n])
  /\ \A n \in s3Counters : s.by[n] = CountKeys(S, LAMBDA e : s3Keys(e)[n])
  /\ \A n \in s3CappedCounters :
       CappedOf(s.capped[n], S, LAMBDA e : s3Capped(e)[n].key, LAMBDA e : s3Capped(e)[n].n)
  /\ s.span = SpanOf(S)
  /\ s.ByHour = [h \in {Hour[e.time] : e \in S} |-> CountKeys({e \in S : Hour[e.time] = h}, StatusClass)]
  /\ AnonIsOf(s.AnonWrites, {e \in S : AnonWrite(e)}) /\ AnonIsOf(s.AnonReads, {e \in S : AnonRead(e)})
  /\ LET kept == s.AccessChanges  ids == {kept[i].id : i \in DOMAIN kept} IN
       /\ Len(kept) = Min({S3MaxAccessChanges, Cardinality(changes(S))}) /\ Cardinality(ids) = Len(kept)
       /\ ids \subseteq {e.id : e \in changes(S)}
       /\ \A i \in DOMAIN kept : \A e \in changes(S) : e.time < kept[i].time => e.id \in ids

\* What the findings should be: those that no cap concerns, and those of counters.
S3Certain(S, kept) ==
  LET of(X, rule, severity) ==
        {Hit(rule, severity, b, Cardinality({e \in X : e.bucket = b}), SpanOf({e \in X : e.bucket = b}).first) :
           b \in {e.bucket : e \in X}}
  IN  of({e \in S : AnonWrite(e)}, "s3-anonymous-write", CRITICAL)
      \cup of({e \in S : AnonRead(e)}, "s3-anonymous-read", HIGH)
      \cup {[Hit("s3-access-change", MEDIUM, Principal(e), 1, e.time) EXCEPT !.detail = e.id] :
              e \in {x \in changes(S) : x.id \in kept}}
S3Counted(S, denied, deletes, egress) ==
  LET of(X, actor(_), n(_), rule, severity, least) ==
        LET total(a) == SumOf({e \in X : actor(e) = a}, n) IN
        {Hit(rule, severity, a, total(a), SpanOf(S).first) :
           a \in {b \in {actor(e) : e \in X} \ {""} : total(b) >= least}}
      ip(e) == e.ip
      one(e) == 1
      sent(e) == IF e.sent > 0 THEN e.sent ELSE 0
      known == {e \in S : e.requester # ""}
      D == {e \in S : Denied(e)}
  IN  of(D, ip, one, "s3-access-denied-burst", HIGH, denied)
      \cup of(D \cap known, Principal, one, "s3-access-denied-burst", HIGH, denied)
      \cup of({e \in S : Success(e) /\ e.operation \in DeleteOps}, Principal, one, "s3-mass-delete", HIGH, deletes)
      \cup of(S, ip, sent, "s3-large-egress", MEDIUM, egress)
      \cup of(known, Principal, sent, "s3-large-egress", MEDIUM, egress)
      \cup of({e \in S : WeakTLS(e)}, Principal, one, "s3-weak-tls", LOW, 1)
      \cup of({e \in S : e.plainHTTP}, Principal, one, "s3-plain-http", LOW, 1)
      \cup of({e \in S : SigV2(e)}, Principal, one, "s3-sigv2", LOW, 1)
S3HitsAre(hits, s, S, denied, deletes, egress) ==
  LET certain == S3Certain(S, {c.id : c \in Range(s.AccessChanges)})
      counted == S3Counted(S, denied, deletes, egress)
      folded == \E n \in s3CappedCounters : OtherKey \in DOMAIN s.capped[n]
  IN  /\ certain \subseteq hits
      /\ \A h \in hits \ certain : \E c \in counted : h.count <= c.count /\ h = [c EXCEPT !.count = h.count]
      /\ ~folded => hits = certain \cup counted
=============================================================================
