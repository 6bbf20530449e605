------------------------------ MODULE TrailLog ------------------------------
(***************************************************************************)
(* CloudTrail records: the filter and the summary (internal/ctevent,       *)
(* internal/query, internal/stats/stats.go). A record is a record of its   *)
(* decoded fields; readOnly is "" where the record does not say. An object *)
(* is one JSON value: it decodes as a whole or not at all.                 *)
(***************************************************************************)
EXTENDS LogLine

CONSTANTS ReadOnlyName,   \* the event names whose verb only reads
          ServiceOf       \* ServiceOf[source]: the event source by its service alone

Actor(r) ==
  LET names == <<r.arn, r.invokedBy, r.userName, r.principalId>>
      I == {i \in DOMAIN names : names[i] # ""}
  IN  IF I = {} THEN "unknown" ELSE names[Min(I)]
ServiceName(r) == IF r.source \in DOMAIN ServiceOf THEN ServiceOf[r.source] ELSE r.source
IsWrite(r) == IF r.readOnly # "" THEN r.readOnly = "false" ELSE r.name \notin ReadOnlyName \cup {""}
-----------------------------------------------------------------------------
\* The filter; a resource is one of the record's, or its request parameters.
trailCriterion(c, r) == CASE c = "principal" -> {Actor(r)} [] c = "ip" -> {r.ip} [] c = "event" -> {r.name}
                          [] c = "source" -> {ServiceName(r)} [] c = "resource" -> r.resources \cup {r.params}
trailMatches(f, r) == /\ \A c \in DOMAIN f.want : trailCriterion(c, r) \cap f.want[c] # {}
                      /\ f.errorsOnly => r.error # ""
                      /\ f.writesOnly => IsWrite(r)
                      /\ InTime(f, r)
-----------------------------------------------------------------------------
\* Summary. A record without a time is counted, but not in ByHour.
trailKeys(r) ==
  [ByPrincipal |-> Actor(r), ByEventName |-> r.name, ByService |-> ServiceName(r), ByAccount |-> r.account,
   ByRegion |-> r.region, ByErrorCode |-> r.error, BySourceIP |-> r.ip,
   ByHour |-> IF r.time = 0 THEN "" ELSE Hour[r.time]]
trailCounters == {"ByPrincipal", "ByEventName", "ByService", "ByAccount", "ByRegion", "ByErrorCode", "BySourceIP", "ByHour"}
trailSums(r) == [TotalEvents |-> 1, WriteEvents |-> One(IsWrite(r)), ErrorEvents |-> One(r.error # "")]
NewSummary == [sums |-> NoSums({"TotalEvents", "WriteEvents", "ErrorEvents"}), span |-> NoSpan, by |-> NoKeys(trailCounters)]
trailAdd(s, r) == [sums |-> plus(s.sums, trailSums(r)), span |-> widen(s.span, At(r.time)), by |-> addKeys(s.by, trailKeys(r))]
trailMerge(s, o) == [sums |-> plus(s.sums, o.sums), span |-> widen(s.span, o.span), by |-> merge(s.by, o.by)]

\* What a report should show of the records S.
TrailIsOf(s, S) ==
  /\ \A n \in DOMAIN s.sums : s.sums[n] = SumOf(S, LAMBDA r : trailSums(r)[n])
  /\ \A n \in trailCounters : s.by[n] = CountKeys(S, LAMBDA r : trailKeys(r)[n])
  /\ s.span = SpanOf({r \in S : r.time > 0})
=============================================================================
