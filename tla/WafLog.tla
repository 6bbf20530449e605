------------------------------- MODULE WafLog -------------------------------
(***************************************************************************)
(* AWS WAF logs: the JSON record, the filter, the summary and the rules    *)
(* over it (internal/waflog, internal/stats/waf.go, internal/wafrules).    *)
(*                                                                         *)
(* A line is a record of the decoded fields; time 0 or action "" is a line *)
(* that is no WAF record. A rule group is [group, rule, matched, excluded],*)
(* rule "" without a terminating rule, matched a sequence of rules with    *)
(* their actions. A captcha or challenge answer is [code, reason].         *)
(***************************************************************************)
EXTENDS LogLine

CONSTANTS ShortName,  \* ShortName[id]: a web ACL or rule group by its name alone
          Exploit     \* the COUNT rules and labels of the exploit rule groups

Short(id) == IF id \in DOMAIN ShortName THEN ShortName[id] ELSE id
Header(l, name) ==
  LET H == {i \in DOMAIN l.headers : l.headers[i].name = name}
  IN  IF H = {} THEN "" ELSE l.headers[Max(H)].value
those(s, K) ==    \* what s has at the positions K, in its order
  [p \in 1..Cardinality(K) |-> s[CHOOSE i \in K : Cardinality({j \in K : j <= i}) = p]]
Named(rules) == those(rules, {i \in DOMAIN rules : rules[i] # ""})
Counted(matched) ==
  LET C == those(matched, {i \in DOMAIN matched : matched[i].action = "COUNT"}) IN [i \in DOMAIN C |-> C[i].rule]
failed(c) == c.reason # "" \/ (c.code # 0 /\ c.code \notin 200..299)

\* The group whose rule terminated the request: the last with a terminating rule.
selected(l) ==
  IF l.ruleType \in {"GROUP", "MANAGED_RULE_GROUP"}
  THEN Max({0} \cup {i \in DOMAIN l.groups : l.groups[i].rule # ""}) ELSE 0
GroupRule(g, rule) == Short(g.group) \o "/" \o rule
countRules(l) ==
  LET ofGroup(i) ==
        LET g == l.groups[i]
            rules == (IF i = selected(l) THEN <<>> ELSE Named(<<g.rule>>)) \o Counted(g.matched) \o Named(g.excluded)
        IN  [j \in DOMAIN rules |-> GroupRule(g, rules[j])]
      all == FlattenSeq([i \in DOMAIN l.groups |-> ofGroup(i)]) \o Counted(l.matched)
  IN  those(all, {i \in DOMAIN all : \A j \in 1..i - 1 : all[j] # all[i]})    \* each once

wafParses(l) == l.time # 0 /\ l.action # ""
wafEntry(l) ==
  LET g == selected(l) IN
  [id |-> l.id, time |-> l.time, action |-> l.action, acl |-> Short(l.acl),
   rule |-> IF g = 0 THEN l.rule ELSE GroupRule(l.groups[g], l.groups[g].rule),
   group |-> IF g = 0 THEN "" ELSE Short(l.groups[g].group),
   source |-> l.source, client |-> l.client, country |-> l.country, method |-> l.method, uri |-> l.uri,
   host |-> Header(l, "host"), agent |-> Header(l, "user-agent"), labels |-> Named(l.labels),
   countRules |-> countRules(l), rateRule |-> IF l.ruleType = "RATE_BASED" THEN l.rule ELSE "",
   code |-> l.code, oversize |-> l.oversize # {}, ja4 |-> l.ja4,
   challengeFailed |-> failed(l.captcha) \/ failed(l.challenge)]

\* The first exploit rule, or else the first exploit label, of an allowed request.
ExploitMatch(e) ==
  LET first(texts) == LET X == SelectSeq(texts, LAMBDA r : r \in Exploit) IN IF X = <<>> THEN "" ELSE Head(X)
  IN  IF e.action # "ALLOW" THEN "" ELSE IF first(e.countRules) # "" THEN first(e.countRules) ELSE first(e.labels)
-----------------------------------------------------------------------------
wafCriterion(c, e) == CASE c = "action" -> e.action [] c = "client" -> e.client [] c = "country" -> e.country
                        [] c = "rule" -> e.rule [] c = "uri" -> e.uri [] c = "host" -> e.host
wafMatches(f, e) == Wanted(f, e, wafCriterion) /\ InTime(f, e)
-----------------------------------------------------------------------------
\* WAFSummary. Counters of one key per entry, and two of several.
blocked(e) == e.client # "" /\ e.action = "BLOCK"
wafKeys(e) ==
  [ByAction |-> e.action, ByACL |-> e.acl, ByRule |-> IF e.action = "ALLOW" THEN "" ELSE e.rule,
   ByRuleGroup |-> e.group, ByClientIP |-> e.client, ByBlockedIP |-> IF blocked(e) THEN e.client ELSE "",
   ByCountry |-> e.country, ByBlockedCountry |-> IF blocked(e) THEN e.country ELSE "", ByHost |-> e.host,
   ByURI |-> NormalizePath(e.uri), ByMethod |-> e.method, ByUserAgent |-> e.agent, BySource |-> e.source, ByJA4 |-> e.ja4,
   ByResponseCode |-> IF e.code > 0 THEN ToString(e.code) ELSE "",
   OversizeIPs |-> IF e.oversize THEN e.client ELSE ""]
wafCounters == {"ByAction", "ByACL", "ByRule", "ByRuleGroup", "ByClientIP", "ByBlockedIP", "ByCountry",
                "ByBlockedCountry", "ByHost", "ByURI", "ByMethod", "ByUserAgent", "BySource", "ByJA4",
                "ByResponseCode", "OversizeIPs"}
wafLists(e) == [ByLabel |-> e.labels, ByCountRule |-> e.countRules]
Occurrences(texts) == [r \in Range(texts) \ {""} |-> Cardinality({i \in DOMAIN texts : texts[i] = r})]
wafSums(e) ==
  [Total |-> 1, Counted |-> One(e.countRules # <<>>), Oversize |-> One(e.oversize)]
ipSums(e) ==
  [Blocks |-> One(e.action = "BLOCK"), Allows |-> One(e.action = "ALLOW"), RateLimited |-> One(e.rateRule # ""),
   ChallengeFails |-> One(e.challengeFailed)]
wafTotals == {"Total", "Counted", "Oversize"}
NoIP == NoSums({"Blocks", "Allows", "RateLimited", "ChallengeFails"})
NoExploit == [count |-> 0, first |-> 0, uri |-> "", matches |-> EmptyBag]

NewWAFSummary ==
  [sums |-> NoSums(wafTotals), span |-> NoSpan, by |-> NoKeys(wafCounters), lists |-> NoKeys({"ByLabel", "ByCountRule"}),
   ByHour |-> <<>>, IPs |-> <<>>, RateByRule |-> <<>>, Exploits |-> <<>>]

\* An exploit hit keeps when, and on which URI, it was first seen.
mergeExploit(d, h) ==
  LET earlier == d.first = 0 \/ (h.first # 0 /\ h.first < d.first) IN
  [count |-> d.count + h.count, matches |-> d.matches (+) h.matches,
   first |-> IF earlier THEN h.first ELSE d.first, uri |-> IF earlier THEN h.uri ELSE d.uri]
ExploitOf(e) == [count |-> 1, first |-> e.time, uri |-> e.uri, matches |-> SetToBag({ExploitMatch(e)})]

wafAdd(s, e) ==
  [sums |-> plus(s.sums, wafSums(e)), span |-> widen(s.span, At(e.time)), by |-> addKeys(s.by, wafKeys(e)),
   lists |-> [n \in DOMAIN s.lists |-> s.lists[n] (+) Occurrences(wafLists(e)[n])],
   ByHour |-> into(s.ByHour, {Hour[e.time]}, LAMBDA c, h : add(c, e.action), EmptyBag),
   IPs |-> into(s.IPs, {e.client} \ {""}, LAMBDA st, ip : plus(st, ipSums(e)), NoIP),
   RateByRule |-> into(s.RateByRule, {e.rateRule} \ {""}, LAMBDA c, r : add(c, e.client), EmptyBag),
   Exploits |-> into(s.Exploits, IF ExploitMatch(e) # "" THEN {e.client} ELSE {},
                     LAMBDA h, ip : mergeExploit(h, ExploitOf(e)), NoExploit)]

wafMerge(s, o) ==
  LET both(c, d) == c (+) d IN
  [sums |-> plus(s.sums, o.sums), span |-> widen(s.span, o.span), by |-> merge(s.by, o.by),
   lists |-> merge(s.lists, o.lists), ByHour |-> mergeMaps(s.ByHour, o.ByHour, both, EmptyBag),
   IPs |-> mergeMaps(s.IPs, o.IPs, plus, NoIP), RateByRule |-> mergeMaps(s.RateByRule, o.RateByRule, both, EmptyBag),
   Exploits |-> mergeMaps(s.Exploits, o.Exploits, mergeExploit, NoExploit)]
-----------------------------------------------------------------------------
\* The rules over a summary.
wafHits(s, threshold) ==
  LET challengeMin == Max({threshold \div 10, 1})
      persistent == {ip \in DOMAIN s.IPs : s.IPs[ip].Blocks >= threshold}
      allowed == {ip \in persistent : s.IPs[ip].Allows > 0}
  IN  {Hit("waf-exploit-allowed", CRITICAL, ip, s.Exploits[ip].count, s.Exploits[ip].first) : ip \in DOMAIN s.Exploits}
      \cup {Hit("waf-attacker-allowed", HIGH, ip, s.IPs[ip].Blocks, s.span.first) : ip \in allowed}
      \cup {Hit("waf-persistent-blocked-ip", MEDIUM, ip, s.IPs[ip].Blocks, s.span.first) : ip \in persistent \ allowed}
      \cup {Hit("waf-challenge-failures", LOW, ip, s.IPs[ip].ChallengeFails, s.span.first) :
              ip \in {i \in DOMAIN s.IPs : s.IPs[i].ChallengeFails >= challengeMin}}
      \cup {Hit("waf-rate-limited", HIGH, r, Sum(s.RateByRule[r], DOMAIN s.RateByRule[r]), s.span.first) : r \in DOMAIN s.RateByRule}
      \cup {Hit("waf-count-rule", MEDIUM, r, s.lists.ByCountRule[r], s.span.first) : r \in DOMAIN s.lists.ByCountRule}
      \cup {Hit("waf-oversize", MEDIUM, "", s.sums.Oversize, s.span.first) : x \in {1} \cap 1..s.sums.Oversize}
-----------------------------------------------------------------------------
\* What a report should show of the requests S, and what its findings should be.
WafIsOf(s, S) ==
  LET of(ip) == {e \in S : e.client = ip}
      exploits == {e \in S : ExploitMatch(e) # ""}
      texts(n) == (UNION {Range(wafLists(e)[n]) : e \in S}) \ {""}
  IN  /\ \A n \in wafTotals : s.sums[n] = SumOf(S, LAMBDA e : wafSums(e)[n])
      /\ \A n \in wafCounters : s.by[n] = CountKeys(S, LAMBDA e : wafKeys(e)[n])
      /\ \A n \in DOMAIN s.lists :
           s.lists[n] = [r \in texts(n) |-> SumOf(S, LAMBDA e : CountOf(Occurrences(wafLists(e)[n]), r))]
      /\ s.span = SpanOf(S)
      /\ s.ByHour = [h \in {Hour[e.time] : e \in S} |-> CountKeys({e \in S : Hour[e.time] = h}, LAMBDA e : e.action)]
      /\ DOMAIN s.IPs = {e.client : e \in S} \ {""}
      /\ \A ip \in DOMAIN s.IPs, n \in DOMAIN NoIP : s.IPs[ip][n] = SumOf(of(ip), LAMBDA e : ipSums(e)[n])
      /\ s.RateByRule = [r \in {e.rateRule : e \in S} \ {""} |->
                           CountKeys({e \in S : e.rateRule = r}, LAMBDA e : e.client)]
      /\ DOMAIN s.Exploits = {e.client : e \in exploits}
      /\ \A ip \in DOMAIN s.Exploits :
           LET X == exploits \cap of(ip)  h == s.Exploits[ip] IN
             /\ h.count = Cardinality(X) /\ h.matches = CountKeys(X, ExploitMatch)
             /\ h.first = SpanOf(X).first
             /\ \E e \in X : e.time = h.first /\ e.uri = h.uri

WafHitsOf(S, threshold) ==
  LET Clients == {e.client : e \in S} \ {""}
      of(ip, action) == Cardinality({e \in S : e.client = ip /\ e.action = action})
      fails(ip) == Cardinality({e \in S : e.client = ip /\ e.challengeFailed})
      first == SpanOf(S).first
      allowed == {e \in S : ExploitMatch(e) # ""}
      by(p(_)) == Cardinality({e \in S : p(e)})
  IN  {Hit("waf-exploit-allowed", CRITICAL, ip, by(LAMBDA e : e \in allowed /\ e.client = ip),
           SpanOf({e \in allowed : e.client = ip}).first) : ip \in {e.client : e \in allowed}}
      \cup {Hit(IF of(ip, "ALLOW") > 0 THEN "waf-attacker-allowed" ELSE "waf-persistent-blocked-ip",
                IF of(ip, "ALLOW") > 0 THEN HIGH ELSE MEDIUM, ip, of(ip, "BLOCK"), first) :
              ip \in {c \in Clients : of(c, "BLOCK") >= threshold}}
      \cup {Hit("waf-challenge-failures", LOW, ip, fails(ip), first) :
              ip \in {c \in Clients : fails(c) > 0 /\ fails(c) >= threshold \div 10}}
      \cup {Hit("waf-rate-limited", HIGH, r, by(LAMBDA e : e.rateRule = r /\ e.client # ""), first) :
              r \in {e.rateRule : e \in S} \ {""}}
      \cup {Hit("waf-count-rule", MEDIUM, r, by(LAMBDA e : r \in Range(e.countRules)), first) :
              r \in (UNION {Range(e.countRules) : e \in S}) \ {""}}
      \cup {Hit("waf-oversize", MEDIUM, "", n, first) : n \in {by(LAMBDA e : e.oversize)} \ {0}}
=============================================================================
