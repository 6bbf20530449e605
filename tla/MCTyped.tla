------------------------------ MODULE MCTyped -------------------------------
(***************************************************************************)
(* A few objects of each log type for TLC, with the lines that are hard:   *)
(* short and bad ones, no status, no target, a negative duration, a group  *)
(* that only counts, clients and keys past the cap, equal times, objects   *)
(* that are broken or have no good line, files with other columns.         *)
(***************************************************************************)
EXTENDS Typed

Numbers == "200" :> 200 @@ "204" :> 204 @@ "403" :> 403 @@ "404" :> 404 @@ "502" :> 502 @@ "504" :> 504
           @@ "22" :> 22 @@ "23" :> 23 @@ "443" :> 443 @@ "50000" :> 50000 @@ "70000" :> 70000 @@ "5000" :> 5000 @@ "17" :> 17
MCNumber == Numbers @@ [n \in {ToString(i) : i \in -1..7} |-> CHOOSE i \in -1..7 : ToString(i) = n]
MCHour == [t \in 1..7 |-> IF t < 4 THEN "h0" ELSE "h1"]
MCMinute == [t \in 1..7 |-> t \div 2]
MCUnmapped == "::h2" :> "h2"
MCNormTLS == "TLSV1" :> "TLSv1"
MCNormalPath == "/u/1" :> "/u/*" @@ "/u/2" :> "/u/*"

Object(key, dir, fmt, lines) ==
  [key |-> key, dir |-> dir, fmt |-> fmt, lb |-> dir, isLog |-> TRUE, broken |-> FALSE, header |-> <<>>, lines |-> lines]
Broken(key, dir, fmt) == [Object(key, dir, fmt, <<>>) EXCEPT !.broken = TRUE]
Other(key, dir) == [Object(key, dir, "", <<>>) EXCEPT !.isLog = FALSE]
Line(id, n, f) == [id |-> id, n |-> n, f |-> f, open |-> FALSE]
NoFilter == [want |-> <<>>, since |-> 0, until |-> 0, slower |-> 0, errorsOnly |-> FALSE, writesOnly |-> FALSE]
All == [filter |-> NoFilter, kinds |-> {}, lbs |-> {}, dirs |-> {}, partitioned |-> FALSE]
Want(c, set) == [All EXCEPT !.filter.want = c :> set]
-----------------------------------------------------------------------------
\* Load balancers.
R(time, client, target, status, targetStatus, path) ==
  [type |-> "h2", time |-> time, lb |-> "web", client |-> client, target |-> target, requestTime |-> "1",
   targetTime |-> "2", responseTime |-> "1", status |-> status, targetStatus |-> targetStatus, received |-> "3",
   sent |-> "4", method |-> "GET", scheme |-> "https", host |-> "a", path |-> path, group |-> "g1", domain |-> "sni"]
ElbObjects ==
  {Object("alb", "web", "alb",
     <<Line(1, 29, R("4", "c1", "x1", "200", "200", "/u/1")), Line(2, 12, R("1", "c1", "x1", "200", "200", "/")),
       Line(3, 29, [R("3", "c2", "x1", "502", "-", "/u/2") EXCEPT !.targetTime = "-1"]),
       Line(4, 13, [R("1", "c1", "-", "404", "-", "/") EXCEPT !.host = "-"])>>),
   Object("conn", "web", "conn",
     <<Line(5, 14, [time |-> "2", client |-> "c1", listener |-> "443", protocol |-> "TLS", handshake |-> "3", lb |-> "web"]),
       Line(6, 13, [time |-> "1"]),
       Line(7, 14, [time |-> "1", client |-> "c2", listener |-> "443", lb |-> "web"])>>),
   Object("nlb", "net", "nlb",
     <<Line(8, 18, [type |-> "tls", time |-> "2", lb |-> "net", listener |-> "l", client |-> "c1", target |-> "x2",
                    connTime |-> "5000", received |-> "2"])>>),
   Object("bad", "net", "nlb", <<Line(9, 18, [time |-> "x"])>>),
   Object("clb", "old", "classic",
     <<Line(10, 15, R("1", "c2", "x2", "504", "502", "/u/1")),
       Line(11, 12, [R("5", "c2", "-", "-", "-", "-") EXCEPT !.scheme = "-"])>>),
   Broken("cut", "web", "alb"), Other("test", "web")}
ElbOptions ==
  {All, Want("client", {"c1"}), Want("status", {"502", "504"}),
   [All EXCEPT !.filter.slower = 4000, !.filter.until = 4], [All EXCEPT !.filter.since = 2],
   [All EXCEPT !.kinds = {"alb"}, !.lbs = {"web"}]}
-----------------------------------------------------------------------------
\* WAF.
W(id, time, action, client) ==
  [id |-> id, time |-> time, action |-> action, acl |-> "arn/web", rule |-> "r1", ruleType |-> "REGULAR", groups |-> <<>>,
   matched |-> <<>>, source |-> "ALB", client |-> client, country |-> "NL", method |-> "GET", uri |-> "/u/1",
   headers |-> <<[name |-> "host", value |-> "a"]>>, labels |-> <<>>, captcha |-> [code |-> 0, reason |-> ""],
   challenge |-> [code |-> 0, reason |-> ""], code |-> 0, oversize |-> {}, ja4 |-> ""]
Group(group, rule, matched) == [group |-> group, rule |-> rule, matched |-> matched, excluded |-> <<>>]
Count(rule) == [rule |-> rule, action |-> "COUNT"]
MCShortName == "arn/web" :> "web" @@ "AWS#SQLi" :> "SQLi"
MCExploit == {"SQLi/q", "awswaf:sql"}
WafObjects ==
  {Object("w1", "web", "",
     <<[W(1, 3, "ALLOW", "c1") EXCEPT !.groups = <<Group("AWS#SQLi", "q", <<Count("q")>>)>>],
       W(2, 2, "", "c1"), [W(3, 4, "BLOCK", "c1") EXCEPT !.ruleType = "RATE_BASED"],
       [W(4, 2, "BLOCK", "c1") EXCEPT !.ruleType = "GROUP",
          !.groups = <<Group("AWS#SQLi", "q", <<>>), Group("mine", "z", <<Count("y")>>)>>]>>),
   Object("w2", "web", "",
     <<[W(5, 1, "ALLOW", "c1") EXCEPT !.labels = <<"l", "awswaf:sql", "l">>, !.uri = "/u/2", !.oversize = {"body"}]>>),
   Object("w3", "api", "",
     <<[W(6, 5, "CHALLENGE", "c2") EXCEPT !.challenge = [code |-> 405, reason |-> ""], !.code = 202],
       [W(7, 1, "ALLOW", "") EXCEPT !.matched = <<Count("y"), Count("y")>>, !.labels = <<"awswaf:sql">>]>>),
   Object("w4", "api", "", <<W(8, 2, "BLOCK", "c2"), W(9, 5, "BLOCK", "c2")>>),
   Broken("w5", "api", "")}
WafOptions == {All, [All EXCEPT !.dirs = {"api"}], [All EXCEPT !.dirs = {"none"}], Want("action", {"BLOCK"}),
               Want("host", {"a"}), [All EXCEPT !.filter.since = 2, !.filter.until = 5]}
-----------------------------------------------------------------------------
\* S3 access.
A(id, time, ip, requester, operation, key, status) ==
  Line(id, 26, [bucket |-> "b1", time |-> time, ip |-> ip, requester |-> requester, operation |-> operation, key |-> key,
                status |-> status, error |-> "-", sent |-> "3", agent |-> "ua", sig |-> "SigV4", auth |-> "-",
                tls |-> "TLSv1.2"])
S3Objects ==
  {Object("s1", "b1", "",
     <<A(1, "3", "i1", "-", "REST.PUT.OBJECT", "k1", "200"), A(2, "2", "i2", "-", "REST.GET.OBJECT", "k2", "200"),
       [A(3, "1", "i1", "u", "REST.GET.OBJECT", "k1", "200") EXCEPT !.open = TRUE],
       A(4, "4", "i1", "u", "REST.PUT.ACL", "-", "200")>>),
   Object("s2", "b1", "",
     <<A(5, "1", "i1", "-", "REST.POST.MULTI_OBJECT_DELETE", "-", "200"), A(6, "1", "i1", "-", "BATCH.DELETE.OBJECT", "k3", "204"),
       A(7, "2", "i3", "u", "REST.PUT.ACL", "-", "200")>>),
   Object("s3", "b2", "",
     <<[A(8, "2", "i1", "u", "REST.GET.OBJECT", "k1", "403") EXCEPT !.f.tls = "-", !.f.bucket = "b2"],
       [A(9, "5", "i1", "u", "REST.DELETE.OBJECT", "k1", "204") EXCEPT !.f.tls = "TLSV1", !.f.sig = "SigV2"],
       [A(10, "1", "i1", "v", "REST.GET.OBJECT", "k1", "-") EXCEPT !.n = 12, !.f.error = "AccessDenied"],
       [A(12, "3", "i1", "-", "REST.PUT.OBJECT", "k1", "200") EXCEPT !.f.bucket = "b2"]>>),
   Object("s4", "b2", "", <<[A(11, "2", "i1", "u", "REST.GET.OBJECT", "k1", "403") EXCEPT !.n = 9]>>)}
S3Options == {All, [All EXCEPT !.partitioned = TRUE, !.dirs = {"b2"}], Want("status", {"2xx", "403"}),
              Want("requester", {"anonymous"}), [All EXCEPT !.filter.errorsOnly = TRUE], [All EXCEPT !.filter.until = 4]}
-----------------------------------------------------------------------------
\* CloudTrail.
C(id, time, arn, name, readOnly) ==
  [id |-> id, time |-> time, arn |-> arn, invokedBy |-> "", userName |-> "", principalId |-> "p", source |-> "ec2.aws",
   name |-> name, readOnly |-> readOnly, account |-> "1", region |-> "eu", error |-> "", ip |-> "i1", resources |-> {"r"},
   params |-> "q"]
MCServiceOf == "ec2.aws" :> "ec2"
TrailObjects ==
  {Object("t1", "", "", <<C(1, 3, "u", "DescribeVpcs", ""), C(2, 1, "", "Stop", "")>>),
   Object("t2", "", "", <<[C(3, 2, "u", "Stop", "true") EXCEPT !.error = "Denied", !.resources = {}], C(4, 0, "v", "", "")>>),
   Object("t3", "", "", <<C(5, 2, "u", "Stop", "false")>>), Object("t4", "", "", <<>>), Broken("t5", "", ""), Other("digest", "")}
TrailOptions == {All, Want("principal", {"u"}), Want("resource", {"r"}), [All EXCEPT !.filter.errorsOnly = TRUE],
                 [All EXCEPT !.filter.writesOnly = TRUE, !.filter.until = 3]}
-----------------------------------------------------------------------------
\* VPC flows.
V(id, src, dst, srcport, dstport, bytes, start, action) ==
  [id |-> id, v |-> <<src, dst, srcport, dstport, "6", bytes, start, action, "OK">>]
Plain == <<"srcaddr", "dstaddr", "srcport", "dstport", "protocol", "bytes", "start", "action", "log-status">>
Custom == <<"tcp-flags", "new-field", "pkt-srcaddr">> \o Plain
With(flags, packet, r) == [r EXCEPT !.v = <<flags, "x", packet>> \o @]
File(key, dir, header, lines) == [Object(key, dir, "", lines) EXCEPT !.header = header]
VpcObjects ==
  {File("v1", "eu", Plain,
     <<V(1, "p1", "h1", "50000", "22", "-", "2", "ACCEPT"), V(2, "p1", "h2", "50000", "23", "-", "1", "REJECT"),
       V(3, "p1", "h2", "70000", "23", "1", "1", "REJECT"), [id |-> 4, v |-> <<"-">>]>>),
   File("v2", "eu", Custom,
     <<With("2", "p1", V(5, "h3", "h1", "50000", "22", "-", "3", "REJECT")),
       With("-", "-", [id |-> 6, v |-> <<"-", "-", "-", "-", "-", "-", "4", "-", "NODATA">>]),
       With("-", "-", V(7, "h1", "p2", "50000", "23", "7", "5", "ACCEPT"))>>),
   [File("v3", "eu", Plain, <<V(8, "p2", "::h2", "50000", "22", "-", "-", "ACCEPT")>>) EXCEPT !.broken = TRUE],
   File("v4", "eu", Plain,
     <<[V(9, "p2", "h1", "50000", "22", "-", "6", "ACCEPT") EXCEPT !.v[5] = "17"],
       V(10, "p2", "h1", "22", "23", "2", "6", "ACCEPT"), V(11, "h1", "h2", "50000", "22", "-", "2", "REJECT")>>),
   File("v5", "us", Tail(Plain), <<V(12, "p1", "h1", "50000", "22", "3", "2", "ACCEPT")>>),
   File("v6", "us", <<>>, <<>>), Other("v7", "us")}
In(region) == [All EXCEPT !.dirs = {region}]
VpcOptions == {In("eu"), In("us"), In("hive"), In("none"), [In("eu") EXCEPT !.filter.since = 2, !.filter.until = 6],
               [In("eu") EXCEPT !.filter.want = "src" :> {"h3", "p2"}]}
-----------------------------------------------------------------------------
MCObjects == [elb |-> ElbObjects, waf |-> WafObjects, s3 |-> S3Objects, trail |-> TrailObjects, vpc |-> VpcObjects]
MCOptions == [elb |-> ElbOptions, waf |-> WafOptions, s3 |-> S3Options, trail |-> TrailOptions, vpc |-> VpcOptions]
Texts == <<"", "anonymous", "b1", "b2", "c1", "c2", "h1", "h1:22/tcp", "h1:22/udp", "h2", "h2:22/tcp", "i1", "i2", "i3", "p1", "p2", "r1", "s3-access-denied-burst", "s3-large-egress",
           "s3-mass-delete", "s3-plain-http", "s3-sigv2", "s3-weak-tls", "s3-access-change", "s3-anonymous-read",
           "s3-anonymous-write", "SQLi/q", "mine/y", "u", "v", "vpc-host-sweep", "vpc-large-egress", "vpc-legacy-protocol", "vpc-port-scan",
           "vpc-sensitive-port-exposed", "waf-attacker-allowed", "waf-challenge-failures",
           "waf-count-rule", "waf-exploit-allowed", "waf-oversize", "waf-persistent-blocked-ip", "waf-rate-limited", "y">>
MCTextRank == [t \in Range(Texts) |-> CHOOSE i \in DOMAIN Texts : Texts[i] = t]
=============================================================================
