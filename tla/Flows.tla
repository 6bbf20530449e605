------------------------------- MODULE Flows --------------------------------
(***************************************************************************)
(* The VPC flow log run: what each fetch worker adds up in bounded memory, *)
(* how the shards are merged, and what the rules make of the result        *)
(* (internal/engine/vpc.go, internal/stats/{bounded,vpc}.go,               *)
(* internal/vpcrules/rules.go).                                            *)
(*                                                                         *)
(* One capped counter of each use stands for all of its kind: flows per    *)
(* source, and the bytes per private host that a rule reads. One distinct  *)
(* tracker stands for both: ports per public prober. Plain sums and the    *)
(* first and last time are left out. All flows are TCP.                    *)
(* A flow opens if its source looks like the side that started it          *)
(* (initiator), a rejected one if it may be a connection attempt           *)
(* (connAttempt).                                                          *)
(***************************************************************************)
EXTENDS Integers, FiniteSetsExt

CONSTANTS Flow,        \* records [src, dst, port, action, opens, start, bytes]
          Public, Private,        \* addresses
          Sensitive,              \* VPCSensitivePorts
          Workers, MaxEvents,     \* VPCOptions
          MaxKeys, MaxSources,    \* VPCLimits
          ScanPorts,      \* vpcrules.Options
          MaxFlows     \* bound: flows in the scan

FlowType == [src : Public \cup Private, dst : Public \cup Private, port : Nat,
             action : {"ACCEPT", "REJECT"}, opens : BOOLEAN, start : Nat, bytes : Nat]

ASSUME FlowsAssumption ==
  /\ Flow \subseteq FlowType /\ IsFiniteSet(Flow)
  /\ Public \cap Private = {} /\ IsFiniteSet(Public \cup Private)
  /\ "(other)" \notin Public \cup Private   \* netip.ParseAddr accepts no such address
  /\ {Workers, MaxEvents, MaxKeys, MaxSources, ScanPorts} \subseteq Nat \ {0}
  /\ MaxFlows \in Nat

VARIABLES
  summary,  \* summary[w]: the summary of worker w
  matches,  \* matches[w]: the flows it keeps for the flow table
  mine,     \* history: mine[w], the flows it visited
  next,     \* the shard to be merged next; 0 while the scan runs
  merged,   \* the merged summary
  rest,     \* what of the shard in hand is still to be merged
  table     \* Result.Matches

shardVars == <<summary, matches, mine>>
mergeVars == <<next, merged, rest, table>>
vars == <<shardVars, mergeVars>>

Worker == 1 .. Workers
Addr == Public \cup Private
OtherKey == "(other)"
Key == Addr \cup {OtherKey}
Port == {f.port : f \in Flow}
Service == {<<f.dst, f.port>> : f \in {g \in Flow : g.port \in Sensitive}}
Visited == UNION {mine[w] : w \in Worker}
Scanning == next = 0

Sum(f, S) == MapThenSumSet(LAMBDA x : f[x], S)
-----------------------------------------------------------------------------
\* A capped counter maps keys to counts; a key that is absent counts 0. (A
\* wrong variant: what does not fit is forgotten.)
Len(c) == Cardinality({k \in Key : c[k] > 0})

addCappedForgets(c, k, n) == IF c[k] > 0 \/ Len(c) < MaxKeys THEN [c EXCEPT ![k] = @ + n] ELSE c
addCapped(c, k, n) == IF n = 0 THEN c
                      ELSE IF c[k] > 0 \/ Len(c) < MaxKeys THEN [c EXCEPT ![k] = @ + n]
                      ELSE [c EXCEPT ![OtherKey] = @ + n]

\* The limit of a tracker is the threshold of the rule that reads it.
Limit == ScanPorts

\* A distinct tracker: a source without values is not tracked. (A wrong variant:
\* the bound is looked at before the source.)
Sources(d) == Cardinality({s \in Addr : d.sets[s] # {}})

AddBoundFirst(d, s, v) == IF Sources(d) >= MaxSources THEN [d EXCEPT !.truncated = TRUE]
                          ELSE IF Cardinality(d.sets[s]) < Limit THEN [d EXCEPT !.sets[s] = @ \cup {v}]
                          ELSE d
Add(d, s, v) == IF d.sets[s] = {} /\ Sources(d) >= MaxSources THEN [d EXCEPT !.truncated = TRUE]
                ELSE IF Cardinality(d.sets[s]) < Limit THEN [d EXCEPT !.sets[s] = @ \cup {v}]
                ELSE d

\* An exposed service is its number of flows. (A wrong variant: one too many
\* fits.)
KnownOneMore(s, k) == s.exposed[k] > 0 \/ Cardinality({x \in Service : s.exposed[x] > 0}) <= MaxKeys
Known(s, k) == s.exposed[k] > 0 \/ Cardinality({x \in Service : s.exposed[x] > 0}) < MaxKeys

expose(s, k, n) == IF Known(s, k) THEN [s EXCEPT !.exposed[k] = @ + n]
                   ELSE [s EXCEPT !.exposedDropped = @ + n]

NewSummary == [bySrc |-> [k \in Key |-> 0], egress |-> [k \in Key |-> 0],
               ports |-> [sets |-> [s \in Addr |-> {}], truncated |-> FALSE],
               exposed |-> [k \in Service |-> 0], exposedDropped |-> 0]

\* What a flow is counted as.
Probe(f) == f.action = "REJECT" /\ f.opens /\ f.src \in Public
Exposure(f) == /\ f.action = "ACCEPT" /\ f.opens
               /\ f.src \in Public /\ f.dst \in Private /\ f.port \in Sensitive
Egress(f) == f.action = "ACCEPT" /\ f.opens /\ f.src \in Private /\ f.dst \in Public

\* VPCSummary.Add.
addFlow(s, f) ==
  LET a == [s EXCEPT !.bySrc = addCapped(@, f.src, 1),
                     !.ports = IF Probe(f) THEN Add(@, f.src, f.port) ELSE @,
                     !.egress = IF Egress(f) THEN addCapped(@, f.src, f.bytes) ELSE @]
  IN  IF Exposure(f) THEN expose(a, <<f.dst, f.port>>, 1) ELSE a

\* earliestVPC: at most n flows, none later than one left out. Flows that start
\* together stay in the order they came in, which may be any. (A wrong variant:
\* the order is not looked at.)
anyVPC(S, n) == {T \in SUBSET S : Cardinality(T) = Min({n, Cardinality(S)})}
earliestVPC(S, n) == {T \in SUBSET S : /\ Cardinality(T) = Min({n, Cardinality(S)})
                                       /\ \A x \in T, y \in S \ T : x.start <= y.start}
-----------------------------------------------------------------------------
NothingLeft == [bySrc |-> {}, egress |-> {}, exposed |-> {}, ports |-> {}]

Init == /\ summary = [w \in Worker |-> NewSummary]
        /\ matches = [w \in Worker |-> {}] /\ mine = [w \in Worker |-> {}]
        /\ next = 0 /\ merged = NewSummary /\ rest = NothingLeft /\ table = {}

\* visit: a flow that passes the filter. The flow table is trimmed at twice its
\* size.
Visit(w, f) ==
  /\ Scanning /\ f \in Flow \ Visited
  /\ mine' = [mine EXCEPT ![w] = @ \cup {f}]
  /\ summary' = [summary EXCEPT ![w] = addFlow(@, f)]
  /\ LET m == matches[w] \cup {f}
     IN  IF Cardinality(m) >= 2 * MaxEvents
         THEN \E T \in earliestVPC(m, MaxEvents) : matches' = [matches EXCEPT ![w] = T]
         ELSE matches' = [matches EXCEPT ![w] = m]
  /\ UNCHANGED mergeVars

\* The scan returns.
EndScan == /\ Scanning
           /\ next' = 1
           /\ UNCHANGED <<shardVars, merged, rest, table>>

\* The next shard is folded in: its plain parts at once, its maps key by key,
\* each in any order.
Keys(c) == {k \in DOMAIN c : c[k] > 0}

MergeShard ==
  /\ next \in Worker /\ rest = NothingLeft
  /\ next' = next + 1
  /\ LET o == summary[next] IN
       /\ merged' = [merged EXCEPT !.exposedDropped = @ + o.exposedDropped,
                                   !.ports.truncated = @ \/ o.ports.truncated]
       /\ rest' = [bySrc |-> Keys(o.bySrc), egress |-> Keys(o.egress), exposed |-> Keys(o.exposed),
                   ports |-> UNION {{s} \X o.ports.sets[s] : s \in Addr}]
  /\ table' = table \cup matches[next]
  /\ UNCHANGED shardVars

\* The shard in hand.
InHand == summary[next - 1]

MergeSrc(k) == /\ k \in rest.bySrc
               /\ merged' = [merged EXCEPT !.bySrc = addCapped(@, k, InHand.bySrc[k])]
               /\ rest' = [rest EXCEPT !.bySrc = @ \ {k}]
               /\ UNCHANGED <<shardVars, next, table>>

MergeEgress(k) == /\ rest.bySrc = {} /\ k \in rest.egress
                  /\ merged' = [merged EXCEPT !.egress = addCapped(@, k, InHand.egress[k])]
                  /\ rest' = [rest EXCEPT !.egress = @ \ {k}]
                  /\ UNCHANGED <<shardVars, next, table>>

MergeExposed(k) == /\ rest.bySrc = {} /\ rest.egress = {} /\ k \in rest.exposed
                   /\ merged' = expose(merged, k, InHand.exposed[k])
                   /\ rest' = [rest EXCEPT !.exposed = @ \ {k}]
                   /\ UNCHANGED <<shardVars, next, table>>

MergePort(s, v) == /\ rest.bySrc = {} /\ rest.egress = {} /\ rest.exposed = {}
                   /\ <<s, v>> \in rest.ports
                   /\ merged' = [merged EXCEPT !.ports = Add(@, s, v)]
                   /\ rest' = [rest EXCEPT !.ports = @ \ {<<s, v>>}]
                   /\ UNCHANGED <<shardVars, next, table>>

\* All shards are merged: the flow table is cut to its size.
Cut == /\ next = Workers + 1 /\ rest = NothingLeft
       /\ next' = Workers + 2
       /\ table' \in earliestVPC(table, MaxEvents)
       /\ UNCHANGED <<shardVars, merged, rest>>

Done == next = Workers + 2
Stop == Done /\ UNCHANGED vars

Next == \/ \E w \in Worker, f \in Flow : Cardinality(Visited) < MaxFlows /\ Visit(w, f)
        \/ EndScan \/ MergeShard
        \/ \E k \in Key : MergeSrc(k) \/ MergeEgress(k)
        \/ \E k \in Service : MergeExposed(k)
        \/ \E s \in Addr, v \in Port : MergePort(s, v)
        \/ Cut \/ Stop

Spec == Init /\ [][Next]_vars
-----------------------------------------------------------------------------
\* Detect, on the merged summary: the actors of its rules.
PortScans(s) == {a \in Addr : Cardinality(s.ports.sets[a]) >= ScanPorts}
-----------------------------------------------------------------------------
Counter == [Key -> Nat]
Summary == [bySrc : Counter, egress : Counter,
            ports : [sets : [Addr -> SUBSET Port], truncated : BOOLEAN],
            exposed : [Service -> Nat], exposedDropped : Nat]

\* With the bounds of memory: keys plus OtherKey, sources, values, services.
Bounded(s) == /\ \A c \in {s.bySrc, s.egress} : Cardinality(Keys(c) \ {OtherKey}) <= MaxKeys
              /\ Sources(s.ports) <= MaxSources
              /\ \A a \in Addr : Cardinality(s.ports.sets[a]) <= ScanPorts
              /\ Cardinality(Keys(s.exposed)) <= MaxKeys

TypeOK == /\ summary \in [Worker -> Summary] /\ merged \in Summary
          /\ matches \in [Worker -> SUBSET Flow] /\ mine \in [Worker -> SUBSET Flow]
          /\ table \in SUBSET Flow /\ next \in 0 .. Workers + 2
          /\ rest \in [bySrc : SUBSET Key, egress : SUBSET Key, exposed : SUBSET Service,
                       ports : SUBSET (Addr \X Port)]
          /\ \A s \in {summary[w] : w \in Worker} \cup {merged} : Bounded(s)
          /\ \A w \in Worker : Cardinality(matches[w]) < 2 * MaxEvents

\* What the flows of S really amount to.
SrcFlows(S) == [a \in Addr |-> Cardinality({f \in S : f.src = a})]
SentBytes(S) == [a \in Addr |-> Sum([f \in Flow |-> f.bytes], {f \in S : Egress(f) /\ f.src = a})]
ProbedPorts(S, a) == {f.port : f \in {g \in S : Probe(g) /\ g.src = a}}
ExposedFlows(S) == [k \in Service |-> Cardinality({f \in S : Exposure(f) /\ <<f.dst, f.port>> = k})]

\* A counter of what it should count: its total is exact, whatever did not fit, and
\* no named key has more than it should.
CountsFor(c, truth) == /\ Sum(c, Key) = Sum(truth, Addr)
                       /\ \A a \in Addr : c[a] <= truth[a]

\* No flow to an exposed service is lost: it is in the service or in the number
\* dropped, and without drops each service is exact.
ServicesFor(s, truth) == /\ Sum(s.exposed, Service) + s.exposedDropped = Sum(truth, Service)
                         /\ s.exposedDropped = 0 => s.exposed = truth

\* Totals stay exact while memory stays bounded, in the shards and in the result.
TotalsExact == \A x \in {<<summary[w], mine[w]>> : w \in Worker}
                         \cup (IF Done THEN {<<merged, Visited>>} ELSE {}) :
                 /\ CountsFor(x[1].bySrc, SrcFlows(x[2]))
                 /\ CountsFor(x[1].egress, SentBytes(x[2]))
                 /\ ServicesFor(x[1], ExposedFlows(x[2]))

\* The note "findings may be incomplete" is given only when there were more
\* sources or services than fit.
NoteJustified == /\ merged.ports.truncated =>
                      Cardinality({f.src : f \in {g \in Visited : Probe(g)}}) > MaxSources
                 /\ merged.exposedDropped > 0 =>
                      Cardinality({k \in Service : ExposedFlows(Visited)[k] > 0}) > MaxKeys

\* A set capped at the threshold answers the threshold question exactly, and so
\* does the union of such sets: unless a source was dropped, the port scanners
\* found are the real ones, and they are never others. The note that findings may be
\* incomplete is given only when there were more sources or services than fit.
PortScansExact == Done => LET real == {a \in Addr : Cardinality(ProbedPorts(Visited, a)) >= ScanPorts}
                          IN  /\ PortScans(merged) \subseteq real
                              /\ ~merged.ports.truncated => PortScans(merged) = real
                              /\ NoteJustified

\* The flow table holds the earliest flows of all, however they were spread over
\* the workers and however often a worker trimmed its own.
EarliestKept == Done => /\ table \subseteq Visited
                        /\ Cardinality(table) = Min({MaxEvents, Cardinality(Visited)})
                        /\ \A x \in table, y \in Visited \ table : x.start <= y.start
=============================================================================
