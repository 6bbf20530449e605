------------------------------- MODULE Typed --------------------------------
(***************************************************************************)
(* A run over one type of log: engine.Run (CloudTrail), RunELB, RunWAF,    *)
(* RunS3 and RunVPC. The prefixes are built, by a listing of the web ACLs  *)
(* or source buckets where the keys name them before the date; the fetch   *)
(* workers decode the objects and fold what the filter lets through into   *)
(* shards of their own; the shards are merged in order, and the rules run  *)
(* once over the result.                                                   *)
(*                                                                         *)
(* Scan is what happens between workers, listings and failures: here a     *)
(* worker takes an object in one step, since shards share nothing.         *)
(* An object is [key, dir, fmt, lb, isLog, broken, header, lines]: dir the *)
(* ACL, bucket or region it is filed under, fmt its format ("" if its key  *)
(* names none), header the column names of a flow log file (<<>> of an     *)
(* empty one), broken an object that cannot be got or unpacked: nothing of *)
(* it is decoded, but what streaming took before the error is lines. A     *)
(* Parquet object is refused as one with a bad header is.                  *)
(***************************************************************************)
EXTENDS ElbLog, WafLog, S3Log, TrailLog, VpcLog

CONSTANTS Workers, MaxEvents,      \* of every run
          Objects,                 \* Objects[log]: what the store holds in the window
          Options,                 \* Options[log]: options of a run: [filter, kinds, lbs, dirs, partitioned]
          BlockThreshold, DeniedThreshold, DeleteThreshold, EgressBytes, \* of the rules
          MaxFindings,             \* the cap of the findings
          MaxErrs,                 \* maxRecordedErrors: the cap of the errors a worker records
          HiveDirs,                \* the regions with objects under a Hive prefix
          TextRank                 \* TextRank[text]: the order of texts

\* The flags and withDefaults of each rule set see to it that bounds and thresholds are positive.
ASSUME TypedAssumption ==
  /\ {Workers, MaxEvents, MaxFindings, MaxErrs} \subseteq Nat \ {0}
  /\ {BlockThreshold, DeniedThreshold, DeleteThreshold, EgressBytes} \subseteq Nat \ {0}
  /\ DOMAIN Objects = {"elb", "waf", "s3", "trail", "vpc"} /\ DOMAIN Options = DOMAIN Objects
  /\ \A t \in DOMAIN Objects :
       /\ IsFiniteSet(Objects[t])
       /\ \A o \in Objects[t] : o.lines \in Seq(ToSet(o.lines))
       /\ \A o, p \in Objects[t] : o.key = p.key => o = p       \* S3 holds one object under a key
       /\ \A o, p \in Objects[t] : \A i \in DOMAIN o.lines, j \in DOMAIN p.lines :
            o.lines[i].id = p.lines[j].id => o = p /\ i = j      \* id is the place of a line

\* What the services write: no line is stamped with the zero time (of a CloudTrail record
\* and of a flow the time may be missing), flows have no negative size, and what is listed
\* in a web ACL record are sequences.
IsSequence(s) == s \in Seq(ToSet(s))
LinesOfLog(t) == UNION {{o.lines[i] : i \in DOMAIN o.lines} : o \in Objects[t]}
ASSUME LogsAssumption ==
  /\ \A t \in DOMAIN Number : Number[t] \in Int
  /\ \A o \in Objects.elb : o.fmt # "" => \A i \in DOMAIN o.lines :
       elbParses(o.fmt, o.lines[i]) => EntryOf(o.fmt, o.lines[i]).time \in Nat \ {0}
  /\ \A l \in LinesOfLog("waf") :
       /\ l.time \in Nat /\ IsSequence(l.labels) /\ IsSequence(l.matched) /\ IsSequence(l.groups)
       /\ \A i \in DOMAIN l.groups : IsSequence(l.groups[i].matched) /\ IsSequence(l.groups[i].excluded)
  /\ \A l \in LinesOfLog("s3") : s3Parses(l) => Number[Raw(l, "time")] \in Nat \ {0}
  /\ \A l \in LinesOfLog("trail") : l.time \in Nat
  /\ \A o \in Objects.vpc : \A i \in DOMAIN o.lines :
       headerParses(o.header) /\ vpcParses(o.header, o.lines[i]) =>
         vpcEntry(o.header, o.lines[i]).time \in Nat /\ vpcEntry(o.header, o.lines[i]).bytes \in Nat

VARIABLES
  log, opts,   \* the type of the run, and its options
  phase,       \* "start", "scan", "merge", "done", or "failed": the run returned an error
  todo,        \* the objects the listing sends to the workers
  shard,       \* shard[w]: for each kind of summary, what worker w added up
  read,        \* read[w]: the keys whose records it read
  records,     \* records[w]: how many records those were
  errs,        \* errs[w]: the objects it reported an error for, at most MaxErrs
  next,        \* the shard to be merged next
  result       \* the result, as far as it is merged

vars == <<log, opts, phase, todo, shard, read, records, errs, next, result>>
Worker == 1 .. Workers
AllRead == UNION {read[w] : w \in Worker}
-----------------------------------------------------------------------------
\* The log types. The run of load balancer logs keeps connections apart.
Kinds == IF log = "elb" THEN {"elb", "conn"} ELSE {log}
kindOf(e) == IF log = "elb" /\ e.conn THEN "conn" ELSE log

Parses(o, l) == CASE log = "elb" -> elbParses(o.fmt, l) [] log = "waf" -> wafParses(l)
                  [] log = "s3" -> s3Parses(l) [] log = "trail" -> TRUE
                  [] log = "vpc" -> headerParses(o.header) /\ vpcParses(o.header, l)
Entry(o, l) == CASE log = "elb" -> EntryOf(o.fmt, l) [] log = "waf" -> wafEntry(l)
                 [] log = "s3" -> s3Entry(l) [] log = "trail" -> l [] log = "vpc" -> vpcEntry(o.header, l)
Match(e) == LET f == opts.filter IN
            CASE kindOf(e) = "elb" -> elbMatches(f, e) [] kindOf(e) = "conn" -> connMatches(f, e)
              [] kindOf(e) = "waf" -> wafMatches(f, e) [] kindOf(e) = "s3" -> s3Matches(f, e)
              [] kindOf(e) = "trail" -> trailMatches(f, e) [] kindOf(e) = "vpc" -> IsFlow(e) /\ vpcMatches(f, e)
Empty(k) == CASE k = "elb" -> NewELBSummary [] k = "conn" -> NewConnSummary [] k = "waf" -> NewWAFSummary
              [] k = "s3" -> NewS3Summary [] k = "trail" -> NewSummary [] k = "vpc" -> NewVPCSummary
AddTo(k, s, e) == CASE k = "elb" -> elbAdd(s, e) [] k = "conn" -> connAdd(s, e) [] k = "waf" -> wafAdd(s, e)
                    [] k = "s3" -> s3Add(s, e) [] k = "trail" -> trailAdd(s, e) [] k = "vpc" -> vpcAdd(s, e)
Merged(k, s, o) == CASE k = "elb" -> {elbMerge(s, o)} [] k = "conn" -> {connMerge(s, o)} [] k = "waf" -> {wafMerge(s, o)}
                     [] k = "s3" -> s3Merge(s, o) [] k = "trail" -> {trailMerge(s, o)} [] k = "vpc" -> vpcMerge(s, o)

\* Which listed keys a run fetches.
Wants(set, x) == set = {} \/ x \in set
elbKeep(o) == o.isLog /\ o.fmt # "" /\ Wants(opts.lbs, o.lb)
              /\ Wants(opts.kinds, IF o.fmt = "conn" THEN "alb" ELSE o.fmt)
Keep(o) == IF log = "elb" THEN elbKeep(o) ELSE o.isLog

\* The directories of WAFPrefixes and S3PartitionedPrefixes that are kept; the regions
\* of flow logs are given.
Discovers == log = "waf" \/ (log = "s3" /\ opts.partitioned)
KeptDirs == {d \in {o.dir : o \in Objects[log]} : Wants(opts.dirs, d)}
InScope(o) == Discovers \/ log = "vpc" => o.dir \in KeptDirs
InRun == {o \in Objects[log] : InScope(o) /\ Keep(o)}
-----------------------------------------------------------------------------
NoPart(k) == [summary |-> Empty(k), matches |-> <<>>, matched |-> 0, connsRead |-> 0]

Init == /\ log \in DOMAIN Objects /\ opts \in Options[log]
        /\ phase = "start" /\ todo = {} /\ next = 1
        /\ shard = [w \in Worker |-> [k \in Kinds |-> NoPart(k)]]
        /\ read = [w \in Worker |-> {}] /\ records = [w \in Worker |-> 0] /\ errs = [w \in Worker |-> {}]
        /\ result = [parts |-> [k \in Kinds |-> NoPart(k)], records |-> 0, found |-> {}, dropped |-> 0]

Unscanned == UNCHANGED <<log, opts, shard, read, records, errs, next, result>>

\* The prefixes are built and the scan starts; without a prefix the run is over.
Start == /\ phase = "start"
         /\ phase' = IF Discovers /\ KeptDirs = {} THEN "done" ELSE "scan"
         /\ todo' = InRun
         /\ Unscanned

\* A discovery listing fails, or the context ends before the scan does.
DiscoveryFails == phase = "start" /\ Discovers /\ phase' = "failed" /\ UNCHANGED todo /\ Unscanned
Cancelled == phase \in {"start", "scan"} /\ phase' = "failed" /\ UNCHANGED todo /\ Unscanned

\* Decode and Stream: the lines an entry is made of, and whether the object counts as
\* read. (A wrong variant: the first bad line ends the object.)
Good(o) == {i \in DOMAIN o.lines : Parses(o, o.lines[i])}
streams == log = "vpc"
badHeader(o) == streams /\ o.header # <<>> /\ ~headerParses(o.header)
decodeToBad(o) == IF o.broken /\ ~streams THEN {} ELSE {i \in Good(o) : 1..i \subseteq Good(o)}
decode(o) == IF o.broken /\ ~streams THEN {} ELSE Good(o)
failure(o) == o.broken \/ badHeader(o) \/ Good(o) # DOMAIN o.lines
complete(o) == IF streams THEN ~o.broken /\ ~badHeader(o) ELSE ~failure(o) \/ decode(o) # {}

\* The rows kept for the table: of CloudTrail records the first that come, of
\* requests the earliest, trimmed at twice the cap. (A wrong variant: trimmed
\* without the order.)
rowsUnordered(k, kept, e) == IF Len(kept) < MaxEvents THEN Append(kept, e) ELSE kept
rows(k, kept, e) ==
  IF k = "trail" THEN IF Len(kept) < MaxEvents THEN Append(kept, e) ELSE kept
  ELSE LET m == Append(kept, e) IN IF Len(m) >= 2 * MaxEvents THEN earliest(m, MaxEvents) ELSE m

\* visit: one entry. A status row of a flow log is counted, and is no flow.
visit(sh, e) ==
  LET k == kindOf(e)  p == sh[k]  counted == [p EXCEPT !.connsRead = @ + One(k = "conn")] IN
  [sh EXCEPT ![k] =
     IF k = "vpc" /\ ~IsFlow(e) THEN IF InTime(opts.filter, e) THEN [p EXCEPT !.summary = AddStatus(@, e)] ELSE p
     ELSE IF ~Match(e) THEN counted
     ELSE [counted EXCEPT !.matched = @ + 1, !.summary = AddTo(k, @, e), !.matches = rows(k, @, e)]]

\* The entries of an object, in the order of its lines.
visitAll(sh, o) ==
  LET upTo[n \in 0..Len(o.lines)] ==
        IF n = 0 THEN sh
        ELSE IF n \in decode(o) THEN visit(upTo[n - 1], Entry(o, o.lines[n])) ELSE upTo[n - 1]
  IN  upTo[Len(o.lines)]

\* A worker takes the next key. An error past the cap is dropped.
Fetch(w, o) ==
  /\ phase = "scan" /\ o \in todo
  /\ todo' = todo \ {o}
  /\ errs' = IF failure(o) /\ Cardinality(errs[w]) < MaxErrs
             THEN [errs EXCEPT ![w] = @ \cup {o.key}] ELSE errs
  /\ shard' = [shard EXCEPT ![w] = visitAll(@, o)]
  /\ read' = IF complete(o) THEN [read EXCEPT ![w] = @ \cup {o.key}] ELSE read
  /\ records' = [records EXCEPT ![w] = @ + Cardinality(decode(o))]
  /\ UNCHANGED <<log, opts, phase, next, result>>

ScanReturns == /\ phase = "scan" /\ todo = {} /\ phase' = "merge"
               /\ UNCHANGED todo /\ Unscanned

\* The next shard is merged, and what its worker read is added (the end of scan, whose
\* loop over the shards comes first). CloudTrail rows are appended up to the cap, others
\* are cut when all are in.
MergeShard ==
  /\ phase = "merge" /\ next \in Worker
  /\ next' = next + 1
  /\ \E s \in EveryPick([k \in Kinds |-> Merged(k, result.parts[k].summary, shard[next][k].summary)]) :
       result' = [result EXCEPT !.records = @ + records[next], !.parts = [k \in Kinds |->
         LET p == @[k]  q == shard[next][k]  all == p.matches \o q.matches IN
         [summary |-> s[k], matched |-> p.matched + q.matched, connsRead |-> p.connsRead + q.connsRead,
          matches |-> IF k = "trail" THEN SubSeq(all, 1, Min({Len(all), MaxEvents})) ELSE all]]]
  /\ UNCHANGED <<log, opts, phase, todo, shard, read, records, errs>>

\* The rules over the merged summary.
Hits == CASE log = "waf" -> wafHits(result.parts.waf.summary, BlockThreshold)
          [] log = "s3" -> s3Hits(result.parts.s3.summary, DeniedThreshold, DeleteThreshold, EgressBytes)
          [] log = "vpc" -> vpcHits(result.parts.vpc.summary, EgressBytes)
          [] OTHER -> {}

\* All shards are merged. Of a flow log scope that held no object at all the Hive prefixes
\* are probed: a listing fails, or what it finds is the error. Otherwise the tables are
\* sorted and cut, and the rules run.
Probes == log = "vpc" /\ InRun = {}
HiveFound == \E d \in HiveDirs : Wants(opts.dirs, d)
ProbeFails == /\ phase = "merge" /\ next = Workers + 1 /\ Probes
              /\ phase' = "failed" /\ UNCHANGED todo /\ Unscanned
Finish ==
  /\ phase = "merge" /\ next = Workers + 1 /\ ~(Probes /\ HiveFound)
  /\ phase' = "done"
  /\ \E f \in capped(Hits, MaxFindings, TextRank) :
       result' = [parts |-> [k \in Kinds |-> [result.parts[k] EXCEPT !.matches = earliest(@, MaxEvents)]],
                  records |-> result.records, found |-> f.found, dropped |-> f.dropped]
  /\ UNCHANGED <<log, opts, todo, shard, read, records, errs, next>>

Stop == phase \in {"done", "failed"} /\ UNCHANGED vars

Next == \/ Start \/ DiscoveryFails \/ Cancelled
        \/ \E w \in Worker, o \in todo : Fetch(w, o)
        \/ ScanReturns \/ MergeShard \/ ProbeFails \/ Finish \/ Stop

Spec == Init /\ [][Next]_vars

\* RecordsRead: connections are not requests.
RecordsRead == result.records - (IF log = "elb" THEN result.parts.conn.connsRead ELSE 0)
-----------------------------------------------------------------------------
Done == phase = "done"
EntriesOf(O) == UNION {{Entry(o, o.lines[i]) : i \in {j \in DOMAIN o.lines : Parses(o, o.lines[j])}} : o \in O}
Read == EntriesOf({o \in InRun : streams \/ o.key \in AllRead})
Of(k) == {e \in Read : kindOf(e) = k /\ Match(e)}
StatusRows == {e \in Read : streams /\ ~IsFlow(e) /\ InTime(opts.filter, e)}

\* A bad line costs nothing but itself: of every object in scope that can be unpacked
\* all good lines are read. An object that is bad or has a bad line is told of, unless the
\* worker that took it had recorded all the errors it may (where nobody read the object: some
\* worker had); a run with such an object has an error all the same, and no other object
\* is told of. No object is taken for read of which nothing was or the end is missing, connections
\* are not counted as requests, and where only Hive prefixes hold flow logs the run is
\* not a clean one.
LinesAccounted ==
  Done =>
    /\ Read = EntriesOf({o \in InRun : streams \/ ~o.broken})
    /\ RecordsRead + (IF log = "elb" THEN Cardinality({e \in Read : e.conn}) ELSE 0) = Cardinality(Read)
    /\ LET bad(o) == o.broken \/ badHeader(o) \/ \E i \in DOMAIN o.lines : ~Parses(o, o.lines[i])
           told(o) == o.key \in UNION {errs[w] : w \in Worker}
           full(w) == Cardinality(errs[w]) = MaxErrs
       IN  /\ \A o \in InRun :
                /\ told(o) => bad(o)
                /\ bad(o) => told(o) \/ \E w \in Worker : full(w) /\ (o.key \in AllRead => o.key \in read[w])
                /\ o.key \in AllRead \/ bad(o)
                /\ o.broken \/ badHeader(o) => o.key \notin AllRead
           /\ (\E o \in InRun : bad(o)) => \E w \in Worker : errs[w] # {}
    /\ log = "vpc" => InRun # {} \/ opts.dirs \cap HiveDirs = {}

\* However the objects were spread over the workers, the merged summary is that of the
\* entries that were read and match, and the table holds as many of them as fit: the
\* earliest, but for CloudTrail.
TableOf(k, table) ==
  LET ids == {table[i].id : i \in DOMAIN table} IN
  /\ Len(table) = Min({MaxEvents, Cardinality(Of(k))}) /\ Cardinality(ids) = Len(table)
  /\ ids \subseteq {e.id : e \in Of(k)}
  /\ \A i \in DOMAIN table : \A j \in 1..i : table[j].time <= table[i].time
  /\ k = "trail" \/ \A i \in DOMAIN table : \A e \in Of(k) : e.time < table[i].time => e.id \in ids
ResultIsWhole ==
  Done => \A k \in Kinds :
    LET p == result.parts[k] IN
    /\ p.matched = Cardinality(Of(k)) /\ TableOf(k, p.matches)
    /\ CASE k = "elb" -> ElbIsOf(p.summary, Of(k)) [] k = "conn" -> ConnIsOf(p.summary, Of(k))
         [] k = "waf" -> WafIsOf(p.summary, Of(k)) [] k = "s3" -> S3IsOf(p.summary, Of(k))
         [] k = "trail" -> TrailIsOf(p.summary, Of(k)) [] k = "vpc" -> VpcIsOf(p.summary, Of(k), StatusRows)

\* The findings are those of the entries: the cap drops none that is CRITICAL, none while
\* a lesser one is kept, and tells how many; what --fail-on looks at is the worst of all. A
\* counter that folded its keys may hide a finding, but makes none up.
FindingsExact ==
  Done => LET kept == result.found IN
    /\ log = "waf" => \E all \in {WafHitsOf(Of("waf"), BlockThreshold)} :
         kept \subseteq all /\ result.dropped = Cardinality(all \ kept)
    /\ log = "s3" => S3HitsAre(Hits, result.parts.s3.summary, Of("s3"), DeniedThreshold, DeleteThreshold, EgressBytes)
    /\ log = "vpc" => VpcHitsAre(Hits, result.parts.vpc.summary, Of("vpc"), EgressBytes)
    /\ kept \subseteq Hits /\ result.dropped = Cardinality(Hits \ kept)
    /\ \A h \in Hits \ kept : h.severity < CRITICAL /\ \A g \in kept : g.severity >= h.severity
    /\ Cardinality({h \in kept : h.severity < CRITICAL}) <= MaxFindings
    /\ MaxSeverity(kept) = MaxSeverity(Hits)
=============================================================================
