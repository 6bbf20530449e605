------------------------------ MODULE Findings ------------------------------
(***************************************************************************)
(* What the fetch workers of a CloudTrail scan accumulate and how it is    *)
(* merged (internal/engine/engine.go), with the findings detector          *)
(* (internal/findings/rules.go): it counts every rule hit, keeps the most  *)
(* severe ones up to a cap, and caches the lowest severity it keeps.       *)
(*                                                                         *)
(* A detector decides by severity alone, so a finding is its severity and  *)
(* a set of findings is a bag, a function from severities to numbers. The  *)
(* index that is cached next to the lowest severity is never read and left *)
(* out. The shards are private: one action is one record or one hit.       *)
(***************************************************************************)
EXTENDS Integers

CONSTANTS Workers,      \* number of fetch workers; they are 1 .. Workers
          Max,          \* Detector.Max (Options.FindingsCap), 0 for the default
          MaxEvents,    \* Options.MaxEvents
          MaxVisits,    \* bound: matching records in the scan
          MaxHits       \* bound: rule hits in the scan

ASSUME FindingsAssumption == {Workers, MaxEvents} \subseteq Nat \ {0}
                             /\ {Max, MaxVisits, MaxHits} \subseteq Nat

VARIABLES
  det,      \* det[w]: the detector of worker w
  visited,  \* visited[w]: its matchedRecords
  kept,     \* kept[w]: length of its matches
  next,     \* the shard to be merged next; 0 while the scan runs
  merged,   \* the merged detector
  rest,     \* findings of the shard in hand that are not merged yet
  matched,  \* Result.MatchedRecords
  events,   \* length of Result.Matches
  tally     \* history: all hits

shardVars == <<det, visited, kept>>
resultVars == <<next, merged, rest, matched, events>>
detectorVars == <<shardVars, resultVars, tally>>

Worker == 1 .. Workers
Severity == 0 .. 3
SevLow == 0
Bag == [Severity -> Nat]
Nothing == [s \in Severity |-> 0]

\* The findings of b that are at least as severe as s.
AtLeast(b, s) == LET From(x) == IF x >= s THEN b[x] ELSE 0
                 IN  From(0) + From(1) + From(2) + From(3)
Size(b) == AtLeast(b, SevLow)
AddTo(b, s) == [b EXCEPT ![s] = @ + 1]
Minus(b, s) == [b EXCEPT ![s] = @ - 1]
Least(m, n) == IF m < n THEN m ELSE n
Scanning == next = 0
Done == next = Workers + 1 /\ rest = Nothing
-----------------------------------------------------------------------------
NewDetector == [found |-> Nothing, dropped |-> 0, maxSeverity |-> SevLow, seen |-> FALSE,
                counts |-> Nothing, minCached |-> FALSE, minSev |-> SevLow]

cap == IF Max > 0 THEN Max ELSE 5000

observe(d, s) == [d EXCEPT !.maxSeverity = IF ~d.seen \/ s > @ THEN s ELSE @,
                           !.seen = TRUE]
count(d, s, n) == [d EXCEPT !.counts[s] = @ + n]

lowestRetained(b) == CHOOSE m \in Severity : b[m] > 0 /\ \A x \in Severity : x < m => b[x] = 0

\* The ways retain ends: there is room, the hit is no better than the lowest
\* retained one, or it replaces that one. (A wrong variant: a replaced finding
\* is not counted.)
Extend(d, f) == [d EXCEPT !.found = AddTo(@, f), !.minCached = FALSE]
Reject(d) == [d EXCEPT !.dropped = @ + 1]
ReplaceUncounted(d, m, f) == [d EXCEPT !.found = AddTo(Minus(@, m), f), !.minCached = FALSE]
Replace(d, m, f) == [d EXCEPT !.found = AddTo(Minus(@, m), f), !.dropped = @ + 1,
                              !.minCached = FALSE]

\* (Wrong variants: the first ones stay, one more than the cap stays.)
retainFirst(d, f) == IF Size(d.found) < cap THEN Extend(d, f) ELSE Reject(d)
RoomForOneMore(d) == Size(d.found) <= cap
Room(d) == Size(d.found) < cap

retain(d, f) ==
  LET m == lowestRetained(d.found) IN
  IF Room(d) THEN Extend(d, f)
  ELSE IF d.minCached /\ f <= d.minSev THEN Reject(d)
  ELSE IF f <= m THEN [Reject(d) EXCEPT !.minSev = m, !.minCached = TRUE]
  ELSE Replace(d, m, f)

keep(d, f) == retain(count(observe(d, f), f, 1), f)

\* Merge up to the findings themselves: what other saw, also what it dropped.
\* (Wrong variants: its highest severity, or its counts, are rediscovered from
\* what it retained.)
absorbUnseen(d, other) ==
  [d EXCEPT !.dropped = @ + other.dropped,
            !.counts = [s \in Severity |-> @[s] + other.counts[s]]]
absorbRetained(d, other) ==
  [IF other.seen THEN observe(d, other.maxSeverity) ELSE d EXCEPT
     !.dropped = @ + other.dropped,
     !.counts = [s \in Severity |-> @[s] + other.found[s]]]
absorb(d, other) ==
  [IF other.seen THEN observe(d, other.maxSeverity) ELSE d EXCEPT
     !.dropped = @ + other.dropped,
     !.counts = [s \in Severity |-> @[s] + other.counts[s]]]
-----------------------------------------------------------------------------
DetectorInit ==
  /\ det = [w \in Worker |-> NewDetector]
  /\ visited = [w \in Worker |-> 0] /\ kept = [w \in Worker |-> 0]
  /\ next = 0 /\ merged = NewDetector /\ rest = Nothing
  /\ matched = 0 /\ events = 0
  /\ tally = Nothing

\* How many matches a worker keeps.
KeepUpTo == MaxEvents

\* visit: a record passes the filter.
Visit(w) == /\ Scanning
            /\ visited' = [visited EXCEPT ![w] = @ + 1]
            /\ kept' = [kept EXCEPT ![w] = IF @ < KeepUpTo THEN @ + 1 ELSE @]
            /\ UNCHANGED <<det, resultVars, tally>>

\* Inspect: a rule hits a record of w with severity f.
Inspect(w, f) == /\ Scanning /\ visited[w] > 0
                 /\ det' = [det EXCEPT ![w] = keep(@, f)]
                 /\ tally' = AddTo(tally, f)
                 /\ UNCHANGED <<visited, kept, resultVars>>

\* The scan returns: the merge stage begins.
EndScan == /\ Scanning
           /\ next' = 1
           /\ UNCHANGED <<shardVars, merged, rest, matched, events, tally>>

\* The next shard: its counts at once, its findings one by one, in the order
\* it found them, which may be any.
MergeShard == /\ next \in Worker /\ rest = Nothing
              /\ next' = next + 1
              /\ merged' = absorb(merged, det[next])
              /\ rest' = det[next].found
              /\ matched' = matched + visited[next]
              /\ events' = Least(events + kept[next], MaxEvents)
              /\ UNCHANGED <<shardVars, tally>>

MergeFinding(f) == /\ rest[f] > 0
                   /\ merged' = retain(merged, f)
                   /\ rest' = Minus(rest, f)
                   /\ UNCHANGED <<shardVars, next, matched, events, tally>>

Visits == LET upTo[w \in 0 .. Workers] == IF w = 0 THEN 0 ELSE upTo[w - 1] + visited[w]
          IN  upTo[Workers]

DetectorStop == Done /\ UNCHANGED detectorVars

DetectorNext ==
  \/ \E w \in Worker : Visits < MaxVisits /\ Visit(w)
  \/ \E w \in Worker, f \in Severity : Size(tally) < MaxHits /\ Inspect(w, f)
  \/ EndScan
  \/ MergeShard
  \/ \E f \in Severity : MergeFinding(f)
  \/ DetectorStop

DetectorSpec == DetectorInit /\ [][DetectorNext]_detectorVars
-----------------------------------------------------------------------------
Detector == [found : Bag, dropped : Nat, maxSeverity : Severity, seen : BOOLEAN,
             counts : Bag, minCached : BOOLEAN, minSev : Severity]

DetectorTypeOK ==
  /\ det \in [Worker -> Detector] /\ merged \in Detector
  /\ visited \in [Worker -> Nat] /\ kept \in [Worker -> 0 .. MaxEvents]
  /\ next \in 0 .. Workers + 1
  /\ rest \in Bag /\ tally \in Bag
  /\ matched \in Nat /\ events \in 0 .. MaxEvents
  /\ Size(merged.found) <= cap
  /\ \A w \in Worker : Size(det[w].found) <= cap

Detectors == {det[w] : w \in Worker} \cup {merged}

\* Every hit is retained or counted as dropped, exactly once, through
\* replacements and merges: the report's "n more findings" is right.
HitsAccounted == /\ \A w \in Worker :
                      Size(det[w].found) + det[w].dropped = Size(det[w].counts)
                 /\ Size(merged.found) + Size(rest) + merged.dropped = Size(merged.counts)

\* However the hits were spread over the workers and in whatever order they
\* came, the most severe ones are retained: from every severity upwards as many
\* as there were, up to the cap. So it is in a shard, and in the result.
TopRetained == \A d \in (IF rest = Nothing THEN Detectors ELSE {det[w] : w \in Worker}) :
                 \A s \in Severity : AtLeast(d.found, s) = Least(cap, AtLeast(d.counts, s))

\* --fail-on is decided by the highest severity of every hit, also when the
\* cap has discarded it.
FailOnSeesAll == \A d \in Detectors :
                   /\ d.seen <=> Size(d.counts) > 0
                   /\ d.seen => /\ d.counts[d.maxSeverity] > 0
                                /\ \A s \in Severity : d.counts[s] > 0 => s <= d.maxSeverity

\* The severity counters of the result are those of the whole scan.
CountsExact == Done => merged.counts = tally

\* The cached minimum is the minimum: a hit is turned away without a look at
\* the findings only when it is no better than each of them.
CacheSound == \A d \in Detectors : d.minCached =>
                 /\ Size(d.found) = cap
                 /\ d.found[d.minSev] > 0
                 /\ \A s \in Severity : s < d.minSev => d.found[s] = 0
=============================================================================
