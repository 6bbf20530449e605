-------------------------------- MODULE Serve --------------------------------
(***************************************************************************)
(* The scan loop of `ctaudit serve` (cmd/ctaudit/serve.go) and the state   *)
(* it keeps between ticks (cmd/ctaudit/serve_state.go).                    *)
(*                                                                         *)
(* A tick fixes its window at its start, lists every day prefix that       *)
(* covers the window, skips the keys the seen set remembers, reads the     *)
(* rest, pushes the matching records to Loki and, only if Loki took them,  *)
(* commits; it then prunes the seen set and the kept ticks. Objects are    *)
(* delivered and the clock moves on between any two of these steps, and an *)
(* HTTP handler may read the shared state there: an invariant on `ticks`   *)
(* is a statement about every /report that can be requested.               *)
(*                                                                         *)
(* The model abstracts an object to the set of event times of its records, *)
(* a record filter to the window alone, and the order in which the workers *)
(* of internal/engine/scan.go list and fetch to any order.                 *)
(***************************************************************************)
EXTENDS Integers, FiniteSets

CONSTANTS Object,       \* the keys of the log objects that may be delivered
          Day,          \* length of a UTC day in clock units
          Lookback,     \* --lookback, in clock units
          Streams,      \* TRUE for `serve vpc`: objects are read record by record
          None,         \* a time that is not set
          MaxLag,       \* bound: age of the oldest record of a delivered object
          MaxRecords,   \* bound: records in one object
          MaxTime,      \* bound: the clock stops here
          MaxRestarts   \* bound: how often the process is restarted

ASSUME ServeAssumption == /\ IsFiniteSet(Object)
                          /\ Day \in Nat \ {0}
                          /\ Lookback \in Nat \ {0}
                          /\ Streams \in BOOLEAN
                          /\ None \notin Int
                          /\ {MaxLag, MaxRecords, MaxTime, MaxRestarts} \subseteq Nat

VARIABLES
  now,          \* the clock
  arrived,      \* arrived[k]: when object k was delivered, or None
  times,        \* times[k]: event times of its records
  answered,     \* lines <<k, t>> Loki accepted or refused for their age
  \* serveState
  seen,         \* seen[k]: the start of the tick that committed k, or None
  objects,      \* totals.objects
  matchedTotal, \* totals.matched
  ticks,        \* the committed ticks /report merges
  lastSuccess,  \* start of the last tick committed with no error, or None
  \* the tick in progress
  phase,        \* "wait", "scan", "finish", "commit" or "prune"
  until,        \* the start of the tick: its window is [until - Lookback, until)
  unlisted,     \* day prefixes still to be listed
  queue,        \* keys listed and not yet read
  read,         \* readKeys
  matched,      \* records that matched, as lines
  listErr,      \* some prefix could not be listed
  objErr,       \* some object reported an error
  \* history
  books,        \* books[k]: the tick start k was committed under in this process
  counted,      \* the records committed in this process
  restarts      \* restarts so far

envVars == <<now, arrived, times>>
stateVars == <<seen, objects, matchedTotal, ticks, lastSuccess>>
scanVars == <<unlisted, queue, read, matched, listErr, objErr>>
histVars == <<books, counted, restarts>>
vars == <<envVars, answered, stateVars, phase, until, scanVars, histVars>>
-----------------------------------------------------------------------------
\* t.Truncate(day): the start of the UTC day of t.
Truncate(t) == t - (t % Day)

\* How long past the lookback a key stays in the seen set. (A wrong variant:
\* one day, what the listing of a quiet day needs.)
seenRetentionOneDay == Day
seenRetention == 2 * Day

\* An object is filed under the day it is delivered.
Filed(k) == Truncate(arrived[k])

\* The window of a tick and the first and last day prefix it lists. (A wrong
\* variant: only the days that lie wholly in the window.)
Since(u) == u - Lookback
ScopeStartWholeDays(u) == Truncate(Since(u)) + Day
ScopeStart(u) == Truncate(Since(u))
ScopeEnd(u) == Truncate(u) + Day
ScopeDays(u) == {d \in ScopeStart(u) .. ScopeEnd(u) : d % Day = 0}

\* The records of k the filter of a tick started at u matches: Since is
\* inclusive and Until exclusive.
Match(k, u) == {<<k, t>> : t \in {x \in times[k] : Since(u) <= x /\ x < u}}

isSeen(k) == seen[k] # None
Present == {k \in Object : arrived[k] # None}
-----------------------------------------------------------------------------
Init == /\ now = 0
        /\ arrived = [k \in Object |-> None]
        /\ times = [k \in Object |-> {}]
        /\ answered = {}
        /\ seen = [k \in Object |-> None]
        /\ objects = 0 /\ matchedTotal = 0
        /\ ticks = {} /\ lastSuccess = None
        /\ phase = "wait" /\ until = 0
        /\ unlisted = {} /\ queue = {} /\ read = {} /\ matched = {}
        /\ listErr = FALSE /\ objErr = FALSE
        /\ books = [k \in Object |-> None] /\ counted = {} /\ restarts = 0

\* The environment: time passes, and AWS delivers an object. Its records are
\* older than the delivery, by at most MaxLag.
Advance == /\ now < MaxTime
           /\ now' = now + 1
           /\ UNCHANGED <<arrived, times, answered, stateVars, phase, until, scanVars, histVars>>

Deliver(k, T) == /\ arrived[k] = None
                 /\ arrived' = [arrived EXCEPT ![k] = now]
                 /\ times' = [times EXCEPT ![k] = T]
                 /\ UNCHANGED <<now, answered, stateVars, phase, until, scanVars, histVars>>

\* loop and the head of tick: the trigger fires, the window is fixed.
BeginTick == /\ phase = "wait"
             /\ phase' = "scan"
             /\ until' = now
             /\ unlisted' = ScopeDays(now)
             /\ queue' = {} /\ read' = {} /\ matched' = {}
             /\ listErr' = FALSE /\ objErr' = FALSE
             /\ UNCHANGED <<envVars, answered, stateVars, histVars>>

\* A list worker lists a day prefix. Keys the seen set remembers are skipped.
\* (A wrong variant: they are not.)
WantedAll(d) == {k \in Present : Filed(k) = d}
Wanted(d) == {k \in Present : Filed(k) = d /\ ~isSeen(k)}

ListDay(d) == /\ phase = "scan" /\ d \in unlisted
              /\ unlisted' = unlisted \ {d}
              /\ queue' = queue \cup Wanted(d)
              /\ UNCHANGED <<envVars, answered, stateVars, phase, until,
                             read, matched, listErr, objErr, histVars>>

\* ListPage fails: the pages before it were listed, the rest of the prefix is
\* given up, and the error is collected.
ListFails(d, K) == /\ phase = "scan" /\ d \in unlisted
                   /\ unlisted' = unlisted \ {d}
                   /\ queue' = queue \cup K
                   /\ listErr' = TRUE
                   /\ UNCHANGED <<envVars, answered, stateVars, phase, until,
                                  read, matched, objErr, histVars>>

\* A fetch worker reads an object to the end; bad when the decoder
\* named bad lines among the records it returned. (A wrong variant: an object
\* with bad lines does not count as read.)
FetchReadsForgets(k, bad) ==
                       /\ phase = "scan" /\ k \in queue
                       /\ queue' = queue \ {k}
                       /\ read' = IF bad THEN read ELSE read \cup {k}
                       /\ matched' = matched \cup Match(k, until)
                       /\ objErr' = (objErr \/ bad)
                       /\ UNCHANGED <<envVars, answered, stateVars, phase, until,
                                      unlisted, listErr, histVars>>

FetchReads(k, bad) == /\ phase = "scan" /\ k \in queue
                       /\ queue' = queue \ {k}
                       /\ read' = read \cup {k}
                       /\ matched' = matched \cup Match(k, until)
                       /\ objErr' = (objErr \/ bad)
                       /\ UNCHANGED <<envVars, answered, stateVars, phase, until,
                                      unlisted, listErr, histVars>>

\* An object cannot be opened or decoded and does not count as read. A
\* streamed object may break off after some of its records were visited.
FetchFails(k, R) == /\ phase = "scan" /\ k \in queue
                    /\ R # {} => Streams
                    /\ queue' = queue \ {k}
                    /\ matched' = matched \cup R
                    /\ objErr' = TRUE
                    /\ UNCHANGED <<envVars, answered, stateVars, phase, until,
                                   unlisted, read, listErr, histVars>>

\* The workers are done.
EndScan == /\ phase = "scan" /\ unlisted = {} /\ queue = {}
           /\ phase' = "finish"
           /\ UNCHANGED <<envVars, answered, stateVars, until, scanVars, histVars>>

\* The scan returns an error (a discovery listing failed, or the context was
\* cancelled) and the observer is aborted: closing it flushes the lines it
\* has, and whatever becomes of them is ignored. serveState.fail only counts it.
AbortScan(L) == /\ phase = "scan"
                /\ phase' = "prune"
                /\ answered' = answered \cup L
                /\ UNCHANGED <<envVars, stateVars, until, scanVars, histVars>>

\* obs.finish closes the sink. Either Loki answered for every line, or a push
\* failed and some of the lines got through: serveState.fail then only counts
\* the tick. (A wrong variant: the result of
\* finish is not looked at.)
FinishDelivers == /\ phase = "finish"
                  /\ phase' = "commit"
                  /\ answered' = answered \cup matched
                  /\ UNCHANGED <<envVars, stateVars, until, scanVars, histVars>>

FinishFailsCommits(L) == /\ phase = "finish"
                         /\ phase' = "commit"
                         /\ answered' = answered \cup L
                         /\ UNCHANGED <<envVars, stateVars, until, scanVars, histVars>>

FinishFails(L) == /\ phase = "finish"
                  /\ phase' = "prune"
                  /\ answered' = answered \cup L
                  /\ UNCHANGED <<envVars, stateVars, until, scanVars, histVars>>

\* len(res.Errors): the errors of the fetch workers and those of the list
\* workers. (A wrong variant: the latter are forgotten.)
ErrsOfObjects == objErr
Errs == listErr \/ objErr

\* serveState.commit: the keys read become seen, the totals grow, the tick is
\* kept for /report, and a tick without errors is a success.
Commit == /\ phase = "commit"
          /\ phase' = "prune"
          /\ seen' = [k \in Object |-> IF k \in read /\ ~isSeen(k) THEN until ELSE seen[k]]
          /\ objects' = objects + Cardinality(read)
          /\ matchedTotal' = matchedTotal + Cardinality(matched)
          /\ ticks' = ticks \cup {[at |-> until, recs |-> matched]}
          /\ lastSuccess' = IF Errs THEN lastSuccess ELSE until
          /\ books' = [k \in Object |-> IF k \in read THEN until ELSE books[k]]
          /\ counted' = counted \cup matched
          /\ UNCHANGED <<envVars, answered, until, scanVars, restarts>>

\* The locals of tick go out of scope.
Idle == /\ phase' = "wait" /\ until' = 0
        /\ unlisted' = {} /\ queue' = {} /\ read' = {} /\ matched' = {}
        /\ listErr' = FALSE /\ objErr' = FALSE

\* serveState.prune, with the start of the tick as its clock: a tick is kept
\* through the lookback, a key for seenRetention more. (A wrong variant: a
\* tick is dropped once its window starts before the current one.)
KeptWindow(t) == Since(t.at) >= Since(until)
Kept(t) == t.at >= Since(until)
Expired(k) == isSeen(k) /\ seen[k] < until - (Lookback + seenRetention)

Prune == /\ phase = "prune"
         /\ seen' = [k \in Object |-> IF Expired(k) THEN None ELSE seen[k]]
         /\ ticks' = {t \in ticks : Kept(t)}
         /\ Idle
         /\ UNCHANGED <<envVars, answered, objects, matchedTotal, lastSuccess, histVars>>

\* The process dies at any point, the lines L on their way to Loki, and is
\* started again: everything serve knows is in memory.
Restart(L) ==
           /\ restarts < MaxRestarts
           /\ restarts' = restarts + 1
           /\ seen' = [k \in Object |-> None]
           /\ objects' = 0 /\ matchedTotal' = 0
           /\ ticks' = {} /\ lastSuccess' = None
           /\ Idle
           /\ books' = [k \in Object |-> None] /\ counted' = {}
           /\ answered' = answered \cup L
           /\ UNCHANGED envVars
-----------------------------------------------------------------------------
Contents == {T \in SUBSET (now - MaxLag .. now - 1) : Cardinality(T) \in 1 .. MaxRecords}

Fault == \/ \E d \in unlisted : \E K \in SUBSET Wanted(d) : ListFails(d, K)
         \/ \E k \in queue : \E R \in SUBSET Match(k, until) : FetchFails(k, R)
         \/ \E L \in SUBSET matched : AbortScan(L) \/ FinishFails(L) \/ Restart(L)

Step == \/ BeginTick
        \/ \E d \in unlisted : ListDay(d)
        \/ \E k \in queue, bad \in BOOLEAN : FetchReads(k, bad)
        \/ EndScan \/ FinishDelivers \/ Commit \/ Prune

Next == \/ Advance
        \/ \E k \in Object, T \in Contents : Deliver(k, T)
        \/ Step
        \/ Fault

Spec == Init /\ [][Next]_vars

\* The loop goroutine and its workers keep running: a step of the tick that is
\* possible is taken. Deliveries, the clock and faults owe nothing.
FairSpec == Spec /\ WF_vars(Step)
-----------------------------------------------------------------------------
Time == Int \cup {None}
Line == Object \X Int

TypeOK ==
  /\ now \in Int /\ until \in Int
  /\ arrived \in [Object -> Time] /\ times \in [Object -> SUBSET Int]
  /\ answered \subseteq Line
  /\ seen \in [Object -> Time]
  /\ objects \in Nat /\ matchedTotal \in Nat
  /\ ticks \subseteq [at : Int, recs : SUBSET Line]
  /\ lastSuccess \in Time
  /\ phase \in {"wait", "scan", "finish", "commit", "prune"}
  /\ unlisted \subseteq Int
  /\ queue \subseteq Object /\ read \subseteq Object \ queue
  /\ matched \subseteq Line
  /\ listErr \in BOOLEAN /\ objErr \in BOOLEAN
  /\ books \in [Object -> Time] /\ counted \subseteq Line
  /\ restarts \in Nat

Committed == {k \in Object : books[k] # None}

\* No object is counted twice by the ticks of one process: a key that leaves
\* the seen set can no longer be listed, even if the tick that read it ran
\* across midnight (the reason seenRetention gives at its definition).
ObjectsCountedOnce == objects = Cardinality(Committed)

\* Nor is a record, so that the counters and the merged report are sums over
\* distinct records. This is why an object with bad lines counts as read.
RecordsCountedOnce == /\ matchedTotal = Cardinality(counted)
                      /\ \A s, t \in ticks : s # t => s.recs \cap t.recs = {}

\* Whenever /report is requested, also between a commit and its prune, every
\* committed record of the last Lookback is in a tick that it merges.
ReportComplete == \A r \in counted :
                     r[2] >= now - Lookback => \E t \in ticks : r \in t.recs

\* The last-success gauge is a promise: every object delivered before that tick
\* started and filed under a day of its scope has been committed.
CaughtUp == lastSuccess # None =>
              \A k \in Present :
                 /\ arrived[k] < lastSuccess
                 /\ Truncate(lastSuccess - Lookback) <= Filed(k)
                 => k \in Committed

\* The abstract specification: serve is a ledger of the arrived objects.
LedgerOf == INSTANCE Ledger
ImplementsLedger == LedgerOf!Spec

\* A tick that fails, a day that cannot be listed or an object that cannot be
\* read delays an object but loses nothing: if faults cease, every object
\* delivered is committed while a record of it is inside the window.
RetriedUntilSeen ==
  <>[][~Fault]_vars =>
     \A k \in Object : arrived[k] # None ~>
        (k \in Committed \/ \A t \in times[k] : t < now - Lookback)

(***************************************************************************)
(* Why these hold: an inductive invariant, proved in ServeProofs.          *)
(***************************************************************************)
InTick == phase \in {"scan", "finish", "commit"}

\* The time the next listing looks back from.
Horizon == IF phase = "wait" THEN now ELSE until

Clock == /\ phase # "wait" => until <= now
         /\ \A k \in Present : arrived[k] <= now
         /\ \A k \in Object \ Present : times[k] = {}
         /\ lastSuccess # None => lastSuccess <= now

Finite == /\ \A k \in Object : IsFiniteSet(times[k])
          /\ IsFiniteSet(matched) /\ IsFiniteSet(counted)

\* A key is listed under one day of a tick.
Listed == \A k \in queue \cup read : k \in Present /\ Filed(k) \notin unlisted

\* What a key in hand has passed, and what its records are.
InHand == InTick =>
  /\ unlisted \subseteq ScopeDays(until)
  /\ phase # "scan" => unlisted = {} /\ queue = {}
  /\ \A k \in queue \cup read : Filed(k) \in ScopeDays(until)
  /\ \A r \in matched : r \in Match(r[1], until)
  /\ \A k \in read : Match(k, until) \subseteq matched
  /\ ~Streams => \A r \in matched : r[1] \in read
  /\ phase = "commit" => matched \subseteq answered

\* A key in hand was never committed.
Fresh == InTick => \A k \in queue \cup read : books[k] = None

\* A committed key is seen, or its day lies a whole day before every window
\* that is still to come.
Books == \A k \in Object :
  /\ isSeen(k) => seen[k] = books[k]
  /\ k \in Committed => k \in Present /\ Filed(k) <= ScopeEnd(books[k])
  /\ k \in Committed /\ ~isSeen(k) => Filed(k) + Day < Since(Horizon)

Tally == /\ objects = Cardinality(Committed)
         /\ ~Streams => /\ matchedTotal = Cardinality(counted)
                        /\ \A r \in counted : r[1] \in Committed

Reported ==
  /\ \A t \in ticks : \A r \in t.recs : r \in counted /\ r[2] < t.at
  /\ \A r \in counted : r[2] >= now - Lookback => \E t \in ticks : r \in t.recs
  /\ ~Streams => \A s, t \in ticks : s # t => s.recs \cap t.recs = {}

\* A tick without an error has every key it owes in hand, or its day before it.
Covered == InTick /\ ~Errs =>
  \A k \in Present : /\ arrived[k] < until
                     /\ ScopeStart(until) <= Filed(k)
                     => k \in Committed \cup queue \cup read \/ Filed(k) \in unlisted

IInv == /\ TypeOK /\ Clock /\ Finite /\ Listed /\ InHand /\ Fresh /\ Books
        /\ Tally /\ Reported /\ Covered /\ CaughtUp

(***************************************************************************)
(* What the documentation says and the code does not do.                   *)
(***************************************************************************)
\* docs/kubernetes.md: a tick with a list error is failed, nothing is committed.
ListErrorCommitsNothing == phase = "commit" => ~listErr

\* internal/engine/scan.go: readKeys lists every object whose records were
\* visited.
VisitedIsRead == phase = "commit" => \A r \in matched : r[1] \in read

\* docs/kubernetes.md: lines may be duplicated but are never lost. Here: once
\* an object is never read again, no line of it inside the lookback is missing.
LinesNeverLost == \A k \in Object : isSeen(k) =>
                     \A t \in times[k] : t >= seen[k] - Lookback => <<k, t>> \in answered
=============================================================================
