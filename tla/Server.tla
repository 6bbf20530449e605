------------------------------- MODULE Server -------------------------------
(***************************************************************************)
(* The process around the tick loop of serve: start, the goroutines of     *)
(* runServe (main, the loop, the handlers of /report), SIGTERM and the     *)
(* graceful shutdown, what a commit adds to the counters of /metrics, and  *)
(* the merge of the committed ticks that /report shows                     *)
(* (cmd/ctaudit/serve.go, serve_state.go, internal/stats/elb_health.go).   *)
(*                                                                         *)
(* A tick is here what its scan matched. Windows, keys and retries are     *)
(* Serve's. The bucket of a minute stands for every part of a summary that *)
(* is kept behind a pointer; its owner is the value that allocated it.     *)
(***************************************************************************)
EXTENDS Integers, Sequences, FiniteSetsExt

CONSTANTS Record,      \* records [id, minute, status]; "" is no status
          Subcommand,  \* a subset of {"elb", "s3"}
          Request,     \* requests for /report
          MaxEvents,
          MaxTicks     \* bound: ticks that begin

ASSUME ServerAssumption ==
  /\ IsFiniteSet(Record) /\ IsFiniteSet(Request) /\ Request \cap Nat = {}
  /\ \A x \in Record : {"id", "minute", "status"} \subseteq DOMAIN x /\ x.minute \in Nat
  /\ Subcommand \subseteq {"elb", "s3"}
  /\ MaxEvents \in Nat \ {0} /\ MaxTicks \in Nat \ {0}

VARIABLES
  sub,        \* serveConfig.sub
  main,       \* where runServe is
  signalled,  \* SIGTERM or SIGINT came: ctx is done
  httpErr,    \* srv.Serve returned an error
  code,       \* exit code
  late,       \* shutdownGrace has run out
  loop,       \* where the loop goroutine is
  pending,    \* the ticker's channel holds a tick
  begun,      \* ticks begun; the tick in hand is begun
  found,      \* what the scan of the tick in hand matched
  matches,    \* matches[t]: the match list of tick t
  ticks,      \* serveState.ticks
  totals,     \* serveTotals
  recs,       \* recs[t]: history, what tick t committed
  answered,   \* history: records of ticks whose sink closed without an error
  bucket,     \* bucket[o][m]: requests in the bucket of minute m that o allocated
  line,       \* line[r][m]: owner of the bucket of minute m in the report of r
  handler,    \* where the handler of r is
  view, at    \* its snapshot, and the index it merges next

mainVars == <<sub, main, signalled, httpErr, code, late>>
loopVars == <<loop, pending, begun, found, answered>>
stateVars == <<ticks, totals, recs, matches>>
reportVars == <<line, handler, view, at>>
vars == <<mainVars, loopVars, stateVars, reportVars, bucket>>

Tick == 1 .. MaxTicks
Minute == {x.minute : x \in Record}
None == 0
Owner == Tick \cup Request
AtMinute(S, m) == {x \in S : x.minute = m}
-----------------------------------------------------------------------------
\* Counters. (Wrong variants: a request without a status is forgotten.)
Class(s) == CASE s = "200" -> "2xx" [] s = "404" -> "4xx" [] OTHER -> "other"
StatusClasses == {"2xx", "4xx", "other"}
ByStatus(S, c) == Cardinality({x \in S : x.status # "" /\ Class(x.status) = c})

AddForgets(tot, S) == [tot EXCEPT !.matched = @ + Cardinality(S),
                                  !.class = [c \in StatusClasses |-> @[c] + ByStatus(S, c)]]
Add(tot, S) ==
  LET statusless == Cardinality({x \in S : x.status = ""})
  IN  [matched |-> tot.matched + Cardinality(S),
       class |-> [c \in StatusClasses |-> tot.class[c] + ByStatus(S, c)
                    + IF sub = "s3" /\ c = "other" THEN statusless ELSE 0]]

\* The earliest n of S; of records of one time any.
earliest(S, n) == {T \in SUBSET S : /\ Cardinality(T) = Min({n, Cardinality(S)})
                                    /\ \A x \in T, y \in S \ T : x.minute <= y.minute}
-----------------------------------------------------------------------------
Init == /\ sub \in Subcommand
        /\ main = "starting" /\ signalled = FALSE /\ httpErr = FALSE /\ code = 0 /\ late = FALSE
        /\ loop = "off" /\ pending = FALSE /\ begun = 0 /\ found = {} /\ answered = {}
        /\ ticks = <<>>
        /\ totals = [matched |-> 0, class |-> [c \in StatusClasses |-> 0]]
        /\ recs = [t \in Tick |-> {}] /\ matches = [o \in Owner |-> {}]
        /\ bucket = [o \in Owner |-> [m \in Minute |-> 0]]
        /\ line = [r \in Request |-> [m \in Minute |-> None]]
        /\ handler = [r \in Request |-> "none"]
        /\ view = [r \in Request |-> <<>>] /\ at = [r \in Request |-> 0]

\* runServe: the command line, the observer, the store or the listener is
\* refused; or the server and the loop start. (With --help it prints the flags and exits
\* with 0 instead: nothing has begun.)
StartFails == /\ main = "starting"
              /\ main' = "exited" /\ code' = 2
              /\ UNCHANGED <<sub, signalled, httpErr, late, loopVars, stateVars, reportVars, bucket>>

Start == /\ main = "starting"
         /\ main' = "serving" /\ loop' = "scan" /\ begun' = 1
         /\ UNCHANGED <<sub, signalled, httpErr, code, late, pending, found, answered,
                        stateVars, reportVars, bucket>>

Signal == /\ main # "exited" /\ ~signalled
          /\ signalled' = TRUE
          /\ UNCHANGED <<sub, main, httpErr, code, late, loopVars, stateVars, reportVars, bucket>>

HttpFails == /\ main = "serving" /\ ~httpErr
             /\ httpErr' = TRUE
             /\ UNCHANGED <<sub, main, signalled, code, late, loopVars, stateVars, reportVars, bucket>>

\* The select of runServe, cancelLoop, and Shutdown's first step: no new
\* connection is accepted.
Stop == /\ main = "serving"
        /\ \/ signalled /\ code' = 0
           \/ httpErr /\ code' = 2
        /\ main' = "stopping"
        /\ UNCHANGED <<sub, signalled, httpErr, late, loopVars, stateVars, reportVars, bucket>>

GraceEnds == /\ main = "stopping" /\ ~late
             /\ late' = TRUE
             /\ UNCHANGED <<sub, main, signalled, httpErr, code, loopVars, stateVars, reportVars, bucket>>

Drained == \A r \in Request : handler[r] \notin {"merging", "writing"}

ShutdownReturns == /\ main = "stopping"
                   /\ Drained \/ late
                   /\ main' = "waiting"
                   /\ UNCHANGED <<sub, signalled, httpErr, code, late, loopVars, stateVars, reportVars, bucket>>

\* <-loopDone, and the process ends with all its goroutines. (A wrong variant:
\* the loop is not waited for.)
LoopDoneAtOnce == TRUE
LoopDone == loop = "gone"

Exit == /\ main = "waiting" /\ LoopDone
        /\ main' = "exited"
        /\ handler' = [r \in Request |-> IF handler[r] \in {"merging", "writing"} THEN "killed" ELSE handler[r]]
        /\ UNCHANGED <<sub, signalled, httpErr, code, late, loopVars, stateVars, line, view, at, bucket>>
-----------------------------------------------------------------------------
\* The context of the loop. (A wrong variant: it is not cancelled by runServe
\* but by a signal only.)
CancelledBySignal == signalled
Cancelled == signalled \/ main \in {"stopping", "waiting"}

Fire == /\ main # "exited" /\ loop # "off" /\ begun < MaxTicks /\ ~pending
        /\ pending' = TRUE
        /\ UNCHANGED <<mainVars, loop, begun, found, answered, stateVars, reportVars, bucket>>

Running(stage) == main # "exited" /\ loop = stage
Go(stage) == loop' = stage /\ UNCHANGED <<mainVars, pending, begun, reportVars>>

Committed == UNION {recs[t] : t \in Tick}

\* A scan returns some of what was not yet read. Cancelled, it fails, and the
\* sink is closed.
ScanReturns == /\ Running("scan") /\ ~Cancelled
               /\ Go("finish")
               /\ \E S \in SUBSET (Record \ Committed) :
                    /\ found' = S
                    /\ \E T \in earliest(S, MaxEvents) : matches' = [matches EXCEPT ![begun] = T]
               /\ UNCHANGED <<answered, ticks, totals, recs, bucket>>

ScanFails == /\ Running("scan")
             /\ Go("abort")
             /\ UNCHANGED <<found, answered, stateVars, bucket>>

AbortReturns == /\ Running("abort")
                /\ Go("fail")
                /\ UNCHANGED <<found, answered, stateVars, bucket>>

\* obs.finish: its posts have a context of their own.
FinishDelivers == /\ Running("finish")
                  /\ Go("commit")
                  /\ answered' = answered \cup found
                  /\ UNCHANGED <<found, stateVars, bucket>>

FinishFails == /\ Running("finish")
               /\ Go("fail")
               /\ UNCHANGED <<found, answered, stateVars, bucket>>

\* commit: the summary the scan built becomes part of the state.
Commit == /\ Running("commit")
          /\ Go("prune")
          /\ totals' = Add(totals, found)
          /\ recs' = [recs EXCEPT ![begun] = found]
          /\ ticks' = Append(ticks, begun)
          /\ bucket' = [bucket EXCEPT ![begun] = [m \in Minute |-> Cardinality(AtMinute(found, m))]]
          /\ found' = {}
          /\ UNCHANGED <<answered, matches>>

Fail == /\ Running("fail")
        /\ Go("prune")
        /\ found' = {} /\ matches' = [matches EXCEPT ![begun] = {}]
        /\ UNCHANGED <<answered, ticks, totals, recs, bucket>>

\* prune: some of the oldest ticks leave the lookback.
Prune == /\ Running("prune")
         /\ Go("wait")
         /\ \E n \in 0 .. Len(ticks) : ticks' = SubSeq(ticks, n + 1, Len(ticks))
         /\ UNCHANGED <<found, answered, totals, recs, matches, bucket>>

NextTick == /\ Running("wait") /\ pending /\ ~Cancelled
            /\ loop' = "scan" /\ pending' = FALSE /\ begun' = begun + 1
            /\ UNCHANGED <<mainVars, found, answered, stateVars, reportVars, bucket>>

LeaveLoop == /\ Running("wait") /\ Cancelled
             /\ Go("gone")
             /\ UNCHANGED <<found, answered, stateVars, bucket>>
-----------------------------------------------------------------------------
Serves(r) == UNCHANGED <<mainVars, loopVars, ticks, totals, recs>> /\ main # "exited"

\* serveReport: 503 before the first commit, else a snapshot under the mutex.
Refuse(r) == /\ Serves(r) /\ main = "serving" /\ handler[r] = "none"
             /\ ticks = <<>>
             /\ handler' = [handler EXCEPT ![r] = "unavailable"]
             /\ UNCHANGED <<line, view, at, bucket, matches>>

Snapshot(r) == /\ Serves(r) /\ main = "serving" /\ handler[r] = "none"
               /\ ticks # <<>>
               /\ handler' = [handler EXCEPT ![r] = "merging"]
               /\ view' = [view EXCEPT ![r] = ticks] /\ at' = [at EXCEPT ![r] = 1]
               /\ UNCHANGED <<line, bucket, matches>>

\* mergeHealth: the minutes of a tick for which the report has no bucket yet get one of
\* the report's own. (A wrong variant: the report takes the one of the tick.)
newOwnerShared(r, t) == t
newOwner(r, t) == r

\* What a report reads at index i: its copy. (A wrong variant: the snapshot
\* shares the array that prune compacts.)
TickAtShared(r, i) == IF i <= Len(ticks) THEN ticks[i] ELSE view[r][i]
TickAt(r, i) == view[r][i]

MergeTick(r) ==
  /\ Serves(r) /\ handler[r] = "merging" /\ at[r] <= Len(view[r])
  /\ LET t == TickAt(r, at[r])
         owner == [m \in Minute |-> IF bucket[t][m] > 0 /\ line[r][m] = None THEN newOwner(r, t) ELSE line[r][m]]
         merged(o, m) == IF line[r][m] = None THEN bucket[t][m] ELSE bucket[o][m] + bucket[t][m]
     IN  /\ line' = [line EXCEPT ![r] = owner]
         /\ bucket' = [o \in Owner |-> [m \in Minute |->
                         IF bucket[t][m] > 0 /\ o = owner[m] THEN merged(o, m) ELSE bucket[o][m]]]
         /\ matches' = [matches EXCEPT ![r] = @ \cup matches[t]]
  /\ at' = [at EXCEPT ![r] = @ + 1]
  /\ UNCHANGED <<handler, view>>

\* The lists are sorted by time and cut, the page is rendered.
CutMatches(r) == /\ Serves(r) /\ handler[r] = "merging" /\ at[r] > Len(view[r])
                 /\ \E T \in earliest(matches[r], MaxEvents) : matches' = [matches EXCEPT ![r] = T]
                 /\ handler' = [handler EXCEPT ![r] = "writing"]
                 /\ UNCHANGED <<line, view, at, bucket>>

Respond(r) == /\ Serves(r) /\ handler[r] = "writing"
              /\ handler' = [handler EXCEPT ![r] = "done"]
              /\ UNCHANGED <<line, view, at, bucket, matches>>
-----------------------------------------------------------------------------
Handle(r) == Refuse(r) \/ Snapshot(r) \/ MergeTick(r) \/ CutMatches(r) \/ Respond(r)
LoopStep == \/ ScanReturns \/ ScanFails \/ AbortReturns \/ FinishDelivers \/ FinishFails
            \/ Commit \/ Fail \/ Prune \/ NextTick \/ LeaveLoop
MainStep == StartFails \/ Start \/ Stop \/ ShutdownReturns \/ Exit
Exited == main = "exited" /\ UNCHANGED vars

Next == \/ Signal \/ HttpFails \/ GraceEnds \/ Fire
        \/ MainStep \/ LoopStep \/ (\E r \in Request : Handle(r))
        \/ Exited

Spec == Init /\ [][Next]_vars

\* main and the loop keep running, the grace period ends; requests, signals
\* and the ticker may come or not, and a handler may take for ever to write.
Fairness == WF_vars(MainStep) /\ WF_vars(LoopStep) /\ WF_vars(GraceEnds)
FairSpec == Spec /\ Fairness
-----------------------------------------------------------------------------
\* However many reports are merged, at whatever moment of a tick or of another
\* report, what the committed ticks hold stays what they committed. (mergeHealth
\* copies a bucket before the next tick is added to it.)
KeptUnchanged == \A i \in 1 .. Len(ticks) : \A m \in Minute :
                   bucket[ticks[i]][m] = Cardinality(AtMinute(recs[ticks[i]], m))

\* A report shows every tick of its snapshot exactly once, although ticks are
\* committed and pruned while it merges, and of all their records the earliest.
ReportExact ==
  \A r \in Request : handler[r] \in {"writing", "done"} =>
    LET S == UNION {recs[view[r][i]] : i \in 1 .. Len(view[r])}
    IN  /\ \A m \in Minute : bucket[r][m] = Cardinality(AtMinute(S, m))
        /\ matches[r] \in earliest(S, MaxEvents)

\* The counters of /metrics count every committed record once, and each is in one status
\* class: for S3 one without a status too, for load balancers all but those.
CountersExact == /\ totals.matched = Cardinality(Committed)
                 /\ totals.class["2xx"] + totals.class["4xx"] + totals.class["other"]
                      = Cardinality({x \in Committed : sub = "s3" \/ x.status # ""})

\* When the process has ended, no tick was cut short whose lines Loki had
\* answered for, no report was cut short unless the grace period was over, and
\* exit code 0 means that a signal came.
ExitIsClean == main = "exited" => /\ answered \subseteq Committed
                                  /\ (\E r \in Request : handler[r] = "killed") => late
                                  /\ code = 0 => signalled

\* Once it is told to stop, or its listener failed, the process ends: a tick in
\* flight is cancelled or finishes, and a slow reader is not waited for.
Exits == (signalled \/ httpErr) ~> (main = "exited")
=============================================================================
