# ctaudit in TLA+

`ctaudit` reads AWS log objects (CloudTrail, load balancer, WAF, S3 access and
VPC flow logs) from S3, filters and counts their records, runs findings rules
over them, streams the matching records to Loki or a JSONL file, and renders a
report. It runs once (`ctaudit cloudtrail`, `elb`, `waf`, `s3`, `vpc`) or as a
server that scans a rolling window every interval (`ctaudit serve ...`).

This directory holds TLA+ modules that model the parts of it where order,
concurrency and failure decide what is right, TLC configurations that check
them on small instances, and TLAPS proofs for every instance.

    tlc -config ServeLedger.cfg MCServe.tla      # any run of the table below
    tlapm ServeProofs.tla                        # proofs; also ServerProofs, EngineProofs, LokiProofs,
                                                 # FlowsProofs, OneShotProofs, SummaryProofs, TypedProofs

## The system

| Component | Source | State it keeps | Operations |
|---|---|---|---|
| serve loop | `cmd/ctaudit/serve.go` | the tick in progress | `loop`, `tick`, HTTP handlers, shutdown |
| serve state | `cmd/ctaudit/serve_state.go` | seen keys, totals, committed ticks, last success | `isSeen`, `commit`, `fail`, `prune`, `snapshot`, `metrics` |
| generic scan | `internal/engine/scan.go` | two channels, a shard per fetch worker, collected errors | feed, list, fetch, close, merge |
| typed runs | `internal/engine/{engine,elb,waf,s3,vpc}.go` | what a shard accumulates | `visit`, `Merge`, rules over the merged summary |
| findings | `internal/findings/rules.go` | retained findings up to a cap, cached minimum, counts per severity | `Inspect`, `Merge`, `Findings` |
| statistics | `internal/stats` | counters, capped counters, capped distinct sets | `Add`, `Merge`, `AtLeast` |
| sinks | `internal/sink` | buffered lines, senders in flight, the first error | `NewWriter`, `Write`, `Close`, `post` |
| observer | `cmd/ctaudit/observe.go` | the sinks of one run, closed or not | `newObserver`, emitters, `finish`, `abort` |
| one-shot commands | `cmd/ctaudit/{main,cloudtrail,elb,waf,s3,vpc}.go` | - | parse, scan, write reports, finish, exit code |
| S3 access | `internal/s3src` | - | prefixes of a scope, `ListPage`, `Get` |
| parsers, filters | `internal/{ctevent,elblog,flowlog,s3log,waflog,query}` | - | decode an object, match a record |
| reports | `internal/report` | - | HTML, PDF, terminal |

How they interact. A tick of serve (or a one-shot command) builds an observer,
whose sink is Loki, a JSONL file or both, and calls a typed run of the engine
with a filter, a `Skip` hook (serve: `isSeen`, called from the list workers under
the state's mutex) and an `Emit` hook (one sink writer per fetch worker). The run
hands the prefixes of its scope to `scan`. There, a feeder, list workers and
fetch workers are connected by two channels, each fetch worker folds records into
a shard of its own and writes matching ones to its writer, and the writer blocks
when all senders of the sink are busy: back-pressure reaches from Loki through
the fetch workers and the key channel to the list workers. When all fetch workers
have returned the shards are merged, `finish` writes the findings and closes the
sink, and the tick commits if, and only if, `Close` returned nil. HTTP handlers
read the state between any two of these steps.

What is hard here:

- *Order against the clock.* A tick takes minutes; objects arrive, midnight
  passes and reports are requested meanwhile. How long a key must be remembered,
  and which tick must be kept for `/report`, depends on where in a day a tick
  starts and how long it runs.
- *Partial failure.* A page, an object, part of an object, a push or a whole tick
  can fail. What was counted, pushed and remembered must stay consistent, and
  what was not must be tried again.
- *Interleaving.* Listing and fetching overlap; cancellation comes at any moment;
  channels are closed by goroutines of their own; senders and writers share slots
  and one failed flag.
- *Retries.* A post that timed out may have been stored.
- *Bounds.* A full key channel, no free sender, too many held lines, a capped
  list of errors or findings.

What makes each component correct is stated as its properties, listed below.
`PROJECT.json` lists the hazards with the lines where they bite and the property
that covers each; those no property covers yet say so.

## Modules

| Module | Models | Stands on |
|---|---|---|
| `Ledger` | what serve promises: each object is entered in the books at most once per process, and only after Loki answered for every line its window selects | abstract |
| `Serve` | the tick loop and `serveState`, the clock, deliveries, restarts | implements `Ledger`; takes `Sweep` and `Delivery` for granted |
| `ServeProofs` | theorems about `Serve` | extends `Serve`, `TLAPS` |
| `Sweep` | what a scan promises: each wanted key is read or given up with an error; it fails only if cancelled | abstract |
| `Scan` | the goroutines and channels of `scan` | implements `Sweep` |
| `Delivery` | what a sink promises: `Close` returns nil only if the backend answered for every line written | abstract |
| `Loki` | the Loki sink and the retries of its posts | implements `Delivery` |
| `LokiProofs` | theorems about `Loki` | extends `Loki`, `TLAPS` |
| `Findings` | the shards of a CloudTrail run, the detector with its cap and cached minimum, the merge | uses that `Scan` has returned (`QuietAfterReturn`) |
| `EngineProofs` | theorems about `Scan` and `Findings` | extends `Scan`, `Findings`, `TLAPS` |
| `Flows` | the shards of a VPC run: capped counters, distinct sets, exposed services, the flow table, their merge, and who the port scan rule finds | uses that `Scan` has returned |
| `FlowsProofs` | theorems about `Flows` | extends `Flows`, `TLAPS` |
| `Jsonl` | the JSON Lines sink: writers' buffers, the shared file, the error that stays | used by `OneShot` |
| `OneShot` | a one-shot command from its observer to its exit code, with Multi | extends `Jsonl`, takes `Delivery` for Loki and `Sweep` for the scan; its sinks together implement `Delivery` |
| `OneShotProofs` | theorems about `OneShot` | extends `OneShot`, `TLAPS` |
| `Server` | the process of serve around its ticks: main, the loop, the handlers of `/report`, shutdown, the counters of `/metrics` | takes windows, keys and retries from `Serve`: a tick is what its scan matched |
| `ServerProofs` | theorems about `Server` | extends `Server`, `TLAPS` |
| `Tally` | what summaries and findings are made of: counters, spans, latencies, the cap of the findings | operators |
| `LogLine` | what the line formats share: fields, numbers, the time window of a filter | extends `Tally` |
| `ElbLog`, `WafLog`, `S3Log`, `TrailLog`, `VpcLog` | one log type each: which lines parse and into what, the filter, the summary with its `Add` and `Merge`, the rules over it | operators, extend `LogLine` |
| `Typed` | a run over one log type, from its prefixes and objects to its findings | extends the five; uses that `Scan` has returned (`QuietAfterReturn`) |
| `SummaryProofs` | lemmas: what each part of a summary holds after additions and merges | extends the log modules but `VpcLog`, `TLAPS` |
| `TypedProofs` | the same for `VpcLog` and the rules; theorems about `Typed` | extends `Typed`, `SummaryProofs` |
| `MCServe`, `MCScan`, `MCLoki`, `MCFindings`, `MCFlows`, `MCOneShot`, `MCServer`, `MCTyped` | values for TLC: pages, lines, flows, objects of each log type, symmetry | extend the above |

`Sweep` and `Delivery` are the seams: `Serve` models a scan as
its actions `ListDay`, `ListFails`, `FetchReads`, `FetchFails` in any order, which
is what `Sweep` allows, and a sink as `FinishDelivers` or `FinishFails`, which is
what `Delivery` allows. `Scan` and `Loki` are checked to implement them.

### Serve

One action per step of `tick` that another actor can come between.

| Action | Code |
|---|---|
| `BeginTick` | `loop` fires, `tick` takes `started` and computes the window and the scope days |
| `ListDay`, `ListFails` | a list worker lists the prefix of a day, skipping seen keys; or gives it up after some pages |
| `FetchReads`, `FetchFails` | a fetch worker reads an object (perhaps with bad lines); or cannot |
| `EndScan`, `AbortScan` | the run returns a result; or an error, and `obs.abort` closes the sink |
| `FinishDelivers`, `FinishFails` | `obs.finish`: every line answered; or a push failed and some lines got through |
| `Commit` | `serveState.commit` |
| `Prune` | `serveState.prune`, which runs after a commit and after `fail` alike |
| `Restart` | the process dies at any point; all state is in memory |
| `Advance`, `Deliver` | the clock; AWS delivers an object |

An object is the set of event times of its records and is filed under the day of
its delivery; its records are older than the delivery, by at most `MaxLag`. A line
is a pair of key and time. `serveState.fail` changes counters only, which are not
modelled, so a failed tick goes straight to `Prune`. `books` and `counted` are history:
what was committed in this process. `Streams` chooses between the two ways
`scan` reads an object: only a streamed one (`serve vpc`) can break off after
some of its records were visited.

Abstractions: a day is listed in one step (its pages, and keys delivered between
two pages, are covered by `ListFails` and by listing earlier or later); lines that
reach Loki during the scan are answered at the end of it, which only matters for a
`Restart` or failure, and there any subset may have got through; a request that
Loki stores after its tick has ended is ignored. The filter is the window alone:
the other conditions only make the set of matching records smaller.

### Scan

One action per step of a goroutine between two channel operations, store calls or
its end: `Feed` is the rendezvous on the unbuffered `prefixCh`; `ListPage`,
`ListPageFails`, `SendKey`, `Leave`, `EndPage`, `StopListing` are a list worker's;
`CloseKeys` is the goroutine that waits for the list workers; `Receive`, `Drained`,
`FetchReads`, `FetchFails` are a fetch worker's; `Return` is the end of `scan`;
`Cancel` is the caller. `select` with a ready channel and a done context picks
either, so `SendKey` and `Leave` are both possible then. `missed` and `failed` are
history: keys that were not read.

### Loki

`WriteScan`, `WriteEvent`, `WriteDropped` are `lokiWriter.Write` in its three cases;
`Send` is a writer getting a slot in `send`; `Start` and the `Post...` actions are the
goroutine of `send` with the attempts of `post` (`PostRetries` is an attempt that
ends in a network error, 429 or 5xx, after which Loki may or may not have stored
the batch); `BeginClose`, `CloseSend`, `EndClose` are `Close`: it takes what each writer
still holds as one batch and drops empty ones, or in event mode sorts all lines and cuts
them into batches (`pushSorted`). `eventTime` is the flag `--loki-time event`, fixed when the sink is made.
A batch is bounded by lines; the bound in bytes works the same way.

### Findings

`Visit` is the part of `visit` that counts a record and fills the event table,
`Inspect` one rule hit (`keep`, that is `observe`, `count`, `retain`). After `EndScan`
the merge stage is `MergeShard` (what `Run` and the first half of `Detector.Merge` add
up) and one `MergeFinding` for each finding the shard retained. Since the detector
decides by severity alone, findings are bags of severities (`Extend` is the branch of
`retain` that appends); a bag also stands for
every order in which a shard can have met its hits. The cached index is never read
by the code and left out. `tally` is history: all hits of the scan.

### Flows

`Visit` is `visit` in `RunVPC` for a flow that passes the filter: `addFlow` is
`VPCSummary.Add`, then the flow table is trimmed by `earliestVPC` at twice its size.
After `EndScan`, `MergeShard` takes the next shard and `MergeSrc`, `MergeEgress`,
`MergeExposed`, `MergePort` fold its maps into the result, one key a step, since Go
visits the keys of a map in any order and the order decides which keys still fit; `Cut`
is the last `earliestVPC`. The summary has a dozen capped counters and two distinct
trackers, all treated alike: the model has one counter of flows, one of bytes and one
tracker, and takes every order of flows and of merged keys; `VpcLog` has all of them.
`PortScans` are the actors of the port scan rule. `mine` is history: the flows each worker
visited.

### OneShot and Jsonl

The steps of `runCloudTrail` and its like are stages of `pc`: `NewObserver`, `NewStore`,
the scan (`Emit` by the workers until `ScanReturns` or `ScanFails`), `Terminal`,
`WriteReport` for HTML and PDF, then `obs.finish` (`WriteFinding`, `BeginClose`, the
closes of Multi, `EndClose`, `Push`) and `Verdict`. Each of them may fail. `Return` is a
`return`: it goes through the deferred `Abort`, which closes the sinks if `finish` did
not. `newObserver` fails before `abort` is deferred, and before a sink could hold
anything. The Loki sink is an instance of `Delivery`, so every behaviour `Loki` was shown
to have is covered; the JSON Lines sink is `Jsonl` in full, where `Takes` is the standard
library's buffered writer: it passes on any part of what it has, and fails or not. Its
`Close` flushes one writer after another (`FlushJsonl`), in the order in which they were
opened, which is any, and then the file.
Findings are their severities, each at most once; `Top` is what a result retains.

### Server

| Action | Code |
|---|---|
| `StartFails`, `Start` | `runServe` refuses the command line, the store, the observer or the listener; or starts the server and the loop |
| `Signal`, `HttpFails` | `signal.NotifyContext`; `srv.Serve` returns an error |
| `Stop` | the `select` of `runServe`, `cancelLoop`, no new connection |
| `GraceEnds`, `ShutdownReturns` | the context of `srv.Shutdown`; it returns when the handlers are done or the grace is over |
| `Exit` | `<-loopDone`, `return`: all goroutines end with the process |
| `Fire` | the ticker, whose channel holds one tick |
| `ScanReturns`, `ScanFails`, `AbortReturns`, `FinishDelivers`, `FinishFails`, `Commit`, `Fail`, `Prune` | `tick` in its stages |
| `NextTick`, `LeaveLoop` | the `select` of `loop`, and its check of the context after a tick |
| `Refuse`, `Snapshot` | `serveReport`: 503 before the first commit, or a copy of the ticks under the mutex |
| `MergeTick`, `CutMatches`, `Respond` | `mergeResults` for one tick; the sort and cut at the end; the page is written |

A tick is the set of records its scan matched; which those are is `Serve`'s subject. The
summary of a result has many parts that lie behind a pointer or in a map: the model has
one, the timeline of a load balancer summary, whose buckets are pointers that a merge may
copy or share (`newOwner`). A bucket has an owner, the result that allocated it, so that
an addition through a shared pointer would change the tick's own. `totals` are the counters
with a label, where a record can fall out of every class; sums are left out. `recs` and
`answered` are history: what each tick committed, and what Loki answered for.

### Typed and the log modules

`Typed` is what `Run`, `RunELB`, `RunWAF`, `RunS3` and `RunVPC` have in common and where
they differ: `Start` builds the prefixes (for WAF and for S3 logs partitioned by date they are
discovered by a listing, which may fail), `Fetch` decodes or streams one object into the
shard of a worker, `MergeShard` folds the next shard into the result, `ProbeFails` and
`Finish` are the rest: the probe for flow logs under Hive prefixes, the last sort and cut, the
rules. A worker takes an object in one step, because shards share nothing until the scan has
returned; any worker may take any object, in any order. An object that fails is recorded among
its worker's errors while they are fewer than `MaxErrs` (the code's `maxRecordedErrors`, 50); later
errors are dropped, there as here. `visitAll` is the loop over the entries of
an object, and `MergeShard` also adds up the records of the next worker, as the loop at the
end of `scan` does. The order in which Go visits map
keys is a choice in `s3Merge` and `vpcMerge`, where it decides which keys still fit.

The log modules are operators. A line is its number of fields and the texts it holds, a
JSON record its decoded fields; splitting, quoting, JSON and gzip are reduced to their
outcome (a line parses, is bad, or its object cannot be unpacked). Texts are values, and
what the code computes from a text (a number, an hour, the normalised path, a short name of a
rule group, the spelling of a TLS version) is a constant function, so that the texts TLC uses say
what they stand for. Durations are in milliseconds. Filters are the set of values each criterion accepts, with the criteria and the value each
one looks at as in the code. Summaries have every counter of the code by its name; fields
that are only shown are left out, and of an average its sum and its count.

`XIsOf(s, S)` of each module says what a summary should be for a set of entries without
adding them up one by one, and is what `ResultIsWhole` compares with.

## Runs

| Run | Instance | Shows |
|---|---|---|
| `serve_retention` | 1 object with a record, day 2, lookback 2, 6 time units, weak fairness | `ObjectsCountedOnce`, `RecordsCountedOnce`, `ReportComplete`, `CaughtUp`, `RetriedUntilSeen` |
| `serve_ledger` | 2 objects, 1 record each, 3 time units, 1 restart | the inductive invariant `IInv`, and `ImplementsLedger` |
| `scan` | 3 prefixes, 5 keys, 2 list workers, 1 or 2 fetch workers, weak fairness | `ScannedOnce`, `NoSendOnClosed`, `CleanIsComplete`, `QuietAfterReturn`, `WindsDown`, `ImplementsSweep`, no deadlock |
| `loki` | both time modes, 5 lines on 2 streams, 2 writers, 2 senders (1 in event mode), 2 attempts | `OldestFirst`, `FailedStops`, `CloseReturns`, `ImplementsDelivery`; the bound on held lines is part of `TypeOK` |
| `findings` | 2 workers, cap 2, 2 events, 4 records, 6 hits | `HitsAccounted`, `TopRetained`, `FailOnSeesAll`, `CountsExact` |
| `flows` | 2 workers, 4 of 13 flows, 2 keys, 2 sources, 2 ports, a table of 1 | `TotalsExact`, `PortScansExact`, `EarliestKept` |
| `one_shot` | 3 kinds of command, every choice of sinks, reports, push and `--fail-on`, 2 records, 2 severities, a cap of 1 | `CompleteUnlessFailed`, `SuccessIsComplete`, `ClosedOnce`, `MultiDelivers` |
| `server` | 3 records in 2 minutes, 1 request, 3 ticks, lists of 1, weak fairness | `KeptUnchanged`, `ReportExact`, `CountersExact`, `ExitIsClean`, `Exits` |
| `typed` | the 5 log types, 29 sets of options, 2 workers, tables of 2, capped counters of 1 or 2 keys | `LinesAccounted`, `ResultIsWhole`, `FindingsExact` |
| `serve_list_error`, `serve_lost_line`, `serve_streamed` | 1 object | three places where the code does not do what is written (see Findings) |

Why the bounds are enough. What can go wrong with retention needs one key: it is
read late by a tick that ran past midnight, pruned, and listed again. With a day
and a lookback of 2 that takes 6 units from the delivery, so `serve_retention`
reaches it: shortening the retention to one day is found within the run. The
ledger's promise relates two objects of one tick (committed together, one failing)
and a restart, for which 3 units and one record do. In `Scan` one page fills the
key channel (with one fetch worker it holds two keys), one prefix has two pages,
one is empty and one key is skipped; errors are capped at one. In `Loki` both
writers can wait while both senders are busy, every batch can fail on its last
attempt, and event mode overflows its four lines. In `Findings` six hits fill both
workers' detectors, replace and reject in one of them, and replace and reject again
in the merge; four records overflow the event table of one worker. In `Flows` there are three
sources, hosts and services where two fit, so each bound is met by one worker, or only
by the merge, and the flows of one prober reach the threshold on one worker or on both
together. In `OneShot` a buffer fills during the scan or at its end, and every step
fails once. In `Server` a report can hold a tick that is pruned while another commits,
two ticks have records of one minute (so that its bucket is merged into), and each phase of a
tick meets each phase of the shutdown. In `Typed` the objects hold each kind of line that the
parsers treat apart; keys, sources and findings number more than their caps of 1 or 2, in
one worker or only in the merge; `MaxErrs` is 1 where the load balancer logs hold
four objects that fail, so that a worker's list is met empty, full, and full while the other worker's is not; the thresholds of the rules (1 or 2 records, 6 bytes) are
reached by some actors and missed by others, on one worker or only by both together.
The
proofs need none of these bounds.

`CHECK_DEADLOCK FALSE` is set for `Serve` only: its clock stops at `MaxTime`.

### Fairness

- `Serve`, `serve_retention`: weak fairness of `Step`, the steps of the tick loop. The
  goroutine keeps running; the ticker fires again; store and Loki calls return.
  Deliveries, the clock and faults are not fair: faults may go on for ever, and the
  property only speaks of behaviours in which they cease.
- `Scan`: weak fairness of each goroutine. A store call returns, with an error if
  need be. Cancellation is never fair.
- `Server`: weak fairness of main's steps, of the loop's steps and of the end of the grace
  period. `select` and channel receives return when they can; a tick's store and Loki calls
  return. Requests, signals and the ticker may stay away, and a handler may write for ever:
  `Exits` holds although no handler is fair.
- `Loki`: weak fairness of a writer that waits for a slot, of the senders (an HTTP
  request ends, for the client has a timeout; retries are bounded) and of `Close`.
  Writing is not fair: the scan may end anywhere.

## Proofs

`ServeProofs` proves, for every set of objects, day length, lookback, lag and
bound, that `Spec` implies the type invariant, the four safety properties of
`serve_retention` and the refinement `ImplementsLedger`. They rest on one inductive
invariant `IInv` (in `Serve`, also checked by `serve_ledger`):

- `ObjectsCountedOnce` is not inductive: whether a commit counts a key twice depends
  on where the key was before. `Fresh` says that a key in hand (queued or read) was
  never committed; a listing keeps that because unseen keys under a listed day were
  never committed; and that is `Books`: a committed key is still seen, or its day lies
  more than a day before the next window.
- `Books` is where the retention is needed. A tick started at `u` lists days up to the
  one after `u`, so what it commits is filed at most at `Truncate(u) + Day`. The key is
  pruned by a tick started at `v > u + Lookback + 2 * Day`, hence its day lies a whole
  day before `v - Lookback`, and no later scope reaches back to it. One day of
  retention would not do: the object may be filed a day after the tick's start.
- `InHand` and `Listed` say what a key in hand has passed and that it is listed under
  one day of a tick; `Tally` turns counters into cardinalities; `Reported` relates the
  kept ticks to the records counted; `Covered` says that a tick without an error has
  every object it owes in hand, or its day is still to be listed, which at commit is
  `CaughtUp`.
- `RecordsOnce` assumes `~Streams`: for streamed objects it is false, see Findings.

The assumptions on the constants of `Serve` are `ServeAssumption`: the objects are a finite set,
the day and the lookback positive, the bounds natural numbers, and the unset time
is not a time.

`EngineProofs` is about the two machines of a run's scan, `Scan` and `Findings` (whose
specification is `DetectorSpec`, since both are extended). Of `Findings` it proves for every
number of workers and every cap, from `FindingsAssumption` (a worker and an event at least),
the type invariant `DetectorTypeOK`, `HitsAccounted`, `TopRetained`, `FailOnSeesAll` and `CacheSound`.

- `TopRetained` says nothing while a shard is half merged, so the invariant carries
  what is in hand along: `Good(d, r)` holds of a detector `d` and the findings `r` that
  it has counted but not decided on. From each severity upwards, `found` and `r` together
  number as many as `counts`, up to the cap.
- `CountGood`, `RetainGood` and `AbsorbGood` say that counting a hit puts it into `r`,
  that `retain` takes it out of `r`, and that absorbing a shard puts all it retained
  into `r`: what the shard dropped is no loss, since where it dropped it retained as many
  as the cap that are no less severe. `KeepGood` composes the first two.
- `RetainGood` needs the cache: a rejection by the cached minimum is one by the real
  minimum (`Cached`), and above it nothing changes.
- `CountsExact` is about a sum over the workers: the invariant says that there are partial sums
  of it (`AddsUp`), which a hit changes from its worker on and of which the merge reaches one
  after the other.

`ServerProofs` proves for every set of records and requests and every
number of ticks, from `ServerAssumption` (finite sets, requests that are not numbers, minutes
that are, positive bounds), all of `Server`'s safety properties.

- `ExitIsClean` needs to know where the loop can be when main has waited for it (`Ending`),
  and that what Loki answered for is committed unless the loop is just before its commit
  (`InHand`).
- `KeptUnchanged` rests on `OwnBuckets`: a report's timeline never holds a bucket of a tick,
  so that `MergeTick` writes to none.
- `ReportExact` needs more than the kept ticks, since a snapshot may hold ticks that were
  pruned since. `Past` says that every list of ticks names ticks that are over, each once, so
  none of them changes; `Disjoint` that no record is in two; `Reported` what a report half
  merged has added up. Its match list comes from lists that were cut before: `Enough`
  says that whatever is missing has as many records no later than itself as a cut keeps.
  A cut list is enough of its tick (`EarliestIsEnough`), enough of two sets is enough of both
  (`EnoughTogether`), and the earliest of enough are the earliest of all
  (`EarliestOfEnough`).
- `CountersExact` is kept by a commit because the new records are no tick's (`Disjoint`), and
  because the classes of some records number those that have one (`ClassesAddUp`).

Of `Scan`, `EngineProofs` proves, for every listing and any number of workers, all safety
properties and the refinement `ImplementsSweep`, from `ScanAssumption`: finite sets of workers
and prefixes, a worker at least on either side, and a listing that names a key once, under one
prefix (S3 lists keys in order, and prefixes of one scope differ).

- The argument is where a wanted key is: with a prefix not fed yet, ahead of a list worker,
  queued in `keyCh`, with a fetch worker, read, failed or missed (`Holds`). `Apart` says that
  no key is in two of these places, and with `NoRepeats` that it is in none twice; `Placed`
  that it is in one at least, unless the scan was cancelled. A step moves keys from one
  place to another (`MoveKeeps`) or drops them (`DropKeeps`).
- `Ends` says in which order the stages end. When all fetch workers are done and nobody
  cancelled, only the last three places are left (`NothingLeft`), and what failed or was
  missed was told (`Told`): that is `CleanIsComplete`, and the step of `Sweep`.

`LokiProofs` proves, for every number of writers, senders, attempts and lines, all of `Loki`'s
safety properties and `ImplementsDelivery`, from `LokiAssumption` (finitely many lines,
positive bounds).

- A written line is answered for, held by a writer, offered, in flight or pending in `Close`,
  unless the sink has failed (`NothingLost`). `Phases` says where lines can be in each phase, so
  that a `Close` that returns nil leaves only the first of these.
- `OldestFirst` needs that in event mode what is answered or in flight comes before all
  that is pending, and the pending batches one after the other (`InOrder`).
- That a sorted list of lines exists and is one is proved without induction: the place of a
  line is the number of lines before it plus one (`SortedFacts`); `SortedBatches` cuts it.

`OneShotProofs` proves, for every number of records, workers and severities and every size of a
buffer, all of `OneShot`'s safety properties and `MultiDelivers`, from `OneShotAssumption` and
`JsonlAssumption` (finitely many lines and writers; the line of a finding is that of no
record: a finding's has a rule and a severity).

- `Control`, `Closing` and `Ending` read off the place a command has reached what it has
  done, what it has closed with which result, and what its exit code says.
- A line written to the JSON Lines sink is in exactly one of a writer's buffer, the buffered
  file and the file, once, unless the file failed (`JsonlLines`); `TakesFacts` says that the
  buffered file loses none on the way, wherever it splits what it has.

`FlowsProofs` proves, for every set of flows, number of workers and bound of memory, all of
`Flows`' properties, from `FlowsAssumption`: finite sets, positive bounds, and no address is
called "(other)", since `netip.ParseAddr` accepts none that is (internal/flowlog/flowlog.go:235).

- `SeesPorts`, `HoldsPorts` and `SeesServices` relate a shard to the flows it visited: what it
  holds is in them, and of a source it holds all ports or as many as the rule asks for
  (`AllPorts`), or there was no place for the source. `Result` says the same of the result,
  together with what of the shard in hand is still to be folded in (`Ahead`).
- `Enough` is the argument of `Server`'s match lists: of whatever was trimmed, as many
  flows no later than it are kept as the table holds.
- `Totals` says that a counter and what is in hand add up to the flows merged, in one case by
  keys and in the other by services and the number dropped (`Counting`).
- The sums are a recursive function over sets. The library's induction theorems cannot be
  instantiated, so induction is stated for sets instead: a set of numbers that holds 0 and with
  `n` also `n + 1` holds all (`EveryNumber`, from the least number outside), and a set of
  subsets likewise (`EverySet`). `SumsExist` shows that a function with the recursion of `Sum`
  exists, `SumIs` that `Sum` is one; `SumAdd`, `SumTake`, `SumUnion`, `SumPlus` and the rest
  follow.

`TypedProofs` proves, for every log type, set of objects and options, number of workers and
bound, all of `Typed`'s properties: `LinesAccounted`, `ResultIsWhole` and `FindingsExact`. The
lemmas about summaries that do not depend on a run come first, in `SummaryProofs`. The
assumptions:

- `TypedAssumption`: finitely many objects, S3 holds one object under a key, the id of a line is
  its place, and positive bounds and thresholds (the flags are checked in
  cmd/ctaudit/waf.go:182 and s3.go:199, and `withDefaults` of each rule set replaces the others);
- `LogsAssumption`, what the services write: times are not negative, and of a load balancer or
  S3 request not the zero time, which the code reads as "not known"; a flow has no negative size;
  the lists of a web ACL record are lists;
- `VpcLimitsAssumption` and `AddressAssumption`: positive limits, and the empty text, which is no
  address, is neither public nor private.

`LinesAccounted` claims of a failing object no more than the code does: it is told of, or the
worker that took it had recorded `MaxErrs` errors before. A run with such an object always has an
error, and no error is about an object that is sound. `LinesAccounted` is about one invariant over
all runs:

- There is an assignment `by` of the objects taken to workers under
  which each worker has read and counted exactly the good lines of its objects, and has
  recorded all of them that fail or `MaxErrs` of them (`Recorded`, `Scanned`), and the
  result those of the shards merged so far (`AddedUp`). Who took what is no
  variable of `Typed`: `Fetch` extends the assignment (`Takes`), and at the end any of them
  covers all objects of the run.
- `VisitAllCounts` is the loop over the lines of an object: `visitAll` is a recursive function,
  which is shown to exist (`UpToExists`), and each line adds one to the numbers it counts for.
- Entries are as many as lines, since an entry keeps the id of its line in every format
  (`EntryIds`, `AsManyEntries`); a complete object is never broken, and one that is neither has
  no good line (`ReadFacts`).

`ResultIsWhole` says of some eighty parts of six summaries that spreading and merging lose
nothing. The argument:

- For each part there is a predicate of its value and a set of entries: `SumsAre`, `KeysAre`,
  `SpanIs`, `LatIs`, `CellIs`, `CapIs`, `DistinctIs`, `ServiceIs`... It holds of nothing at
  first, of one entry more after an addition, and of a union of disjoint sets after a merge. A map
  of parts by key (`KeyedBy`, `Having`) inherits all three from its parts. `TrailRep`, `ConnRep`,
  `ElbRep`, `WafRep`, `S3Rep` and `VpcRep` are whole summaries.
- A capped counter has no value that its entries determine, as it depends on the order which
  keys it folds. `CapIs` is what does not depend on it: the total is exact, a named key has no more
  than is its own, and all have exactly that where nothing was folded. `DistinctIs` is the same
  for sets of values, which hold all or, when full, nothing wrong. What a rule then reads off them (`CapTold`, `DistinctTold`) is right for every order.
- Go merges maps in any order. `capMerge` and the merges of trackers and services are sets of
  outcomes, and `EveryPick` combines one for each counter; the lemmas hold of each outcome
  and so of all combinations (`PicksOf`).
- Tables: `ListKept` says that the rows kept are the earliest of all, in the sense that whatever
  was cut has as many rows no later than itself as the table holds; CloudTrail keeps the
  first it meets (`FirstKept`).
- `RInv`: by some spread of the objects each shard is that of the lines of its worker
  (`SummedUp`), the result that of the shards merged (`MergedUp`), and a finished run that of all
  lines (`Whole`). `PartsAre` says this of all parts of a shard at once, so that each action
  is one step of the proof for all log types.
- Sums, counts and least times over sets of entries are proved with the induction over sets of
  `Flows`' proofs (`EveryNumber`, `EverySet`).

`FindingsExact` follows from the summary of a finished run:

- `WafHitsAre`: the summary of web ACL logs is exact, so the hits are those of the entries.
- `S3HitsTold`, `VpcHitsTold`: for capped counters, each hit names a key of its own and says no
  more than is true of it, and of what reached a threshold none is missing unless its
  counter folded keys. The changes of access in S3 logs are a trimmed list: it has the earliest.
- `CapKeeps`: what the cap keeps of any hits, and what it drops (`Kept`). That the hits are
  finitely many, on which its numbers rest, is part of `HitsTold`.

Every safety property of a passing run, and every refinement, is thus proved. Only model-checked
are the liveness properties (`RetriedUntilSeen`, `WindsDown`, `CloseReturns`, `Exits`), since
fairness and `ENABLED` are beyond the prover, and the three runs that expect a violation.

## Findings

1. `serve_list_error`. A list error makes a tick `partial`, and it commits.
   docs/kubernetes.md:38 and docs/prometheus-metrics.md:20 and :162 say it is
   `failed` and nothing is committed. Nothing is lost by that (`CaughtUp` and
   `RetriedUntilSeen` hold with it), but the alert on failed ticks stays silent.
2. `serve_lost_line`. The window of a tick ends at its start, but objects delivered
   later, while it still lists, are read too. A record at or after that end is
   filtered out and the key is marked as seen: the line is lost, where
   docs/kubernetes.md:32 says that lines are never lost.
3. `serve_streamed`. `readKeys` leaves out a streamed object that broke off although
   records of it were visited (comment at internal/engine/scan.go:56); serve counts
   them again on the next tick.

### Remarks

Read in the source while modelling, not shown by a run:

- The egress and legacy rules of flow logs read capped counters key by key and skip the other
  key, so a host folded into it gets no finding. internal/stats/vpc.go:320-322 leaves those
  counters out of `Truncated` because their totals stay exact, and so the report does not say
  that findings may be incomplete. `FindingsExact` therefore demands only that nothing is made
  up, and that nothing is hidden where nothing was folded.
- A load balancer request without a status is in no status class of `/metrics`, where the comment
  at cmd/ctaudit/observe.go:343 and docs/prometheus-metrics.md:44 count everything else under
  `other`. For S3 such requests are added to it. `CountersExact` states what the code does, for
  both; `Server.cfg` runs `s3`, whose counters have the extra term, since a second subcommand
  doubles the run, and the proof covers both.
- docs/kubernetes.md:56 has serve exit within ten seconds of SIGTERM. That bounds the handlers;
  `<-loopDone` waits for the tick in hand without a bound of its own, and the posts of a closing
  Loki sink do not listen to the cancelled context. `Exits` says that it ends, not when.
- The comment of `InWindow` in internal/flowlog/filter.go puts an entry without a start outside
  any bounded window; with only an end set it is inside, as the zero time is before any end.

## Not modelled

- Report rendering (`internal/report`): layout of HTML, PDF and terminal output, and the top
  lists, averages and shares derived from a summary for it. Formatting without state.
- The parsing of flags: `OneShot`, `Server` and `Typed` start with valid options. `StartFails` of
  `Server` covers options that are refused, but not `--help`, which exits with 0 before anything
  has begun.
- What Loki does with a batch that arrives twice, because an answer came after the timeout:
  `answered` is a set, so `ImplementsDelivery` sees that nothing is lost, and not that a line was
  sent again.
- The text level of the parsers: splitting lines, quotes, JSON, gzip, Parquet detection, CIDR
  and substring matching. Their outcomes are modelled. Where the code tests a prefix of a text
  (`REST.` of S3 operations, `TargetConnection` of load balancer error reasons) the model has a
  set of texts, or one, with that prefix.
- The AWS client and key formats: `ListPage` and `Get` return or fail.
- The rules over CloudTrail records: predicates over names of events, one record each. What
  becomes of their hits is `Findings`.
- The findings of a merged report, and counters that are plain sums (bytes, latencies).
- Metric names and labels; the text of a Pushgateway push.
- Memory effects: goroutines share only channels, mutexes and atomics; each access
  is one step.

## Plan

Done: the core (`Serve`, `Scan`, `Loki`, their abstract specifications), the findings detector,
the VPC run (`Flows`), the one-shot commands with their sinks (`OneShot`, `Jsonl`), the process
of serve with its shutdown, counters and reports (`Server`), the five typed runs with their
parsers, filters, summaries and rules (`Typed`), and a proof of every safety property that a
passing run checks. Next, in this order:

1. Compositions: `Serve` over `Sweep` and `Delivery` in place of its own actions.
2. The CloudTrail rules, as predicates of a record, on top of `TrailLog`.
3. What reports derive from a summary: top lists, shares, the timeline's gaps.
