------------------------------ MODULE OneShot -------------------------------
(***************************************************************************)
(* A one-shot command from its observer to its exit code                   *)
(* (cmd/ctaudit/cloudtrail.go and its like for elb, waf, s3 and vpc;       *)
(* observe.go; Multi in internal/sink/sink.go).                            *)
(*                                                                         *)
(* The scan's workers stream matching records to the sinks while it runs.  *)
(* Then come the reports, the findings, the end of the sinks, the push and *)
(* the exit code. Every return runs the deferred abort of the observer.    *)
(*                                                                         *)
(* The Loki sink is what Delivery promises, the scan what Sweep promises;  *)
(* the JSON Lines sink is that of Jsonl. A finding is its severity. The    *)
(* records are those that are emitted; vpc emits what --emit-flows says.    *)
(***************************************************************************)
EXTENDS Jsonl, FiniteSetsExt

CONSTANTS Record,       \* lines of matching records
          Severity,     \* severities
          FindingLine(_),  \* the line of a finding
          MaxFindings,  \* findings retained
          Worker, Main  \* the fetch workers, and the goroutine of the command

ASSUME OneShotAssumption ==
  /\ Line = Record \cup {FindingLine(s) : s \in Severity}
  /\ \A s \in Severity : FindingLine(s) \notin Record
  /\ Severity \subseteq Nat \ {0} /\ IsFiniteSet(Severity) /\ MaxFindings \in Nat \ {0}
  /\ JWriter = Worker \cup {Main} /\ Main \notin Worker

Commands == {"cloudtrail", "elb", "rules"}   \* "rules" are waf, s3 and vpc
Sinks == {"loki", "jsonl"}

VARIABLES
  cfg,       \* the command line
  pc,        \* where runCloudTrail is
  code,      \* the exit code to be returned
  unwritten, \* records the scan has not come to
  errors,    \* number of scan errors; hits, the findings of the rules
  hits,
  sinks,     \* the sinks of the observer; none before it is made
  todo,      \* findings of the result finish has still to write
  reports,   \* reports[f]: "none", "part" or "whole"
  lokiTaken, lokiAnswered, lokiOutcome,  \* the Loki sink, as in Delivery
  jsonlOutcome, \* what Close of the JSON Lines sink returned; "open" before
  closed,    \* closed of the observer
  toClose,   \* sinks multi.Close has still to close
  closes,    \* history: calls of Close for each sink
  sinkOutcome, \* what obs.sink.Close returned; "open" before
  gateway    \* what the Pushgateway was last told: "none", "run", "success"

scanVars == <<unwritten, errors, hits>>
lokiVars == <<lokiTaken, lokiAnswered, lokiOutcome>>
closeVars == <<sinks, jsonlOutcome, closed, toClose, closes, sinkOutcome>>
sinkVars == <<jsonlVars, lokiVars, closeVars>>
vars == <<cfg, pc, code, scanVars, todo, reports, sinkVars, gateway>>

Config == [command : Commands, sinks : SUBSET Sinks, asked : SUBSET {"html", "pdf"},
           push : BOOLEAN, failOn : Severity \cup {0}]   \* 0: --fail-on none

LokiSink == INSTANCE Delivery WITH taken <- lokiTaken, answered <- lokiAnswered,
                                   outcome <- lokiOutcome

\* The findings a result retains are the most severe ones.
Top(H) == CHOOSE R \in SUBSET H : /\ Cardinality(R) = Min({MaxFindings, Cardinality(H)})
                                  /\ \A x \in R, y \in H \ R : x > y
Retained == Top(hits)
Lines(H) == {FindingLine(s) : s \in H}
-----------------------------------------------------------------------------
Init == /\ cfg \in {c \in Config : c.command = "elb" => c.failOn = 0}
        /\ pc = "setup" /\ code = 0
        /\ unwritten = Record /\ errors = 0 /\ hits = {} /\ todo = {}
        /\ reports = [f \in {"html", "pdf"} |-> "none"]
        /\ InitJsonl
        /\ lokiTaken = {} /\ lokiAnswered = {} /\ lokiOutcome = "open"
        /\ sinks = {} /\ jsonlOutcome = "open" /\ closed = FALSE /\ toClose = {}
        /\ closes = [s \in Sinks |-> 0]
        /\ sinkOutcome = "open"
        /\ gateway = "none"

Goto(l) == pc' = l /\ UNCHANGED <<cfg, code>>
\* return: the deferred abort comes next.
Return(c) == pc' = "abort" /\ code' = c /\ UNCHANGED cfg

\* newObserver, before abort is deferred: it fails with nothing to close.
NewObserver == /\ pc = "setup"
               /\ \/ Goto("store") /\ sinks' = cfg.sinks
                  \/ pc' = "exit" /\ code' = 2 /\ UNCHANGED <<cfg, sinks>>
               /\ UNCHANGED <<scanVars, todo, reports, jsonlVars, lokiVars, jsonlOutcome, closed, toClose,
                              closes, sinkOutcome, gateway>>

NewStore == /\ pc = "store"
            /\ Goto("scan") \/ Return(2)
            /\ UNCHANGED <<scanVars, todo, reports, sinkVars, gateway>>

\* multiWriter.Write: to every sink.
WriteLine(w, l) ==
  /\ lokiTaken' = IF "loki" \in sinks THEN lokiTaken \cup {l} ELSE lokiTaken
  /\ IF "jsonl" \in sinks THEN WriteJsonl(w, l) ELSE UNCHANGED jsonlVars
  /\ UNCHANGED <<lokiAnswered, lokiOutcome, closeVars>>

\* Emit, in a fetch worker.
Emit(w, l) == /\ pc = "scan" /\ l \in unwritten
              /\ unwritten' = unwritten \ {l}
              /\ WriteLine(w, l)
              /\ UNCHANGED <<cfg, pc, code, errors, hits, todo, reports, gateway>>

\* Loki's answers while the sink is open.
LokiAnswers == /\ LokiSink!Answer
               /\ UNCHANGED <<cfg, pc, code, scanVars, todo, reports, jsonlVars, closeVars, gateway>>

\* The scan returns: without an error only if it has read all. elb has no rules.
ScanReturns == /\ pc = "scan"
               /\ errors' \in {0, 1} /\ (errors' = 0 => unwritten = {})
               /\ hits' \in IF cfg.command = "elb" THEN {{}} ELSE SUBSET Severity
               /\ todo' = Lines(Top(hits'))
               /\ Goto("terminal")
               /\ UNCHANGED <<unwritten, reports, sinkVars, gateway>>

\* It fails: cancelled, nothing to scan, the wrong layout.
ScanFails == /\ pc = "scan" /\ Return(2)
             /\ UNCHANGED <<scanVars, todo, reports, sinkVars, gateway>>

Terminal == /\ pc = "terminal"
            /\ Goto("html") \/ Return(2)
            /\ UNCHANGED <<scanVars, todo, reports, sinkVars, gateway>>

\* writeFile, if the report was asked for.
WriteReport(f, then) ==
  /\ pc = f
  /\ \/ f \notin cfg.asked /\ Goto(then) /\ UNCHANGED reports
     \/ f \in cfg.asked /\ Goto(then) /\ reports' = [reports EXCEPT ![f] = "whole"]
     \/ f \in cfg.asked /\ Return(2) /\ \E r \in {"none", "part"} : reports' = [reports EXCEPT ![f] = r]
  /\ UNCHANGED <<scanVars, todo, sinkVars, gateway>>

\* finish: the findings, then Close. Without sinks there is neither.
WriteFinding(l) == /\ pc = "finish" /\ sinks # {} /\ l \in todo
                   /\ todo' = todo \ {l}
                   /\ WriteLine(Main, l)
                   /\ UNCHANGED <<cfg, pc, code, scanVars, reports, gateway>>

BeginClose == /\ pc = "finish" /\ (sinks = {} \/ todo = {})
              /\ IF sinks = {} THEN Goto("push") /\ UNCHANGED <<closed, toClose>>
                               ELSE Goto("close") /\ closed' = TRUE /\ toClose' = sinks
              /\ UNCHANGED <<scanVars, todo, reports, jsonlVars, lokiVars, sinks, jsonlOutcome, closes,
                             sinkOutcome, gateway>>

\* multi.Close: each sink in turn, whatever the others returned.
Closes(s) == /\ s \in toClose
             /\ toClose' = toClose \ {s}
             /\ closes' = [closes EXCEPT ![s] = @ + 1]
             /\ UNCHANGED <<cfg, pc, code, scanVars, todo, reports, sinks, closed, sinkOutcome, gateway>>

CloseLokiSink == /\ Closes("loki") /\ LokiSink!Close
                 /\ UNCHANGED <<jsonlVars, jsonlOutcome>>

FlushJsonl(w) == /\ "jsonl" \in toClose /\ "loki" \notin toClose
                 /\ FlushWriter(w)
                 /\ UNCHANGED <<cfg, pc, code, scanVars, todo, reports, lokiVars, closeVars, gateway>>

CloseJsonlSink == /\ Closes("jsonl") /\ "loki" \notin toClose
                  /\ CloseFile
                  /\ jsonlOutcome' = IF jerr' THEN "error" ELSE "nil"
                  /\ UNCHANGED lokiVars

\* The errors are joined. (A wrong variant: the last one is returned.)
LastError == IF "jsonl" \in sinks THEN jsonlOutcome ELSE lokiOutcome
Joined == IF "error" \in {lokiOutcome, jsonlOutcome} THEN "error" ELSE "nil"

EndClose == /\ pc \in {"close", "aborting"} /\ toClose = {}
            /\ sinkOutcome' = Joined
            /\ Goto(IF pc = "close" THEN "push" ELSE "exit")
            /\ UNCHANGED <<scanVars, todo, reports, jsonlVars, lokiVars, sinks, jsonlOutcome, closed,
                           toClose, closes, gateway>>

\* The metrics. The success time is among them only if nothing failed. (A wrong
\* variant: only the scan is looked at.) The push itself may fail, stored or not.
SinkOK == sinkOutcome # "error"
SuccessfulScan == errors = 0
Successful == errors = 0 /\ SinkOK

Push == /\ pc = "push"
        /\ \/ ~cfg.push /\ UNCHANGED gateway /\ (IF SinkOK THEN Goto("verdict") ELSE Return(2))
           \/ /\ cfg.push
              /\ gateway' = IF Successful THEN "success" ELSE "run"
              /\ IF SinkOK THEN Goto("verdict") ELSE Return(2)
           \/ cfg.push /\ Return(2) /\ gateway' \in {gateway, IF Successful THEN "success" ELSE "run"}
        /\ UNCHANGED <<scanVars, todo, reports, sinkVars>>

\* shouldFailOn, and MaxSeverity of the rules for waf, s3 and vpc.
Gate == cfg.failOn > 0 /\ hits # {} /\
          Max(IF cfg.command = "cloudtrail" THEN hits ELSE Retained) >= cfg.failOn

\* The exit code: a partial scan outweighs findings. (A wrong variant: findings
\* come first.)
ExitCodeGateFirst == IF Gate THEN 1 ELSE IF errors > 0 THEN 2 ELSE 0
ExitCode == IF errors > 0 THEN 2 ELSE IF Gate THEN 1 ELSE 0

Verdict == /\ pc = "verdict"
           /\ Return(ExitCode)
           /\ UNCHANGED <<scanVars, todo, reports, sinkVars, gateway>>

\* The deferred abort: it closes the sinks if finish did not. (A wrong variant:
\* it does not look.)
StillOpenAlways == TRUE
StillOpen == ~closed

Abort == /\ pc = "abort"
         /\ IF sinks # {} /\ StillOpen
            THEN /\ Goto("aborting") /\ closed' = TRUE /\ toClose' = sinks
                 /\ UNCHANGED <<jsonlVars, lokiVars, sinks, jsonlOutcome, closes, sinkOutcome>>
            ELSE Goto("exit") /\ UNCHANGED sinkVars
         /\ UNCHANGED <<scanVars, todo, reports, gateway>>

Exited == pc = "exit"
Stop == Exited /\ UNCHANGED vars
-----------------------------------------------------------------------------
Next == \/ NewObserver \/ NewStore \/ ScanReturns \/ ScanFails \/ Terminal
        \/ \E w \in Worker, l \in Record : Emit(w, l)
        \/ LokiAnswers
        \/ WriteReport("html", "pdf") \/ WriteReport("pdf", "finish")
        \/ \E l \in Line : WriteFinding(l)
        \/ BeginClose \/ CloseLokiSink \/ CloseJsonlSink \/ EndClose
        \/ \E w \in JWriter : FlushJsonl(w)
        \/ Push \/ Verdict \/ Abort \/ Stop

Spec == Init /\ [][Next]_vars
-----------------------------------------------------------------------------
\* All that was asked for is there: every record read, whole reports, and every
\* line of a record or a retained finding in every sink, in the file once.
Wanted == Record \cup Lines(Retained)
Complete == /\ errors = 0 /\ unwritten = {}
            /\ \A f \in cfg.asked : reports[f] = "whole"
            /\ "loki" \in cfg.sinks => Wanted \subseteq lokiAnswered
            /\ "jsonl" \in cfg.sinks => ToSet(file) = Wanted /\ IsInjective(file)

\* A run that does not exit with 2 has done everything, whatever failed on the
\* way, and the Pushgateway knows it for a success. It exits with 1 if and only if a
\* rule found something at or above --fail-on, also if that finding was not retained.
CompleteUnlessFailed ==
  Exited /\ code # 2 => /\ Complete /\ (cfg.push => gateway = "success")
                        /\ code = 1 <=> \E s \in hits : cfg.failOn > 0 /\ s >= cfg.failOn

\* The success time is never pushed for a run that left something out.
SuccessIsComplete == gateway = "success" => Complete

\* Every sink that was made is closed before the exit, once, on every path.
ClosedOnce == \A s \in Sinks : /\ closes[s] <= 1
                               /\ Exited /\ s \in sinks => closes[s] = 1

\* The sinks together promise what each does: Close returns nil only if every
\* line is in all of them.
Written == IF sinks = {} THEN {} ELSE (Record \ unwritten) \cup (Lines(Retained) \ todo)
InAll == {l \in Written : /\ "loki" \in sinks => l \in lokiAnswered
                          /\ "jsonl" \in sinks => l \in ToSet(file)}
MultiOf == INSTANCE Delivery WITH taken <- Written, answered <- InAll, outcome <- sinkOutcome
MultiDelivers == MultiOf!Spec
=============================================================================
