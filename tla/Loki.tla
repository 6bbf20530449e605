-------------------------------- MODULE Loki --------------------------------
(***************************************************************************)
(* The Loki sink (internal/sink/loki.go) and the retries of its HTTP posts *)
(* (internal/sink/http.go).                                                *)
(*                                                                         *)
(* Each fetch worker writes to a writer of its own. In scan mode a full    *)
(* batch goes to a sender at once, and the writer waits while all senders  *)
(* are busy; in event mode every line is held until Close, which sorts     *)
(* each stream and sends it oldest first. Close sends what is left, waits  *)
(* for the senders and returns the first error.                            *)
(*                                                                         *)
(* A line is its stream and its time. Only the number of lines bounds a    *)
(* batch; the size in bytes works the same way.                            *)
(***************************************************************************)
EXTENDS Integers, Sequences, FiniteSets

CONSTANTS Line,          \* the lines <<stream, time>> that may be written
          Writers,       \* number of writers; they are 1 .. Writers
          CfgSenders, BatchLines, Attempts, MaxLines   \* LokiConfig

ASSUME LokiAssumption ==
  /\ Line \subseteq Nat \X Nat /\ IsFiniteSet(Line)
  /\ {Writers, CfgSenders, BatchLines, Attempts, MaxLines} \subseteq Nat \ {0}

VARIABLES
  eventTime,  \* --loki-time event, set once at the start
  unwritten,  \* lines the scan has not come to yet
  buf,        \* buf[w]: the lines writer w holds
  offered,    \* offered[w]: the batch w waits to hand over in send
  sends,      \* senders in flight: their batch, attempt and stage; each has a slot
  buffered,   \* lines ever buffered in event mode
  failed,     \* the failed flag
  err,        \* err is set
  rejected,   \* pushes refused in part for the age of entries
  pending,    \* what Close has still to send: a writer's lines or a batch each
  phase,      \* "open", "closing" (Close sends), "closed"
  outcome,    \* what Close returned: "open" before, then "nil" or "error"
  answered    \* lines Loki stored, or refused for their age

writerVars == <<eventTime, unwritten, buf, offered, buffered>>
closeVars == <<pending, phase, outcome>>
vars == <<writerVars, sends, failed, err, rejected, closeVars, answered>>

Writer == 1 .. Writers
Elems(s) == {s[i] : i \in DOMAIN s}
Written == Line \ unwritten

\* NewLoki: event mode sends one batch at a time. (A wrong variant: it does not.)
SendersCfg == CfgSenders
Senders == IF eventTime THEN 1 ELSE CfgSenders
-----------------------------------------------------------------------------
Init == /\ eventTime \in BOOLEAN
        /\ unwritten = Line
        /\ buf = [w \in Writer |-> <<>>] /\ offered = [w \in Writer |-> <<>>]
        /\ sends = {} /\ buffered = 0
        /\ failed = FALSE /\ err = FALSE /\ rejected = 0
        /\ pending = <<>> /\ phase = "open" /\ outcome = "open"
        /\ answered = {}

Fail == failed' = TRUE /\ err' = TRUE

\* A writer is in its goroutine's hands, not waiting in send.
MayWrite(w, l) == phase = "open" /\ offered[w] = <<>> /\ l \in unwritten

\* Write once the sink has failed: the line is dropped.
WriteDropped(w, l) == /\ MayWrite(w, l) /\ failed
                      /\ unwritten' = unwritten \ {l}
                      /\ UNCHANGED <<eventTime, buf, offered, buffered, sends, failed, err, rejected,
                                     closeVars, answered>>

\* Write in event mode: the line is held, up to MaxLines over all writers.
\* (A wrong variant: each writer counts its own.)
RoomOwn(w) == Len(buf[w]) < MaxLines
Room(w) == buffered < MaxLines

WriteEvent(w, l) == /\ MayWrite(w, l) /\ ~failed /\ eventTime
                    /\ unwritten' = unwritten \ {l}
                    /\ buffered' = buffered + 1
                    /\ IF Room(w)
                       THEN buf' = [buf EXCEPT ![w] = Append(@, l)] /\ UNCHANGED <<failed, err>>
                       ELSE buf' = [buf EXCEPT ![w] = <<>>] /\ Fail
                    /\ UNCHANGED <<eventTime, offered, sends, rejected, closeVars, answered>>

\* Write in scan mode: a full batch is offered to a sender.
WriteScan(w, l) ==
  /\ MayWrite(w, l) /\ ~failed /\ ~eventTime
  /\ unwritten' = unwritten \ {l}
  /\ LET b == Append(buf[w], l) IN
       IF Len(b) >= BatchLines
       THEN buf' = [buf EXCEPT ![w] = <<>>] /\ offered' = [offered EXCEPT ![w] = b]
       ELSE buf' = [buf EXCEPT ![w] = b] /\ UNCHANGED offered
  /\ UNCHANGED <<eventTime, buffered, sends, failed, err, rejected, closeVars, answered>>

Sending(b, n, pc) == [batch |-> b, try |-> n, pc |-> pc]
\* A slot per batch in flight.
FreeSlot == Cardinality(sends) < Senders

\* send: the batch gets a slot and a goroutine.
Send(w) == /\ offered[w] # <<>> /\ FreeSlot
           /\ sends' = sends \cup {Sending(offered[w], 1, "start")}
           /\ offered' = [offered EXCEPT ![w] = <<>>]
           /\ UNCHANGED <<eventTime, unwritten, buf, buffered, failed, err, rejected, closeVars,
                          answered>>

\* The goroutine of send: it leaves if the sink has failed, else it posts. (A
\* wrong variant: it does not look.)
StartAnyway(s) == /\ s.pc = "start"
                  /\ sends' = (sends \ {s}) \cup {Sending(s.batch, 1, "post")}
                  /\ UNCHANGED <<writerVars, failed, err, rejected, closeVars, answered>>

Start(s) == /\ s.pc = "start"
            /\ sends' = (sends \ {s}) \cup (IF failed THEN {} ELSE {Sending(s.batch, 1, "post")})
            /\ UNCHANGED <<writerVars, failed, err, rejected, closeVars, answered>>

\* Loki stores the batch and says so.
PostOK(s) == /\ s.pc = "post"
             /\ answered' = answered \cup Elems(s.batch)
             /\ sends' = sends \ {s}
             /\ UNCHANGED <<writerVars, failed, err, rejected, closeVars>>

\* An attempt ends with an error that is worth another: a network error, 429
\* or 5xx. Loki may have stored the batch all the same. The last attempt fails
\* the sink. (Wrong variants: a batch is given up without failing the sink, a
\* goroutine that gives up keeps its slot.)
PostRetriesSilent(s, stored) ==
  /\ s.pc = "post"
  /\ answered' = IF stored THEN answered \cup Elems(s.batch) ELSE answered
  /\ sends' = (sends \ {s}) \cup
                (IF s.try < Attempts THEN {Sending(s.batch, s.try + 1, "post")} ELSE {})
  /\ UNCHANGED <<writerVars, failed, err, rejected, closeVars>>

PostRetriesKeepsSlot(s, stored) ==
  /\ s.pc = "post"
  /\ answered' = IF stored THEN answered \cup Elems(s.batch) ELSE answered
  /\ IF s.try < Attempts
     THEN sends' = (sends \ {s}) \cup {Sending(s.batch, s.try + 1, "post")} /\ UNCHANGED <<failed, err>>
     ELSE sends' = (sends \ {s}) \cup {Sending(s.batch, s.try, "gone")} /\ Fail
  /\ UNCHANGED <<writerVars, rejected, closeVars>>

PostRetries(s, stored) ==
  /\ s.pc = "post"
  /\ answered' = IF stored THEN answered \cup Elems(s.batch) ELSE answered
  /\ IF s.try < Attempts
     THEN sends' = (sends \ {s}) \cup {Sending(s.batch, s.try + 1, "post")} /\ UNCHANGED <<failed, err>>
     ELSE sends' = sends \ {s} /\ Fail
  /\ UNCHANGED <<writerVars, rejected, closeVars>>

\* Another 4xx: the request itself is wrong, at once.
PostRefused(s) == /\ s.pc = "post"
                  /\ sends' = sends \ {s}
                  /\ Fail
                  /\ UNCHANGED <<writerVars, rejected, closeVars, answered>>

\* A 400 for the age of some entries: Loki answered for every line, and event
\* mode counts the push and goes on, scan mode fails.
PostTooOld(s) == /\ s.pc = "post"
                 /\ answered' = answered \cup Elems(s.batch)
                 /\ sends' = sends \ {s}
                 /\ IF eventTime THEN rejected' = rejected + 1 /\ UNCHANGED <<failed, err>>
                                 ELSE Fail /\ UNCHANGED rejected
                 /\ UNCHANGED <<writerVars, closeVars>>

\* pushSorted: the streams one after the other, each oldest first, in batches.
Before(x, y) == x[1] < y[1] \/ (x[1] = y[1] /\ x[2] < y[2])
Sorted(S) == CHOOSE s \in [1 .. Cardinality(S) -> S] :
               \A i, j \in DOMAIN s : i < j => Before(s[i], s[j])
Batches(s) == [n \in 1 .. ((Len(s) + BatchLines - 1) \div BatchLines) |->
                 SubSeq(s, (n - 1) * BatchLines + 1,
                        IF n * BatchLines < Len(s) THEN n * BatchLines ELSE Len(s))]

\* Close: the scan is over, so no writer is in send.
BeginClose ==
  /\ phase = "open" /\ \A w \in Writer : offered[w] = <<>>
  /\ phase' = "closing"
  /\ pending' = IF eventTime
                THEN IF failed THEN <<>> ELSE Batches(Sorted(UNION {Elems(buf[w]) : w \in Writer}))
                ELSE buf
  /\ buf' = [w \in Writer |-> <<>>]
  /\ UNCHANGED <<eventTime, unwritten, offered, buffered, sends, failed, err, rejected, outcome,
                 answered>>

\* Close in flush and send: a writer that holds nothing has nothing to send, and
\* a batch is dropped if the sink has failed; else it waits for a slot.
CloseSend == /\ phase = "closing" /\ pending # <<>>
             /\ pending' = Tail(pending)
             /\ IF failed \/ Head(pending) = <<>>
                THEN UNCHANGED sends
                ELSE FreeSlot /\ sends' = sends \cup {Sending(Head(pending), 1, "start")}
             /\ UNCHANGED <<writerVars, failed, err, rejected, phase, outcome, answered>>

\* wg.Wait, and the first error. (A wrong variant: nobody waits.)
NoWait == TRUE
SendersOut == sends = {}

EndClose == /\ phase = "closing" /\ pending = <<>> /\ SendersOut
            /\ phase' = "closed"
            /\ outcome' = IF err THEN "error" ELSE "nil"
            /\ UNCHANGED <<writerVars, sends, failed, err, rejected, pending, answered>>
-----------------------------------------------------------------------------
WriteStep == \E w \in Writer, l \in unwritten :
               WriteDropped(w, l) \/ WriteEvent(w, l) \/ WriteScan(w, l)
SendStep == \E s \in sends : \/ Start(s) \/ PostOK(s) \/ PostRefused(s) \/ PostTooOld(s)
                             \/ \E stored \in BOOLEAN : PostRetries(s, stored)
CloseStep == BeginClose \/ CloseSend \/ EndClose
Stop == phase = "closed" /\ UNCHANGED vars

Next == WriteStep \/ (\E w \in Writer : Send(w)) \/ SendStep \/ CloseStep \/ Stop

Spec == Init /\ [][Next]_vars

\* A goroutine that can go on goes on, an HTTP request ends (the client has a
\* timeout), and the scan comes to its end.
FairSpec == /\ Spec
            /\ WF_vars(\E w \in Writer : Send(w)) /\ WF_vars(SendStep) /\ WF_vars(CloseStep)
-----------------------------------------------------------------------------
Batch == UNION {[1 .. n -> Line] : n \in 1 .. BatchLines}

TypeOK ==
  /\ eventTime \in BOOLEAN /\ unwritten \subseteq Line
  /\ buf \in [Writer -> Seq(Line)] /\ offered \in [Writer -> Batch \cup {<<>>}]
  /\ buffered \in Nat /\ rejected \in Nat
  /\ sends \subseteq [batch : Batch, try : 1 .. Attempts, pc : {"start", "post"}]
  /\ Cardinality(sends) <= Senders
  /\ failed \in BOOLEAN /\ err \in BOOLEAN
  /\ pending \in Seq(Batch \cup {<<>>})
  /\ phase \in {"open", "closing", "closed"} /\ outcome \in {"open", "nil", "error"}
  /\ answered \subseteq Line
  /\ eventTime => Cardinality(UNION {Elems(buf[w]) : w \in Writer}) <= MaxLines

\* Loki takes a stream's lines in order only: in event mode, when it has
\* answered for a line, it has for every older line of the stream that was
\* written, through retries and failures.
OldestFirst == eventTime => \A x \in Written, y \in answered :
                              x[1] = y[1] /\ x[2] < y[2] => x \in answered

\* After a failure no line is on its way to Loki for longer than one post: no
\* batch is posted that was not being posted already.
FailedStops == [][failed => \A s \in sends' : s.pc = "post" =>
                                \E t \in sends : t.pc = "post" /\ t.batch = s.batch]_vars

\* Close returns, and a writer that waits for a sender gets one.
CloseReturns == (phase = "open") ~> (phase = "closed")

\* The abstract specification.
DeliveryOf == INSTANCE Delivery WITH taken <- Written
ImplementsDelivery == DeliveryOf!Spec
=============================================================================
