---------------------------- MODULE ServerProofs ----------------------------
(***************************************************************************)
(* Theorems about Server, for every set of records, requests and ticks:    *)
(* what the committed ticks hold survives the reports, the process ends    *)
(* cleanly, and reports and counters are exact.                            *)
(***************************************************************************)
EXTENDS Server, FiniteSetTheorems, TLAPS

TypeOK ==
  /\ sub \in Subcommand
  /\ main \in {"starting", "serving", "stopping", "waiting", "exited"}
  /\ signalled \in BOOLEAN /\ httpErr \in BOOLEAN /\ late \in BOOLEAN /\ pending \in BOOLEAN
  /\ code \in {0, 2}
  /\ loop \in {"off", "scan", "finish", "abort", "fail", "commit", "prune", "wait", "gone"}
  /\ begun \in 0 .. MaxTicks
  /\ found \in SUBSET Record /\ answered \in SUBSET Record
  /\ matches \in [Owner -> SUBSET Record]
  /\ ticks \in Seq(Tick)
  /\ totals \in [matched : Nat, class : [StatusClasses -> Nat]]
  /\ recs \in [Tick -> SUBSET Record]
  /\ bucket \in [Owner -> [Minute -> Nat]]
  /\ line \in [Request -> [Minute -> {None} \cup Request]]
  /\ handler \in [Request -> {"none", "unavailable", "merging", "writing", "done", "killed"}]
  /\ view \in [Request -> Seq(Tick)]
  /\ at \in [Request -> Nat]

\* The tick in hand is one of the ticks, a report merges from index 1 on.
Counted == /\ loop = "off" => begun = 0 /\ ~pending
           /\ loop # "off" => begun \in Tick
           /\ pending => begun < MaxTicks
           /\ \A r \in Request : handler[r] = "merging" => at[r] \in Nat \ {0}

\* Ticks that have not committed hold nothing. What Loki answered for is
\* committed, or is in the hands of a loop that is about to commit it.
InHand == /\ \A t \in Tick : t > begun => recs[t] = {}
          /\ loop \in {"scan", "finish", "abort", "fail", "commit"} => recs[begun] = {}
          /\ answered \subseteq Committed \cup (IF loop = "commit" THEN found ELSE {})

\* How far the shutdown has come.
Ending == /\ main = "starting" => loop = "off"
          /\ main = "exited" => loop \in {"off", "gone"}
          /\ main = "waiting" => late \/ Drained
          /\ \A r \in Request : handler[r] = "killed" => main = "exited" /\ late
          /\ main \in {"stopping", "waiting", "exited"} /\ code = 0 => signalled

\* A report puts its own buckets into its timeline, never those of a tick.
OwnBuckets == \A r \in Request : \A m \in Minute : line[r][m] \in {None, r}

IInv == /\ TypeOK /\ Counted
        /\ InHand /\ Ending
        /\ OwnBuckets /\ KeptUnchanged
-----------------------------------------------------------------------------
\* Sets of records are finite, and so are their counts.
LEMMA Counts ==
  ASSUME NEW S \in SUBSET Record
  PROVE  /\ Cardinality(S) \in Nat
         /\ \A m \in Minute : Cardinality(AtMinute(S, m)) \in Nat
         /\ \A c \in StatusClasses : ByStatus(S, c) \in Nat
         /\ Cardinality({x \in S : x.status = ""}) \in Nat
<1>1. \A T \in SUBSET Record : Cardinality(T) \in Nat
  BY FS_Subset, FS_CardinalityType, ServerAssumption
<1>2. \A m : AtMinute(S, m) \in SUBSET Record
  BY DEF AtMinute
<1>3. \A c : {x \in S : x.status # "" /\ Class(x.status) = c} \in SUBSET Record
  OBVIOUS
<1> QED
  BY <1>1, <1>2, <1>3 DEF ByStatus

\* Adding a tick to the counters leaves them counters.
LEMMA AddType ==
  ASSUME NEW tot \in [matched : Nat, class : [StatusClasses -> Nat]], NEW S \in SUBSET Record
  PROVE  Add(tot, S) \in [matched : Nat, class : [StatusClasses -> Nat]]
<1> DEFINE n == Cardinality({x \in S : x.status = ""})
           new == [c \in StatusClasses |-> tot.class[c] + ByStatus(S, c)
                                             + IF sub = "s3" /\ c = "other" THEN n ELSE 0]
<1>1. n \in Nat /\ Cardinality(S) \in Nat /\ \A c \in StatusClasses : ByStatus(S, c) \in Nat
  BY Counts
<1>2. new \in [StatusClasses -> Nat]
  <2> HIDE DEF n
  <2> QED  BY <1>1
<1>3. tot.matched + Cardinality(S) \in Nat
  <2> HIDE DEF n, new
  <2> QED  BY <1>1
<1>4. Add(tot, S) = [matched |-> tot.matched + Cardinality(S), class |-> new]
  BY DEF Add
<1> QED
  <2> HIDE DEF new
  <2> QED  BY <1>2, <1>3, <1>4

\* No request is a tick, and none is the mark of an absent bucket.
LEMMA RequestsApart ==
  /\ Tick \subseteq Nat /\ None \notin Tick /\ Request \cap Tick = {} /\ None \notin Request
  /\ Tick \subseteq Owner /\ Request \subseteq Owner
  BY ServerAssumption DEF Tick, None, Owner

LEMMA Start0 == Init => IInv
<1> SUFFICES ASSUME Init PROVE IInv
  OBVIOUS
<1>1. ticks \in Seq(Tick) /\ begun \in 0 .. MaxTicks /\ view \in [Request -> Seq(Tick)]
  BY ServerAssumption DEF Init
<1>2. totals \in [matched : Nat, class : [StatusClasses -> Nat]]
  BY DEF Init
<1>3. TypeOK
  BY <1>1, <1>2 DEF Init, TypeOK
<1>4. Counted /\ Ending
  BY DEF Init, Counted, Ending
<1>5. InHand
  BY DEF Init, InHand, Committed
<1>6. OwnBuckets
  BY DEF Init, OwnBuckets, None
<1>7. KeptUnchanged
  BY DEF Init, KeptUnchanged
<1> QED
  BY <1>3, <1>4, <1>5, <1>6, <1>7 DEF IInv
-----------------------------------------------------------------------------
\* What a step of main, of the ticker or of the outside leaves alone.
LEMMA TicksStand ==
  ASSUME IInv, UNCHANGED <<stateVars, bucket, line>>
  PROVE  OwnBuckets' /\ KeptUnchanged'
  BY DEF IInv, OwnBuckets, KeptUnchanged, stateVars

\* Steps of main, signals, the listener, the clocks.
LEMMA MainKeeps ==
  ASSUME IInv, MainStep \/ Signal \/ HttpFails \/ GraceEnds \/ Fire
  PROVE  IInv'
<1> USE DEF IInv, mainVars, loopVars, stateVars, reportVars
<1>1. UNCHANGED <<stateVars, bucket, line>>
  BY DEF MainStep, StartFails, Start, Stop, ShutdownReturns, Exit, Signal, HttpFails, GraceEnds, Fire
<1>2. OwnBuckets' /\ KeptUnchanged'
  BY <1>1, TicksStand
<1>3. CASE StartFails
  BY <1>2, <1>3 DEF StartFails, TypeOK, Counted, InHand, Ending, Committed
<1>4. CASE Start
  <2>1. 1 \in Tick
    BY ServerAssumption DEF Tick
  <2>2. TypeOK' /\ Counted' /\ Ending'
    BY <1>4, <2>1 DEF Start, TypeOK, Counted, Ending, Tick
  <2>3. begun = 0 /\ loop = "off"
    BY <1>4 DEF Start, Ending, Counted
  <2>4. InHand'
    BY <1>4, <2>1, <2>3 DEF Start, InHand, Committed, Tick
  <2> QED  BY <1>2, <2>2, <2>4
<1>5. CASE Stop
  BY <1>2, <1>5 DEF Stop, TypeOK, Counted, InHand, Ending, Committed
<1>6. CASE ShutdownReturns
  BY <1>2, <1>6 DEF ShutdownReturns, TypeOK, Counted, InHand, Ending, Committed, Drained
<1>7. CASE Exit
  <2>1. TypeOK' /\ Counted' /\ InHand'
    BY <1>7 DEF Exit, TypeOK, Counted, InHand, Committed
  <2>2. \A r \in Request : handler'[r] = "killed" => late'
    BY <1>7 DEF Exit, TypeOK, Ending, Drained
  <2>3. Ending'
    BY <1>7, <2>2 DEF Exit, Ending, LoopDone
  <2> QED  BY <1>2, <2>1, <2>3
<1>8. CASE Signal
  BY <1>2, <1>8 DEF Signal, TypeOK, Counted, InHand, Ending, Committed, Drained
<1>9. CASE HttpFails
  BY <1>2, <1>9 DEF HttpFails, TypeOK, Counted, InHand, Ending, Committed
<1>10. CASE GraceEnds
  BY <1>2, <1>10 DEF GraceEnds, TypeOK, Counted, InHand, Ending, Committed
<1>11. CASE Fire
  BY <1>2, <1>11 DEF Fire, TypeOK, Counted, InHand, Ending, Committed, Drained
<1> QED
  BY <1>3, <1>4, <1>5, <1>6, <1>7, <1>8, <1>9, <1>10, <1>11 DEF MainStep

-----------------------------------------------------------------------------
\* What a step of the loop that commits nothing leaves alone.
LEMMA LoopStands ==
  ASSUME IInv, UNCHANGED <<recs, bucket, line, ticks>>
  PROVE  OwnBuckets' /\ KeptUnchanged'
  BY DEF IInv, OwnBuckets, KeptUnchanged

\* A tick commits: its records and its buckets become known together.
LEMMA CommitKeeps ==
  ASSUME IInv, Commit
  PROVE  IInv'
<1> USE DEF IInv, Commit, Running, Go, mainVars, reportVars
<1>1. begun \in Tick /\ Tick \subseteq Owner
  BY RequestsApart DEF Counted
<1>2. found \in SUBSET Record
  BY DEF TypeOK
<1>3. bucket' \in [Owner -> [Minute -> Nat]]
  <2>1. [m \in Minute |-> Cardinality(AtMinute(found, m))] \in [Minute -> Nat]
    BY <1>2, Counts
  <2>2. bucket \in [Owner -> [Minute -> Nat]]
    BY DEF TypeOK
  <2> QED  BY <1>1, <2>1, <2>2
<1>4. totals' \in [matched : Nat, class : [StatusClasses -> Nat]]
  BY <1>2, AddType DEF TypeOK
<1>5. recs \in [Tick -> SUBSET Record] /\ recs' \in [Tick -> SUBSET Record]
  BY <1>1, <1>2 DEF TypeOK
<1>6. ticks \in Seq(Tick) /\ ticks' \in Seq(Tick)
  BY <1>1 DEF TypeOK
<1>7. TypeOK'
  BY <1>3, <1>4, <1>5, <1>6 DEF TypeOK
<1>8. Counted' /\ Ending'
  BY DEF Counted, Ending, Drained
<1>9. InHand'
  <2>1. \A t \in Tick : recs'[t] = IF t = begun THEN found ELSE recs[t]
    BY <1>1, <1>5
  <2>2. \A t \in Tick : t > begun => recs'[t] = {}
    BY <1>1, <2>1, RequestsApart DEF InHand
  <2>3. recs[begun] = {}
    BY DEF InHand
  <2>4. Committed \cup found \subseteq Committed'
    BY <1>1, <2>1, <2>3 DEF Committed
  <2> QED  BY <2>2, <2>4 DEF InHand
<1>10. OwnBuckets'
  BY DEF OwnBuckets
<1>11. KeptUnchanged'
  <2> SUFFICES ASSUME NEW i \in 1 .. Len(ticks'), NEW m \in Minute
               PROVE  bucket'[ticks'[i]][m] = Cardinality(AtMinute(recs'[ticks'[i]], m))
    BY DEF KeptUnchanged, AtMinute
  <2>1. CASE ticks'[i] = begun
    BY <1>1, <1>5, <2>1 DEF TypeOK
  <2>2. CASE ticks'[i] # begun
    <3>1. i \in 1 .. Len(ticks) /\ ticks'[i] = ticks[i] /\ ticks[i] \in Tick
      BY <1>6, <1>1, <2>2
    <3>2. bucket'[ticks[i]] = bucket[ticks[i]] /\ recs'[ticks[i]] = recs[ticks[i]]
      BY <1>1, <1>5, <2>2, <3>1 DEF TypeOK
    <3> QED  BY <3>1, <3>2 DEF KeptUnchanged
  <2> QED  BY <2>1, <2>2
<1> QED
  BY <1>7, <1>8, <1>9, <1>10, <1>11

\* The match list of a tick is cut out of what it found.
LEMMA EarliestIsPart ==
  ASSUME NEW S, NEW n, NEW T \in earliest(S, n)
  PROVE  T \subseteq S
  BY DEF earliest

\* What is left of the ticks when the n oldest leave.
LEMMA OldestLeave ==
  ASSUME NEW s \in Seq(Tick), NEW n \in 0 .. Len(s)
  PROVE  LET kept == SubSeq(s, n + 1, Len(s))
         IN  /\ kept \in Seq(Tick)
             /\ \A i \in 1 .. Len(kept) : n + i \in 1 .. Len(s) /\ kept[i] = s[n + i]
<1> DEFINE kept == SubSeq(s, n + 1, Len(s))
<1>1. kept \in Seq(Tick) /\ Len(kept) = Len(s) - n /\ Len(s) \in Nat
  OBVIOUS
<1>2. \A i \in 1 .. Len(s) - n : kept[i] = s[n + i]
  OBVIOUS
<1> HIDE DEF kept
<1>3. \A i \in 1 .. Len(kept) : n + i \in 1 .. Len(s) /\ kept[i] = s[n + i]
  BY <1>1, <1>2
<1> QED
  BY <1>1, <1>3 DEF kept

\* The steps of the loop.
LEMMA LoopKeeps ==
  ASSUME IInv, LoopStep
  PROVE  IInv'
<1> USE DEF IInv, Running, Go, mainVars, loopVars, stateVars, reportVars
<1>1. CASE ScanReturns
  <2> USE <1>1 DEF ScanReturns
  <2>1. PICK S \in SUBSET (Record \ Committed) :
          /\ found' = S
          /\ \E T \in earliest(S, MaxEvents) : matches' = [matches EXCEPT ![begun] = T]
    OBVIOUS
  <2>2. PICK T \in earliest(S, MaxEvents) : matches' = [matches EXCEPT ![begun] = T]
    BY <2>1
  <2>3. T \in SUBSET Record
    BY EarliestIsPart
  <2>4. found' \in SUBSET Record /\ matches' \in [Owner -> SUBSET Record]
    BY <2>1, <2>2, <2>3 DEF TypeOK
  <2>5. TypeOK'
    BY <2>4 DEF TypeOK
  <2>6. Counted' /\ InHand' /\ Ending'
    BY DEF Counted, InHand, Ending, Committed, Drained
  <2> QED  BY <2>5, <2>6, LoopStands
<1>2. CASE ScanFails
  BY <1>2, LoopStands DEF ScanFails, TypeOK, Counted, InHand, Ending, Committed, Drained
<1>3. CASE AbortReturns
  BY <1>3, LoopStands DEF AbortReturns, TypeOK, Counted, InHand, Ending, Committed, Drained
<1>4. CASE FinishDelivers
  BY <1>4, LoopStands DEF FinishDelivers, TypeOK, Counted, InHand, Ending, Committed, Drained
<1>5. CASE FinishFails
  BY <1>5, LoopStands DEF FinishFails, TypeOK, Counted, InHand, Ending, Committed, Drained
<1>6. CASE Commit
  BY <1>6, CommitKeeps
<1>7. CASE Fail
  <2>1. matches' \in [Owner -> SUBSET Record]
    BY <1>7 DEF Fail, TypeOK
  <2> QED
    BY <1>7, <2>1, LoopStands DEF Fail, TypeOK, Counted, InHand, Ending, Committed, Drained
<1>8. CASE Prune
  <2> USE <1>8 DEF Prune
  <2>1. PICK n \in 0 .. Len(ticks) : ticks' = SubSeq(ticks, n + 1, Len(ticks))
    OBVIOUS
  <2>2. ticks \in Seq(Tick)
    BY DEF TypeOK
  <2>3. ticks' \in Seq(Tick)
    BY <2>1, <2>2, OldestLeave
  <2>4. \A i \in 1 .. Len(ticks') : n + i \in 1 .. Len(ticks) /\ ticks'[i] = ticks[n + i]
    BY <2>1, <2>2, OldestLeave
  <2>5. KeptUnchanged'
    <3>1. \A i \in 1 .. Len(ticks') : \A m \in Minute :
            bucket[ticks'[i]][m] = Cardinality(AtMinute(recs[ticks'[i]], m))
      BY <2>4 DEF KeptUnchanged
    <3> QED  BY <3>1 DEF KeptUnchanged, AtMinute
  <2>6. TypeOK'
    BY <2>3 DEF TypeOK
  <2>7. Counted' /\ InHand'
    BY DEF Counted, InHand, Committed, TypeOK
  <2>8. Ending' /\ OwnBuckets'
    BY DEF Ending, OwnBuckets, Drained
  <2> QED  BY <2>5, <2>6, <2>7, <2>8
<1>9. CASE NextTick
  <2>1. begun' = begun + 1 /\ begun' \in Tick /\ begun' \in 0 .. MaxTicks
    BY <1>9, ServerAssumption DEF NextTick, TypeOK, Counted, Tick
  <2>2. TypeOK'
    BY <1>9, <2>1 DEF NextTick, TypeOK
  <2>3. Counted' /\ Ending'
    BY <1>9, <2>1 DEF NextTick, Counted, Ending, Drained
  <2>4. \A x \in Tick : x > begun + 1 => x > begun
    BY RequestsApart DEF TypeOK
  <2>5. recs[begun'] = {}
    BY <2>1 DEF TypeOK, InHand
  <2>6. InHand'
    BY <1>9, <2>1, <2>4, <2>5 DEF NextTick, InHand, Committed
  <2> QED  BY <1>9, <2>2, <2>3, <2>6, LoopStands DEF NextTick
<1>10. CASE LeaveLoop
  BY <1>10, LoopStands DEF LeaveLoop, TypeOK, Counted, InHand, Ending, Committed, Drained
<1> QED
  BY <1>1, <1>2, <1>3, <1>4, <1>5, <1>6, <1>7, <1>8, <1>9, <1>10 DEF LoopStep
-----------------------------------------------------------------------------
\* A report merges a tick: only buckets of its own change.
LEMMA MergeKeeps ==
  ASSUME IInv, NEW r \in Request, MergeTick(r)
  PROVE  IInv'
<1> DEFINE t == view[r][at[r]]
           owner == [m \in Minute |-> IF bucket[t][m] > 0 /\ line[r][m] = None THEN r ELSE line[r][m]]
           merged(o, m) == IF line[r][m] = None THEN bucket[t][m] ELSE bucket[o][m] + bucket[t][m]
<1> USE DEF IInv, Serves, mainVars, loopVars
<1>1. /\ at[r] <= Len(view[r])
      /\ line' = [line EXCEPT ![r] = owner]
      /\ bucket' = [o \in Owner |-> [m \in Minute |->
                      IF bucket[t][m] > 0 /\ o = owner[m] THEN merged(o, m) ELSE bucket[o][m]]]
      /\ matches' = [matches EXCEPT ![r] = @ \cup matches[t]]
      /\ at' = [at EXCEPT ![r] = @ + 1]
      /\ UNCHANGED <<handler, view>>
  BY DEF MergeTick, TickAt, newOwner
<1>2. t \in Tick
  BY <1>1 DEF MergeTick, TypeOK, Counted
<1> HIDE DEF t
<1>3. /\ \A o \in Owner : \A m \in Minute : bucket[o][m] \in Nat
      /\ \A m \in Minute : bucket[t][m] \in Nat
  BY <1>2, RequestsApart DEF TypeOK
<1>4. /\ \A m \in Minute : owner[m] = None \/ owner[m] = r
      /\ \A m \in Minute : bucket[t][m] > 0 => owner[m] = r
  <2>1. \A m \in Minute : line[r][m] = None \/ line[r][m] = r
    BY DEF OwnBuckets
  <2> QED  BY <2>1
<1>5. \A o \in Tick : \A m \in Minute : bucket'[o][m] = bucket[o][m]
  <2> SUFFICES ASSUME NEW o \in Tick, NEW m \in Minute PROVE bucket'[o][m] = bucket[o][m]
    OBVIOUS
  <2> HIDE DEF owner, merged
  <2>1. o \in Owner /\ o # r
    BY RequestsApart
  <2>2. ~(bucket[t][m] > 0 /\ o = owner[m])
    BY <1>4, <2>1
  <2> QED  BY <1>1, <2>1, <2>2
<1>6. bucket' \in [Owner -> [Minute -> Nat]]
  <2>1. \A o \in Owner : \A m \in Minute : merged(o, m) \in Nat
    BY <1>3
  <2> HIDE DEF owner, merged
  <2> QED  BY <1>1, <1>3, <2>1
<1> HIDE DEF merged
<1>7. line' \in [Request -> [Minute -> {None} \cup Request]]
  <2>1. owner \in [Minute -> {None} \cup Request]
    BY <1>4
  <2> HIDE DEF owner
  <2> QED  BY <1>1, <2>1 DEF TypeOK
<1>8. matches' \in [Owner -> SUBSET Record]
  <2>1. matches[t] \in SUBSET Record /\ matches[r] \in SUBSET Record /\ r \in Owner
    BY <1>2, RequestsApart DEF TypeOK
  <2> QED  BY <1>1, <2>1 DEF TypeOK
<1>9. at' \in [Request -> Nat] /\ at'[r] = at[r] + 1
  BY <1>1 DEF TypeOK
<1>10. OwnBuckets'
  <2>1. \A q \in Request : line'[q] = IF q = r THEN owner ELSE line[q]
    BY <1>1 DEF TypeOK
  <2> HIDE DEF owner
  <2> QED  BY <1>4, <2>1 DEF OwnBuckets
<1> HIDE DEF owner
<1>11. TypeOK'
  BY <1>1, <1>6, <1>7, <1>8, <1>9 DEF MergeTick, TypeOK
<1>12. Counted' /\ InHand' /\ Ending'
  BY <1>1, <1>9 DEF MergeTick, TypeOK, Counted, InHand, Ending, Committed, Drained
<1>13. KeptUnchanged'
  <2>1. ticks' = ticks /\ recs' = recs /\ \A i \in 1 .. Len(ticks) : ticks[i] \in Tick
    BY DEF MergeTick, TypeOK
  <2> QED  BY <1>5, <2>1 DEF KeptUnchanged, AtMinute
<1> QED
  BY <1>10, <1>11, <1>12, <1>13

\* The steps of a report.
LEMMA HandlersKeep ==
  ASSUME IInv, NEW r \in Request, Handle(r)
  PROVE  IInv'
<1> USE DEF IInv, Serves, mainVars, loopVars
<1>1. CASE Refuse(r)
  BY <1>1, LoopStands DEF Refuse, TypeOK, Counted, InHand, Ending, Committed, Drained
<1>2. CASE Snapshot(r)
  BY <1>2, LoopStands DEF Snapshot, TypeOK, Counted, InHand, Ending, Committed, Drained
<1>3. CASE MergeTick(r)
  BY <1>3, MergeKeeps
<1>4. CASE CutMatches(r)
  <2>1. PICK T \in earliest(matches[r], MaxEvents) : matches' = [matches EXCEPT ![r] = T]
    BY <1>4 DEF CutMatches
  <2>2. matches' \in [Owner -> SUBSET Record]
    <3>1. T \in SUBSET matches[r] /\ matches[r] \in SUBSET Record
      BY EarliestIsPart, RequestsApart DEF TypeOK
    <3> QED  BY <2>1, <3>1 DEF TypeOK
  <2> QED
    BY <1>4, <2>2, LoopStands DEF CutMatches, TypeOK, Counted, InHand, Ending, Committed, Drained
<1>5. CASE Respond(r)
  BY <1>5, LoopStands DEF Respond, TypeOK, Counted, InHand, Ending, Committed, Drained
<1> QED
  BY <1>1, <1>2, <1>3, <1>4, <1>5 DEF Handle
-----------------------------------------------------------------------------
\* Every step of Server keeps the invariant.
LEMMA StepKeeps == IInv /\ [Next]_vars => IInv'
<1> SUFFICES ASSUME IInv, [Next]_vars PROVE IInv'
  OBVIOUS
<1>1. CASE MainStep \/ Signal \/ HttpFails \/ GraceEnds \/ Fire
  BY <1>1, MainKeeps
<1>2. CASE LoopStep
  BY <1>2, LoopKeeps
<1>3. CASE \E r \in Request : Handle(r)
  BY <1>3, HandlersKeep
<1>4. CASE UNCHANGED vars
  BY <1>4, LoopStands DEF vars, mainVars, loopVars, stateVars, reportVars, IInv, TypeOK, Counted,
                          InHand, Ending, Committed, Drained
<1> QED
  BY <1>1, <1>2, <1>3, <1>4 DEF Next, Exited

\* The inductive invariant of Server holds (serve.go, serve_state.go).
THEOREM Invariance == Spec => []IInv
  BY Start0, StepKeeps, PTL DEF Spec

\* Every variable of Server keeps its type.
THEOREM TypeCorrect == Spec => []TypeOK
<1>1. IInv => TypeOK
  BY DEF IInv
<1> QED
  BY <1>1, Invariance, PTL

\* However many reports are merged, and whenever, what the committed ticks hold
\* stays what they committed: mergeHealth puts buckets of the report's own
\* into its timeline (stats/elb_health.go).
THEOREM TicksKept == Spec => []KeptUnchanged
<1>1. IInv => KeptUnchanged
  BY DEF IInv
<1> QED
  BY <1>1, Invariance, PTL

\* When runServe has returned, every tick whose lines Loki answered for was
\* committed, no report was cut short within the grace period, and exit code 0
\* means that a signal came.
THEOREM CleanExit == Spec => []ExitIsClean
<1>1. IInv => ExitIsClean
  BY DEF IInv, InHand, Ending, ExitIsClean
<1> QED
  BY <1>1, Invariance, PTL

-----------------------------------------------------------------------------
(***************************************************************************)
(* Reports and counters. Two facts carry the first. A tick of a snapshot   *)
(* never changes again: it is not the tick in hand, and reports leave it   *)
(* alone. And the match lists of the ticks are enough: a record that a     *)
(* tick has cut off has as many records no later than itself in what is    *)
(* left as any cut keeps.                                                  *)
(***************************************************************************)
InTick == {"scan", "finish", "abort", "fail", "commit"}

\* The last tick that is over.
ended == IF loop \in InTick THEN begun - 1 ELSE begun

\* s names ticks up to n, each once.
Past(s, n) == /\ \A i \in 1 .. Len(s) : s[i] <= n
              /\ \A i, j \in 1 .. Len(s) : s[i] = s[j] => i = j

\* No record is in two ticks.
Disjoint == /\ \A t, u \in Tick : t # u => recs[t] \cap recs[u] = {}
            /\ found \cap Committed = {}

\* Every tick holds the buckets and the match list of what it committed.
Held == /\ \A t \in Tick : \A m \in Minute : bucket[t][m] = Cardinality(AtMinute(recs[t], m))
        /\ \A t \in Tick : t # begun \/ loop \notin {"finish", "abort", "fail", "commit"}
                             => matches[t] \in earliest(recs[t], MaxEvents)
        /\ loop \in {"finish", "commit"} => matches[begun] \in earliest(found, MaxEvents)

\* What n ticks of the snapshot of r committed.
Shown(r, n) == UNION {recs[view[r][i]] : i \in 1 .. n}

\* Whoever is in S and not in M has MaxEvents records no later than itself in M.
Enough(M, S) ==
  /\ M \subseteq S
  /\ \A x \in S \ M : \E N \in SUBSET M : /\ Cardinality(N) = MaxEvents
                                          /\ \A y \in N : y.minute <= x.minute

\* How far the report of r has come.
Merged(r) == /\ \A m \in Minute : bucket[r][m] = Cardinality(AtMinute(Shown(r, at[r] - 1), m))
             /\ \A m \in Minute : line[r][m] = None => bucket[r][m] = 0
Reported(r) ==
  /\ handler[r] \in {"none", "unavailable"} =>
       /\ matches[r] = {}
       /\ \A m \in Minute : bucket[r][m] = 0 /\ line[r][m] = None
  /\ handler[r] = "merging" => /\ at[r] \in 1 .. Len(view[r]) + 1
                               /\ Merged(r) /\ Enough(matches[r], Shown(r, at[r] - 1))
  /\ handler[r] \in {"writing", "done"} =>
       /\ at[r] = Len(view[r]) + 1
       /\ Merged(r) /\ matches[r] \in earliest(Shown(r, at[r] - 1), MaxEvents)

RInv == /\ Past(ticks, ended)
        /\ \A r \in Request : Past(view[r], ended)
        /\ Disjoint /\ Held
        /\ \A r \in Request : Reported(r)
-----------------------------------------------------------------------------
\* The smaller of two numbers.
LEMMA MinOfTwo ==
  ASSUME NEW a \in Nat, NEW b \in Nat
  PROVE  Min({a, b}) = IF a <= b THEN a ELSE b
<1> DEFINE c == IF a <= b THEN a ELSE b
<1>1. c \in {a, b} /\ \A y \in {a, b} : c <= y
  OBVIOUS
<1>2. \A x \in {a, b} : (\A y \in {a, b} : x <= y) => x = c
  OBVIOUS
<1> QED
  BY <1>1, <1>2 DEF Min

\* Any set of records is finite.
LEMMA Finite ==
  ASSUME NEW S \in SUBSET Record
  PROVE  IsFiniteSet(S) /\ Cardinality(S) \in Nat
  BY FS_Subset, FS_CardinalityType, ServerAssumption

LEMMA NothingIsEarliest == {} \in earliest({}, MaxEvents)
  BY FS_EmptySet, MinOfTwo, ServerAssumption DEF earliest

\* What a tick keeps of its records is enough of them.
LEMMA EarliestIsEnough ==
  ASSUME NEW S \in SUBSET Record, NEW T \in earliest(S, MaxEvents)
  PROVE  Enough(T, S)
<1>1. T \subseteq S /\ Cardinality(T) = Min({MaxEvents, Cardinality(S)})
  BY DEF earliest
<1>2. \A x \in S \ T : \A y \in T : y.minute <= x.minute
  BY DEF earliest
<1>3. ASSUME T # S PROVE Cardinality(T) = MaxEvents
  <2>1. Cardinality(T) < Cardinality(S)
    BY <1>1, <1>3, Finite, FS_Subset
  <2>2. Min({MaxEvents, Cardinality(S)}) = IF MaxEvents <= Cardinality(S) THEN MaxEvents ELSE Cardinality(S)
    BY MinOfTwo, Finite, ServerAssumption
  <2>3. Cardinality(S) \in Nat /\ MaxEvents \in Nat
    BY Finite, ServerAssumption
  <2> QED  BY <1>1, <2>1, <2>2, <2>3
<1> QED
  BY <1>1, <1>2, <1>3 DEF Enough

\* Enough of two sets is enough of both together.
LEMMA EnoughTogether ==
  ASSUME NEW M, NEW S, NEW E, NEW R, Enough(M, S), Enough(E, R)
  PROVE  Enough(M \cup E, S \cup R)
<1> SUFFICES ASSUME NEW x \in (S \cup R) \ (M \cup E)
             PROVE  \E N \in SUBSET (M \cup E) : /\ Cardinality(N) = MaxEvents
                                                 /\ \A y \in N : y.minute <= x.minute
  BY DEF Enough
<1>1. CASE x \in S
  <2>1. PICK N \in SUBSET M : Cardinality(N) = MaxEvents /\ \A y \in N : y.minute <= x.minute
    BY <1>1 DEF Enough
  <2> QED  BY <2>1
<1>2. CASE x \in R
  <2>1. PICK N \in SUBSET E : Cardinality(N) = MaxEvents /\ \A y \in N : y.minute <= x.minute
    BY <1>2 DEF Enough
  <2> QED  BY <2>1
<1> QED
  BY <1>1, <1>2

\* The earliest of enough are the earliest of all.
LEMMA EarliestOfEnough ==
  ASSUME NEW S \in SUBSET Record, NEW M, Enough(M, S), NEW T \in earliest(M, MaxEvents)
  PROVE  T \in earliest(S, MaxEvents)
<1>1. M \subseteq S /\ T \subseteq M /\ Cardinality(T) = Min({MaxEvents, Cardinality(M)})
  BY DEF earliest, Enough
<1>2. /\ \A A \in SUBSET S : IsFiniteSet(A) /\ Cardinality(A) \in Nat
      /\ MaxEvents \in Nat /\ \A x \in S : x.minute \in Nat
  BY Finite, ServerAssumption
<1>3. /\ Cardinality(M) \in Nat /\ Cardinality(S) \in Nat /\ Cardinality(M) <= Cardinality(S)
      /\ Cardinality(T) = IF MaxEvents <= Cardinality(M) THEN MaxEvents ELSE Cardinality(M)
  <2>1. Cardinality(M) <= Cardinality(S)
    BY <1>1, <1>2, FS_Subset
  <2> QED  BY <1>1, <1>2, <2>1, MinOfTwo
<1>4. ASSUME NEW x \in S \ M
      PROVE  /\ Cardinality(T) = MaxEvents
             /\ \A z \in T : z.minute <= x.minute
  <2>1. PICK N \in SUBSET M : Cardinality(N) = MaxEvents /\ \A y \in N : y.minute <= x.minute
    BY DEF Enough
  <2>2. MaxEvents <= Cardinality(M)
    BY <1>1, <1>2, <2>1, FS_Subset
  <2>3. Cardinality(T) = MaxEvents
    BY <1>3, <2>2
  <2>4. ASSUME NEW z \in T, ~(z.minute <= x.minute) PROVE FALSE
    <3>1. \A y \in N : y \in T
      <4>1. \A y \in M \ T : z.minute <= y.minute
        BY DEF earliest
      <4> QED  BY <1>1, <1>2, <2>1, <2>4, <4>1
    <3>2. z \notin N
      BY <2>1, <2>4
    <3>3. N \cup {z} \subseteq T /\ Cardinality(N \cup {z}) = MaxEvents + 1
      BY <1>1, <1>2, <2>1, <3>1, <3>2, FS_AddElement
    <3>4. MaxEvents + 1 <= Cardinality(T)
      BY <1>1, <1>2, <3>3, FS_Subset
    <3> QED  BY <1>2, <2>3, <3>4
  <2> QED  BY <2>3, <2>4
<1>5. Cardinality(T) = Min({MaxEvents, Cardinality(S)})
  <2>1. Min({MaxEvents, Cardinality(S)}) = IF MaxEvents <= Cardinality(S) THEN MaxEvents ELSE Cardinality(S)
    BY <1>2, MinOfTwo
  <2>2. CASE M = S
    BY <1>3, <2>1, <2>2
  <2>3. CASE M # S
    <3>1. Cardinality(T) = MaxEvents /\ Cardinality(T) <= Cardinality(S)
      BY <1>1, <1>2, <1>4, <2>3, FS_Subset
    <3> QED  BY <1>2, <2>1, <3>1
  <2> QED  BY <2>2, <2>3
<1>6. \A x \in T, y \in S \ T : x.minute <= y.minute
  BY <1>4 DEF earliest
<1> QED
  BY <1>1, <1>5, <1>6 DEF earliest
-----------------------------------------------------------------------------
LEMMA RStart == Init => RInv
<1> SUFFICES ASSUME Init PROVE RInv
  OBVIOUS
<1>1. Past(ticks, ended) /\ \A r \in Request : Past(view[r], ended)
  BY DEF Init, Past
<1>2. Disjoint
  BY DEF Init, Disjoint
<1>3. \A m : Cardinality(AtMinute({}, m)) = 0
  BY FS_EmptySet DEF AtMinute
<1>4. Held
  <2>1. \A t \in Tick : recs[t] = {} /\ matches[t] = {} /\ \A m \in Minute : bucket[t][m] = 0
    BY DEF Init, Owner
  <2> QED  BY <1>3, <2>1, NothingIsEarliest DEF Init, Held
<1>5. \A r \in Request : Reported(r)
  BY DEF Init, Reported, Owner
<1> QED
  BY <1>1, <1>2, <1>4, <1>5 DEF RInv

\* A tick that is over stays over, and so do those a list names.
LEMMA PastStays ==
  ASSUME NEW s \in Seq(Tick), NEW m \in Int, NEW n \in Int, m <= n, Past(s, m)
  PROVE  Past(s, n)
<1>1. \A i \in 1 .. Len(s) : s[i] \in Tick
  OBVIOUS
<1>2. \A t \in Tick : t \in Int
  BY RequestsApart
<1> QED
  BY <1>1, <1>2 DEF Past

\* A tick that has just ended is later than those before.
LEMMA PastGrows ==
  ASSUME NEW s \in Seq(Tick), NEW b \in Tick, b \in Int, Past(s, b - 1)
  PROVE  Past(Append(s, b), b)
<1> DEFINE new == Append(s, b)
<1>1. /\ Len(s) \in Nat /\ Len(new) = Len(s) + 1 /\ new[Len(s) + 1] = b
      /\ \A i \in 1 .. Len(s) : new[i] = s[i] /\ s[i] \in Tick
  OBVIOUS
<1>2. \A t \in Tick : t \in Int
  BY RequestsApart
<1> HIDE DEF new
<1>3. \A i \in 1 .. Len(s) : new[i] = s[i] /\ s[i] \in Int /\ s[i] < b
  <2>1. \A i \in 1 .. Len(s) : s[i] \in Int /\ s[i] <= b - 1
    BY <1>1, <1>2 DEF Past
  <2> QED  BY <1>1, <2>1
<1>4. \A i \in 1 .. Len(new) : i \in 1 .. Len(s) \/ i = Len(s) + 1
  BY <1>1
<1>5. \A i \in 1 .. Len(new) : new[i] <= b
  BY <1>1, <1>3, <1>4
<1>6. ASSUME NEW i \in 1 .. Len(new), NEW j \in 1 .. Len(new), new[i] = new[j] PROVE i = j
  <2>1. CASE i \in 1 .. Len(s) /\ j \in 1 .. Len(s)
    BY <1>3, <1>6, <2>1 DEF Past
  <2>2. CASE i = Len(s) + 1 \/ j = Len(s) + 1
    BY <1>1, <1>3, <1>4, <1>6, <2>2
  <2> QED  BY <1>4, <2>1, <2>2
<1>7. Past(new, b)
  BY <1>5, <1>6 DEF Past
<1> QED
  BY <1>7 DEF new

\* What the shown ticks of a report hold changes only if a tick that is over does.
LEMMA ShownStands ==
  ASSUME IInv, RInv, NEW r \in Request, view'[r] = view[r],
         \A t \in Tick : t <= ended => recs'[t] = recs[t],
         NEW n \in 0 .. Len(view[r])
  PROVE  UNION {recs'[view'[r][i]] : i \in 1 .. n} = Shown(r, n)
<1>1. \A i \in 1 .. n : view[r][i] \in Tick /\ view[r][i] <= ended
  BY DEF IInv, TypeOK, RInv, Past
<1>2. \A i \in 1 .. n : recs'[view'[r][i]] = recs[view[r][i]]
  BY <1>1
<1> QED
  BY <1>2 DEF Shown

\* What the ticks hold stands when nothing of the ticks changes.
LEMMA HeldStands ==
  ASSUME Held, UNCHANGED <<loop, begun, found, recs>>,
         loop \in {"finish", "commit"} => begun \in Tick,
         \A t \in Tick : bucket'[t] = bucket[t] /\ matches'[t] = matches[t]
  PROVE  Held'
<1>1. \A t \in Tick : \A m \in Minute : bucket'[t][m] = Cardinality(AtMinute(recs'[t], m))
  BY DEF Held
<1>2. \A t \in Tick : t # begun' \/ loop' \notin {"finish", "abort", "fail", "commit"}
                       => matches'[t] \in earliest(recs'[t], MaxEvents)
  BY DEF Held
<1>3. loop' \in {"finish", "commit"} => matches'[begun'] \in earliest(found', MaxEvents)
  BY DEF Held
<1> QED
  BY <1>1, <1>2, <1>3 DEF Held, AtMinute

\* A report that does not move, while nothing it is made of does.
LEMMA ReportStands ==
  ASSUME IInv, RInv, NEW r \in Request,
         view'[r] = view[r], at'[r] = at[r], line'[r] = line[r],
         bucket'[r] = bucket[r], matches'[r] = matches[r], handler'[r] \in {handler[r], "killed"},
         \A t \in Tick : t <= ended => recs'[t] = recs[t]
  PROVE  Reported(r)'
<1>1. CASE handler[r] \in {"merging", "writing", "done"}
  <2>1. at[r] - 1 \in 0 .. Len(view[r])
    BY <1>1 DEF RInv, Reported, IInv, TypeOK
  <2>2. UNION {recs'[view'[r][i]] : i \in 1 .. at[r] - 1} = Shown(r, at[r] - 1)
    BY <2>1, ShownStands
  <2>3. Shown(r, at[r] - 1)' = Shown(r, at[r] - 1)
    BY <2>2 DEF Shown
  <2> QED  BY <2>3 DEF RInv, Reported, Merged
<1>2. CASE handler[r] \notin {"merging", "writing", "done"}
  BY <1>2 DEF RInv, Reported
<1> QED
  BY <1>1, <1>2
-----------------------------------------------------------------------------
\* Steps of main and of the outside.
LEMMA MainKeepsReports ==
  ASSUME IInv, RInv, MainStep \/ Signal \/ HttpFails \/ GraceEnds \/ Fire
  PROVE  RInv'
<1> USE DEF mainVars, loopVars, stateVars, reportVars
<1>1. /\ UNCHANGED <<ticks, totals, recs, matches, found, bucket, line, view, at>>
      /\ \A r \in Request : handler'[r] \in {handler[r], "killed"}
  BY DEF IInv, TypeOK, MainStep, StartFails, Start, Stop, ShutdownReturns, Exit, Signal, HttpFails, GraceEnds, Fire
<1>2. UNCHANGED <<loop, begun>> \/ (loop = "off" /\ begun = 0 /\ loop' = "scan" /\ begun' = 1)
  BY DEF IInv, Counted, Ending, MainStep, StartFails, Start, Stop, ShutdownReturns, Exit, Signal, HttpFails, GraceEnds, Fire
<1>3. begun \in Int /\ ended' = ended
  BY <1>2 DEF IInv, TypeOK, ended, InTick
<1>4. Past(ticks, ended)' /\ \A r \in Request : Past(view[r], ended)'
  BY <1>1, <1>3 DEF RInv, Past
<1>5. Disjoint'
  BY <1>1 DEF RInv, Disjoint, Committed
<1>6. Held'
  BY <1>1, <1>2 DEF RInv, Held, AtMinute
<1>7. \A r \in Request : Reported(r)'
  BY <1>1, ReportStands
<1> QED
  BY <1>4, <1>5, <1>6, <1>7 DEF RInv

\* A tick commits. What it found is no other tick's, and its number is new.
LEMMA CommitKeepsReports ==
  ASSUME IInv, RInv, Commit
  PROVE  RInv'
<1> USE DEF Running, Go, mainVars, reportVars
<1>1. /\ loop = "commit" /\ loop' = "prune" /\ begun' = begun /\ found' = {}
      /\ recs' = [recs EXCEPT ![begun] = found] /\ ticks' = Append(ticks, begun)
      /\ bucket' = [bucket EXCEPT ![begun] = [m \in Minute |-> Cardinality(AtMinute(found, m))]]
      /\ UNCHANGED <<matches, line, handler, view, at>>
  BY DEF Commit
<1>2. begun \in Tick /\ recs[begun] = {}
  BY <1>1 DEF IInv, Counted, InHand
<1>3. /\ \A t \in Tick : recs'[t] = IF t = begun THEN found ELSE recs[t]
      /\ \A o \in Owner : bucket'[o] = IF o = begun THEN [m \in Minute |-> Cardinality(AtMinute(found, m))]
                                                 ELSE bucket[o]
  BY <1>1, <1>2 DEF IInv, TypeOK
<1>4. begun \in Int /\ ended = begun - 1 /\ ended' = begun
  BY <1>1 DEF IInv, TypeOK, ended, InTick
<1>5. Past(ticks, ended)'
  <2>1. ticks \in Seq(Tick) /\ Past(ticks, begun - 1)
    BY <1>4 DEF IInv, TypeOK, RInv
  <2> QED  BY <1>1, <1>2, <1>4, <2>1, PastGrows
<1>6. \A r \in Request : Past(view[r], ended)'
  <2> SUFFICES ASSUME NEW r \in Request PROVE Past(view[r], ended')
    BY <1>1 DEF Past
  <2>1. view[r] \in Seq(Tick) /\ Past(view[r], ended)
    BY DEF IInv, TypeOK, RInv
  <2> QED  BY <1>4, <2>1, PastStays
<1>7. Disjoint'
  <2>1. \A t \in Tick : found \cap recs[t] = {}
    BY DEF RInv, Disjoint, Committed
  <2>2. \A t, u \in Tick : t # u => recs'[t] \cap recs'[u] = {}
    BY <1>3, <2>1 DEF RInv, Disjoint
  <2> QED  BY <1>1, <2>2 DEF Disjoint
<1>8. Held'
  <2>1. \A t \in Tick : \A m \in Minute : bucket'[t][m] = Cardinality(AtMinute(recs'[t], m))
    <3> SUFFICES ASSUME NEW t \in Tick, NEW m \in Minute
                 PROVE  bucket'[t][m] = Cardinality(AtMinute(recs'[t], m))
      OBVIOUS
    <3>1. t \in Owner
      BY RequestsApart
    <3>2. CASE t = begun
      BY <1>3, <3>1, <3>2
    <3>3. CASE t # begun
      BY <1>3, <3>1, <3>3 DEF RInv, Held
    <3> QED  BY <3>2, <3>3
  <2>2. \A t \in Tick : matches'[t] \in earliest(recs'[t], MaxEvents)
    BY <1>1, <1>3 DEF RInv, Held
  <2> QED  BY <1>1, <2>1, <2>2 DEF Held, AtMinute
<1>9. \A r \in Request : Reported(r)'
  <2> SUFFICES ASSUME NEW r \in Request PROVE Reported(r)'
    OBVIOUS
  <2>1. bucket'[r] = bucket[r]
    BY <1>2, <1>3, RequestsApart
  <2>2. \A t \in Tick : t <= ended => recs'[t] = recs[t]
    BY <1>3, <1>4
  <2> QED  BY <1>1, <2>1, <2>2, ReportStands
<1> QED
  BY <1>5, <1>6, <1>7, <1>8, <1>9 DEF RInv

\* The steps of the loop.
LEMMA LoopKeepsReports ==
  ASSUME IInv, RInv, LoopStep
  PROVE  RInv'
<1> USE DEF Running, Go, mainVars, loopVars, stateVars, reportVars
<1>1. CASE Commit
  BY <1>1, CommitKeepsReports
<1>2. ASSUME ~Commit PROVE RInv'
  <2>1. UNCHANGED <<recs, bucket, line, handler, view, at>>
    BY <1>2 DEF LoopStep, ScanReturns, ScanFails, AbortReturns, FinishDelivers, FinishFails, Fail,
                Prune, NextTick, LeaveLoop
  <2>2. begun \in Int /\ ended \in Int /\ ended' \in Int /\ ended <= ended'
    BY <1>2 DEF IInv, TypeOK, ended, InTick, LoopStep, ScanReturns, ScanFails, AbortReturns,
                FinishDelivers, FinishFails, Fail, Prune, NextTick, LeaveLoop
  <2>3. \A r \in Request : Past(view[r], ended)'
    <3> SUFFICES ASSUME NEW r \in Request PROVE Past(view[r], ended')
      BY <2>1 DEF Past
    <3>1. view[r] \in Seq(Tick) /\ Past(view[r], ended)
      BY DEF IInv, TypeOK, RInv
    <3> QED  BY <2>2, <3>1, PastStays
  <2>4. Past(ticks, ended)'
    <3>1. ticks \in Seq(Tick) /\ Past(ticks, ended) /\ Past(ticks, ended')
      BY <2>2, PastStays DEF IInv, TypeOK, RInv
    <3>2. CASE Prune
      <4>1. PICK n \in 0 .. Len(ticks) : ticks' = SubSeq(ticks, n + 1, Len(ticks))
        BY <3>2 DEF Prune
      <4>2. Len(ticks') = Len(ticks) - n
        BY <3>1, <4>1
      <4>3. \A i \in 1 .. Len(ticks') : n + i \in 1 .. Len(ticks) /\ ticks'[i] = ticks[n + i]
        BY <3>1, <4>1, <4>2
      <4> QED  BY <3>1, <4>3 DEF Past
    <3>3. CASE ~Prune
      <4>1. ticks' = ticks
        BY <1>2, <3>3 DEF LoopStep, ScanReturns, ScanFails, AbortReturns, FinishDelivers, FinishFails,
                          Fail, NextTick, LeaveLoop
      <4> QED  BY <3>1, <4>1 DEF Past
    <3> QED  BY <3>2, <3>3
  <2>5. Disjoint'
    <3>1. found' \cap Committed = {}
      BY <1>2 DEF RInv, Disjoint, LoopStep, ScanReturns, ScanFails, AbortReturns, FinishDelivers,
                  FinishFails, Fail, Prune, NextTick, LeaveLoop
    <3> QED  BY <2>1, <3>1 DEF RInv, Disjoint, Committed
  <2>6. Held' /\ \A r \in Request : matches'[r] = matches[r]
    <3>1. \A t \in Tick : \A m \in Minute : bucket'[t][m] = Cardinality(AtMinute(recs'[t], m))
      BY <2>1 DEF RInv, Held
    <3>2. CASE ScanReturns
      <4>1. begun \in Tick /\ begun' = begun /\ loop' = "finish" /\ loop = "scan"
        BY <3>2 DEF ScanReturns, IInv, Counted
      <4>2. PICK T \in earliest(found', MaxEvents) : matches' = [matches EXCEPT ![begun] = T]
        BY <3>2 DEF ScanReturns
      <4>3. \A o \in Owner : matches'[o] = IF o = begun THEN T ELSE matches[o]
        BY <4>1, <4>2 DEF IInv, TypeOK
      <4> QED  BY <2>1, <3>1, <4>1, <4>3, RequestsApart DEF RInv, Held, AtMinute
    <3>3. CASE Fail
      <4>1. begun \in Tick /\ begun' = begun /\ loop' = "prune" /\ recs[begun] = {}
        BY <3>3 DEF Fail, IInv, Counted, InHand
      <4>2. \A o \in Owner : matches'[o] = IF o = begun THEN {} ELSE matches[o]
        BY <3>3, <4>1 DEF Fail, IInv, TypeOK
      <4> QED  BY <2>1, <3>1, <4>1, <4>2, RequestsApart, NothingIsEarliest DEF RInv, Held, AtMinute
    <3>4. CASE ~ScanReturns /\ ~Fail
      <4>1. matches' = matches
        BY <1>2, <3>4 DEF LoopStep, ScanFails, AbortReturns, FinishDelivers, FinishFails, Prune,
                          NextTick, LeaveLoop
      <4>2. CASE NextTick
        BY <2>1, <3>1, <4>1, <4>2 DEF NextTick, RInv, Held, AtMinute
      <4>3. CASE ~NextTick
        <5>1. /\ begun' = begun /\ loop # "commit" /\ found' = found
              /\ loop \in {"finish", "abort", "fail", "commit"} => loop' \in {"abort", "fail", "commit"}
              /\ loop' = "commit" => loop = "finish"
              /\ loop' # "finish"
          BY <1>2, <3>4, <4>3 DEF LoopStep, ScanFails, AbortReturns, FinishDelivers, FinishFails, Prune,
                                  LeaveLoop
        <5> QED  BY <2>1, <3>1, <4>1, <5>1 DEF RInv, Held, AtMinute
      <4> QED  BY <4>1, <4>2, <4>3
    <3> QED  BY <3>2, <3>3, <3>4
  <2>7. \A r \in Request : Reported(r)'
    BY <2>1, <2>6, ReportStands
  <2> QED  BY <2>3, <2>4, <2>5, <2>6, <2>7 DEF RInv
<1> QED
  BY <1>1, <1>2
-----------------------------------------------------------------------------
\* A report takes the next tick of its snapshot: what it shows grows by the
\* records of that tick, which it does not show yet.
LEMMA MergeKeepsReports ==
  ASSUME IInv, RInv, NEW r \in Request, MergeTick(r)
  PROVE  RInv'
<1> DEFINE i == at[r]
           t == view[r][i]
           owner == [m \in Minute |-> IF bucket[t][m] > 0 /\ line[r][m] = None THEN r ELSE line[r][m]]
           merged(o, m) == IF line[r][m] = None THEN bucket[t][m] ELSE bucket[o][m] + bucket[t][m]
<1>1. /\ handler[r] = "merging" /\ i <= Len(view[r])
      /\ line' = [line EXCEPT ![r] = owner]
      /\ bucket' = [o \in Owner |-> [m \in Minute |->
                      IF bucket[t][m] > 0 /\ o = owner[m] THEN merged(o, m) ELSE bucket[o][m]]]
      /\ matches' = [matches EXCEPT ![r] = @ \cup matches[t]]
      /\ at' = [at EXCEPT ![r] = @ + 1]
      /\ UNCHANGED <<handler, view, loop, begun, found, ticks, recs>>
  BY DEF MergeTick, TickAt, newOwner, Serves, loopVars
<1>2. /\ i \in 1 .. Len(view[r]) /\ view[r] \in Seq(Tick) /\ Past(view[r], ended)
      /\ Merged(r) /\ Enough(matches[r], Shown(r, i - 1))
  BY <1>1 DEF IInv, TypeOK, RInv, Reported
<1>3. t \in Tick /\ t \in Owner /\ r \in Owner /\ r \notin Tick
  <2>1. t \in Tick
    BY <1>2
  <2> HIDE DEF t
  <2> QED  BY <2>1, RequestsApart
<1>4. t \in Int /\ t <= ended /\ begun \in Int
  <2>1. t <= ended
    BY <1>2 DEF Past
  <2> HIDE DEF t
  <2> QED  BY <1>3, <2>1, RequestsApart DEF IInv, TypeOK
<1>5. /\ \A m \in Minute : bucket[t][m] = Cardinality(AtMinute(recs[t], m))
      /\ matches[t] \in earliest(recs[t], MaxEvents)
  BY <1>3, <1>4 DEF RInv, Held, ended, InTick
<1>6. Shown(r, i) = Shown(r, i - 1) \cup recs[t]
  <2>1. 1 .. i = (1 .. i - 1) \cup {i}
    BY <1>2
  <2> QED  BY <2>1 DEF Shown
<1>7. Shown(r, i - 1) \cap recs[t] = {}
  <2> SUFFICES ASSUME NEW j \in 1 .. i - 1 PROVE recs[view[r][j]] \cap recs[t] = {}
    BY DEF Shown
  <2>1. j \in 1 .. Len(view[r]) /\ j # i /\ view[r][j] \in Tick
    BY <1>2
  <2>2. view[r][j] # t
    BY <1>2, <2>1 DEF Past
  <2> QED  BY <1>3, <2>1, <2>2 DEF RInv, Disjoint
<1>8. Shown(r, i - 1) \in SUBSET Record /\ recs[t] \in SUBSET Record
  <2>1. \A j \in 1 .. i - 1 : view[r][j] \in Tick
    BY <1>2
  <2> QED  BY <1>3, <2>1 DEF Shown, IInv, TypeOK
<1>9. \A m \in Minute : Cardinality(AtMinute(Shown(r, i), m)) = bucket[r][m] + bucket[t][m]
  <2> SUFFICES ASSUME NEW m \in Minute
               PROVE  Cardinality(AtMinute(Shown(r, i), m)) = bucket[r][m] + bucket[t][m]
    OBVIOUS
  <2> DEFINE A == AtMinute(Shown(r, i - 1), m)
             B == AtMinute(recs[t], m)
  <2>1. IsFiniteSet(A) /\ IsFiniteSet(B) /\ A \cap B = {} /\ AtMinute(Shown(r, i), m) = A \cup B
    BY <1>6, <1>7, <1>8, Finite DEF AtMinute
  <2>2. Cardinality(A) \in Nat /\ Cardinality(B) \in Nat /\ Cardinality({}) = 0
    BY <2>1, FS_CardinalityType, FS_EmptySet
  <2>3. Cardinality(A \cup B) = Cardinality(A) + Cardinality(B)
    <3> HIDE DEF A, B
    <3>1. Cardinality(A \cup B) = Cardinality(A) + Cardinality(B) - Cardinality(A \cap B)
      BY <2>1, FS_Union
    <3>2. Cardinality(A \cap B) = 0
      BY <2>1, <2>2
    <3> QED  BY <2>2, <3>1, <3>2
  <2>4. bucket[r][m] = Cardinality(A) /\ bucket[t][m] = Cardinality(B)
    BY <1>2, <1>5 DEF Merged
  <2> QED  BY <2>1, <2>3, <2>4
<1> HIDE DEF t, i
<1>10. /\ \A m \in Minute : bucket[t][m] \in Nat /\ bucket[r][m] \in Nat
       /\ \A m \in Minute : line[r][m] = None \/ line[r][m] = r
       /\ \A m \in Minute : line[r][m] = None => bucket[r][m] = 0
       /\ r # None
  BY <1>2, <1>3, RequestsApart DEF IInv, TypeOK, OwnBuckets, Merged
<1>11. /\ \A m \in Minute : bucket'[r][m] = bucket[r][m] + bucket[t][m]
       /\ \A m \in Minute : line'[r][m] = None => bucket'[r][m] = 0
  <2> SUFFICES ASSUME NEW m \in Minute
               PROVE  /\ bucket'[r][m] = bucket[r][m] + bucket[t][m]
                      /\ line'[r][m] = None => bucket'[r][m] = 0
    OBVIOUS
  <2>1. bucket'[r][m] = IF bucket[t][m] > 0 /\ r = owner[m] THEN merged(r, m) ELSE bucket[r][m]
    <3> HIDE DEF owner, merged
    <3> QED  BY <1>1, <1>3
  <2>2. line'[r] = owner
    BY <1>1 DEF IInv, TypeOK
  <2>3. /\ line'[r][m] = IF bucket[t][m] > 0 /\ line[r][m] = None THEN r ELSE line[r][m]
        /\ owner[m] = line'[r][m]
    BY <2>2
  <2>4. merged(r, m) = bucket[r][m] + bucket[t][m]
    BY <1>10
  <2> HIDE DEF owner, merged
  <2> QED  BY <1>10, <2>1, <2>3, <2>4
<1>12. \A o \in Owner : o # r => bucket'[o] = bucket[o]
  <2> SUFFICES ASSUME NEW o \in Owner, o # r PROVE bucket'[o] = bucket[o]
    OBVIOUS
  <2>1. \A m \in Minute : ~(bucket[t][m] > 0 /\ o = owner[m])
    BY <1>10
  <2> HIDE DEF owner, merged
  <2>2. bucket'[o] = [m \in Minute |-> bucket[o][m]]
    BY <1>1, <2>1
  <2>3. bucket[o] = [m \in Minute |-> bucket[o][m]]
    BY DEF IInv, TypeOK
  <2> QED  BY <2>2, <2>3
<1>13. \A o \in Owner : o # r => matches'[o] = matches[o]
  BY <1>1 DEF IInv, TypeOK
<1> HIDE DEF owner, merged
<1>14. Past(ticks, ended)' /\ \A q \in Request : Past(view[q], ended)'
  BY <1>1 DEF RInv, Past, ended
<1>15. Disjoint'
  BY <1>1 DEF RInv, Disjoint, Committed
<1>16. Held'
  <2>1. \A u \in Tick : bucket'[u] = bucket[u] /\ matches'[u] = matches[u]
    BY <1>3, <1>12, <1>13, RequestsApart
  <2>2. loop \in {"finish", "commit"} => begun \in Tick
    BY DEF IInv, Counted
  <2> QED  BY <1>1, <2>1, <2>2, HeldStands DEF RInv
<1>17. ASSUME NEW q \in Request, q # r PROVE Reported(q)'
  <2>1. /\ bucket'[q] = bucket[q] /\ matches'[q] = matches[q]
        /\ line'[q] = line[q] /\ at'[q] = at[q]
    BY <1>1, <1>12, <1>13, <1>17, RequestsApart DEF IInv, TypeOK
  <2> QED  BY <1>1, <2>1, ReportStands
<1>18. Reported(r)'
  <2>1. at'[r] = i + 1 /\ matches'[r] = matches[r] \cup matches[t] /\ i \in 1 .. Len(view[r])
    BY <1>1, <1>2, <1>3 DEF IInv, TypeOK, i
  <2>2. Shown(r, at[r] - 1)' = Shown(r, i)
    <3>1. at'[r] - 1 = i
      BY <2>1
    <3> QED  BY <1>1, <3>1 DEF Shown
  <2>3. Merged(r)'
    <3>1. /\ \A m \in Minute : bucket'[r][m] = Cardinality(AtMinute(Shown(r, i), m))
          /\ \A m \in Minute : line'[r][m] = None => bucket'[r][m] = 0
      BY <1>9, <1>11
    <3> QED  BY <3>1, <2>2 DEF Merged, AtMinute
  <2>4. Enough(matches[t], recs[t])
    BY <1>5, <1>8, EarliestIsEnough
  <2>5. Enough(matches[r] \cup matches[t], Shown(r, i))
    BY <1>2, <1>6, <2>4, EnoughTogether
  <2>6. Enough(matches'[r], Shown(r, at[r] - 1)')
    BY <2>1, <2>2, <2>5
  <2>7. at'[r] \in 1 .. Len(view'[r]) + 1
    BY <1>1, <2>1, <1>2
  <2> QED  BY <1>1, <2>3, <2>6, <2>7 DEF Reported, Enough
<1> QED
  BY <1>14, <1>15, <1>16, <1>17, <1>18 DEF RInv

\* The steps of a report.
LEMMA HandlersKeepReports ==
  ASSUME IInv, RInv, NEW r \in Request, Handle(r)
  PROVE  RInv'
<1> USE DEF Serves, mainVars, loopVars
<1>1. CASE MergeTick(r)
  BY <1>1, MergeKeepsReports
<1>2. ASSUME Refuse(r) \/ Snapshot(r) \/ CutMatches(r) \/ Respond(r) PROVE RInv'
  <2>1. UNCHANGED <<loop, begun, found, ticks, recs, line, bucket>>
    BY <1>2 DEF Refuse, Snapshot, CutMatches, Respond
  <2>2. /\ \A o \in Owner : o # r => matches'[o] = matches[o]
        /\ \A q \in Request : q # r => view'[q] = view[q] /\ at'[q] = at[q] /\ handler'[q] = handler[q]
    BY <1>2 DEF Refuse, Snapshot, CutMatches, Respond, IInv, TypeOK
  <2>3. view'[r] = view[r] \/ view'[r] = ticks
    BY <1>2 DEF Refuse, Snapshot, CutMatches, Respond, IInv, TypeOK
  <2>4. Past(ticks, ended)' /\ \A q \in Request : Past(view[q], ended)'
    BY <2>1, <2>2, <2>3 DEF RInv, Past, ended
  <2>5. Disjoint'
    BY <2>1 DEF RInv, Disjoint, Committed
  <2>6. Held'
    <3>1. \A t \in Tick : matches'[t] = matches[t]
      BY <2>2, RequestsApart
    <3>2. loop \in {"finish", "commit"} => begun \in Tick
      BY DEF IInv, Counted
    <3> QED  BY <2>1, <3>1, <3>2, HeldStands DEF RInv
  <2>7. ASSUME NEW q \in Request, q # r PROVE Reported(q)'
    <3>1. matches'[q] = matches[q]
      BY <2>2, <2>7, RequestsApart
    <3> QED  BY <2>1, <2>2, <2>7, <3>1, ReportStands
  <2>8. Reported(r)'
    <3>1. CASE Refuse(r)
      BY <3>1 DEF Refuse, IInv, TypeOK, RInv, Reported
    <3>2. CASE Snapshot(r)
      <4>1. /\ handler[r] = "none" /\ handler'[r] = "merging" /\ at'[r] = 1 /\ matches' = matches
            /\ view'[r] = ticks /\ ticks \in Seq(Tick)
        BY <3>2 DEF Snapshot, IInv, TypeOK
      <4>2. Shown(r, at[r] - 1)' = {}
        BY <4>1 DEF Shown
      <4>3. \A m \in Minute : Cardinality(AtMinute({}, m)) = 0
        BY FS_EmptySet DEF AtMinute
      <4>4. Merged(r)'
        BY <2>1, <4>1, <4>2, <4>3 DEF RInv, Reported, Merged, AtMinute
      <4>5. at'[r] \in 1 .. Len(view'[r]) + 1
        BY <4>1
      <4>6. matches'[r] = {}
        BY <4>1 DEF RInv, Reported
      <4> QED  BY <4>1, <4>2, <4>4, <4>5, <4>6 DEF Reported, Enough
    <3>3. CASE CutMatches(r)
      <4>1. /\ handler[r] = "merging" /\ handler'[r] = "writing" /\ at[r] > Len(view[r])
            /\ UNCHANGED <<view, at>>
            /\ \E T \in earliest(matches[r], MaxEvents) : matches' = [matches EXCEPT ![r] = T]
        BY <3>3 DEF CutMatches, IInv, TypeOK
      <4>2. /\ at[r] \in 1 .. Len(view[r]) + 1 /\ view[r] \in Seq(Tick)
            /\ Merged(r) /\ Enough(matches[r], Shown(r, at[r] - 1))
        BY <4>1 DEF IInv, TypeOK, RInv, Reported
      <4>3. at[r] = Len(view[r]) + 1
        BY <4>1, <4>2
      <4>4. Shown(r, at[r] - 1) \in SUBSET Record
        <5>1. \A j \in 1 .. at[r] - 1 : view[r][j] \in Tick
          BY <4>2, <4>3
        <5> QED  BY <5>1 DEF Shown, IInv, TypeOK
      <4>5. matches'[r] \in earliest(matches[r], MaxEvents)
        BY <4>1, RequestsApart DEF IInv, TypeOK
      <4>6. matches'[r] \in earliest(Shown(r, at[r] - 1), MaxEvents)
        BY <4>2, <4>4, <4>5, EarliestOfEnough
      <4>7. Shown(r, at[r] - 1)' = Shown(r, at[r] - 1)
        BY <2>1, <4>1 DEF Shown
      <4>8. Merged(r)'
        BY <2>1, <4>1, <4>2, <4>7 DEF Merged, AtMinute
      <4> QED  BY <4>1, <4>3, <4>6, <4>7, <4>8 DEF Reported, earliest
    <3>4. CASE Respond(r)
      <4>1. /\ handler[r] = "writing" /\ handler'[r] = "done"
            /\ UNCHANGED <<view, at, matches>>
        BY <3>4 DEF Respond, IInv, TypeOK
      <4>2. Shown(r, at[r] - 1)' = Shown(r, at[r] - 1)
        BY <2>1, <4>1 DEF Shown
      <4> QED  BY <2>1, <4>1, <4>2 DEF RInv, Reported, Merged, AtMinute, earliest
    <3> QED  BY <1>2, <3>1, <3>2, <3>3, <3>4
  <2> QED  BY <2>4, <2>5, <2>6, <2>7, <2>8 DEF RInv
<1> QED
  BY <1>1, <1>2 DEF Handle
-----------------------------------------------------------------------------
\* Every step keeps the reports right.
LEMMA StepKeepsReports == IInv /\ RInv /\ [Next]_vars => RInv'
<1> SUFFICES ASSUME IInv, RInv, [Next]_vars PROVE RInv'
  OBVIOUS
<1>1. CASE MainStep \/ Signal \/ HttpFails \/ GraceEnds \/ Fire
  BY <1>1, MainKeepsReports
<1>2. CASE LoopStep
  BY <1>2, LoopKeepsReports
<1>3. CASE \E r \in Request : Handle(r)
  BY <1>3, HandlersKeepReports
<1>4. CASE UNCHANGED vars
  <2> USE <1>4 DEF vars, mainVars, loopVars, stateVars, reportVars
  <2>1. Past(ticks, ended)' /\ \A r \in Request : Past(view[r], ended)'
    BY DEF RInv, Past, ended
  <2>2. UNCHANGED <<loop, begun, found, recs, matches, bucket>>
    OBVIOUS
  <2>3. Disjoint'
    BY <2>2 DEF RInv, Disjoint, Committed
  <2>4. Held'
    <3>1. loop \in {"finish", "commit"} => begun \in Tick
      BY DEF IInv, Counted
    <3> QED  BY <2>2, <3>1, HeldStands DEF RInv
  <2>5. \A r \in Request : Reported(r)'
    BY ReportStands
  <2> QED  BY <2>1, <2>3, <2>4, <2>5 DEF RInv
<1> QED
  BY <1>1, <1>2, <1>3, <1>4 DEF Next, Exited

\* What /report shows is right whatever happens meanwhile: each tick of the
\* snapshot once, and of all their records the earliest (serveReport and
\* mergeResults in serve.go, mergeHealth in stats/elb_health.go).
THEOREM ReportsExact == Spec => []ReportExact
<1>1. IInv /\ RInv => ReportExact
  <2> SUFFICES ASSUME IInv, RInv, NEW r \in Request, handler[r] \in {"writing", "done"}
               PROVE  LET S == UNION {recs[view[r][i]] : i \in 1 .. Len(view[r])}
                      IN  /\ \A m \in Minute : bucket[r][m] = Cardinality(AtMinute(S, m))
                          /\ matches[r] \in earliest(S, MaxEvents)
    BY DEF ReportExact
  <2>1. /\ at[r] = Len(view[r]) + 1 /\ view[r] \in Seq(Tick)
        /\ Merged(r) /\ matches[r] \in earliest(Shown(r, at[r] - 1), MaxEvents)
    BY DEF IInv, TypeOK, RInv, Reported
  <2>2. at[r] - 1 = Len(view[r])
    BY <2>1
  <2> QED  BY <2>1, <2>2 DEF Merged, Shown
<1> QED
  BY <1>1, RStart, StepKeepsReports, Invariance, PTL DEF Spec
-----------------------------------------------------------------------------
Classed(S) == {x \in S : sub = "s3" \/ x.status # ""}

\* The classes of some records number those that have one.
LEMMA ClassesAddUp ==
  ASSUME NEW S \in SUBSET Record
  PROVE  ByStatus(S, "2xx") + ByStatus(S, "4xx") + ByStatus(S, "other")
           + (IF sub = "s3" THEN Cardinality({x \in S : x.status = ""}) ELSE 0)
         = Cardinality(Classed(S))
<1> DEFINE Of(c) == {x \in S : x.status # "" /\ Class(x.status) = c}
           Bare == {x \in S : x.status = ""}
           Two == Of("2xx") \cup Of("4xx")
           Three == Two \cup Of("other")
<1>1. \A T \in SUBSET S : IsFiniteSet(T) /\ Cardinality(T) \in Nat
  BY Finite
<1>2. /\ Of("2xx") \cap Of("4xx") = {} /\ Two \cap Of("other") = {} /\ Three \cap Bare = {}
      /\ Three = {x \in S : x.status # ""} /\ Three \cup Bare = S
  BY DEF Class
<1>3. /\ Of("2xx") \in SUBSET S /\ Of("4xx") \in SUBSET S /\ Of("other") \in SUBSET S
      /\ Two \in SUBSET S /\ Three \in SUBSET S /\ Bare \in SUBSET S
  OBVIOUS
<1>4. ASSUME NEW A \in SUBSET S, NEW B \in SUBSET S, A \cap B = {}
      PROVE  Cardinality(A \cup B) = Cardinality(A) + Cardinality(B)
  <2>1. Cardinality(A \cup B) = Cardinality(A) + Cardinality(B) - Cardinality({})
    BY <1>1, <1>4, FS_Union
  <2> QED  BY <1>1, <2>1, FS_EmptySet
<1> HIDE DEF Of, Bare
<1>5. /\ Cardinality(Two) = Cardinality(Of("2xx")) + Cardinality(Of("4xx"))
      /\ Cardinality(Three) = Cardinality(Two) + Cardinality(Of("other"))
      /\ Cardinality(Three \cup Bare) = Cardinality(Three) + Cardinality(Bare)
  BY <1>2, <1>3, <1>4
<1>6. /\ Cardinality(Of("2xx")) \in Nat /\ Cardinality(Of("4xx")) \in Nat
      /\ Cardinality(Of("other")) \in Nat /\ Cardinality(Bare) \in Nat
  BY <1>1, <1>3
<1>7. Classed(S) = IF sub = "s3" THEN Three \cup Bare ELSE Three
  BY <1>2 DEF Classed
<1> HIDE DEF Two, Three
<1>8. ByStatus(S, "2xx") + ByStatus(S, "4xx") + ByStatus(S, "other")
        + (IF sub = "s3" THEN Cardinality(Bare) ELSE 0) = Cardinality(Classed(S))
  <2>1. \A c : ByStatus(S, c) = Cardinality(Of(c))
    BY DEF ByStatus, Of
  <2> QED  BY <1>5, <1>6, <1>7, <2>1
<1> QED
  BY <1>8 DEF Bare

\* The counters of /metrics count every committed record once and put each into
\* one status class, for S3 those without a status too (addTotals, classOf and
\* statusClasses of serve_state.go and observe.go).
THEOREM CountersAreExact == Spec => []CountersExact
<1>1. Init => CountersExact
  <2> SUFFICES ASSUME Init PROVE CountersExact
    OBVIOUS
  <2>1. Committed = {}
    BY DEF Init, Committed
  <2> QED  BY <2>1, FS_EmptySet DEF Init, CountersExact, StatusClasses
<1>2. IInv /\ RInv /\ CountersExact /\ [Next]_vars => CountersExact'
  <2> SUFFICES ASSUME IInv, RInv, CountersExact, [Next]_vars PROVE CountersExact'
    OBVIOUS
  <2>1. CASE ~Commit
    <3>1. UNCHANGED <<sub, totals, recs>>
      BY <2>1 DEF Next, MainStep, LoopStep, Handle, Exited, vars, mainVars, loopVars, stateVars, reportVars,
                  Signal, HttpFails, GraceEnds, Fire, StartFails, Start, Stop, ShutdownReturns, Exit,
                  ScanReturns, ScanFails, AbortReturns, FinishDelivers, FinishFails, Fail, Prune, NextTick,
                  LeaveLoop, Go, Refuse, Snapshot, MergeTick, CutMatches, Respond, Serves
    <3> QED  BY <3>1 DEF CountersExact, Committed
  <2>2. CASE Commit
    <3>1. /\ begun \in Tick /\ recs[begun] = {} /\ found \in SUBSET Record
          /\ recs \in [Tick -> SUBSET Record] /\ found \cap Committed = {}
          /\ totals \in [matched : Nat, class : [StatusClasses -> Nat]]
      BY <2>2 DEF Commit, Running, IInv, TypeOK, Counted, InHand, RInv, Disjoint
    <3>2. /\ recs' = [recs EXCEPT ![begun] = found] /\ totals' = Add(totals, found) /\ sub' = sub
      BY <2>2 DEF Commit, Go, mainVars
    <3>3. \A t \in Tick : recs'[t] = IF t = begun THEN found ELSE recs[t]
      BY <3>1, <3>2
    <3>4. Committed' = Committed \cup found
      BY <3>1, <3>3 DEF Committed
    <3>5. Committed \in SUBSET Record
      BY <3>1 DEF Committed
    <3>6. ASSUME NEW A \in SUBSET Record, NEW B \in SUBSET Record, A \cap B = {}
          PROVE  /\ Cardinality(A \cup B) = Cardinality(A) + Cardinality(B)
                 /\ Cardinality(A) \in Nat /\ Cardinality(B) \in Nat
      <4>1. Cardinality(A \cup B) = Cardinality(A) + Cardinality(B) - Cardinality({})
        BY <3>6, Finite, FS_Union
      <4> QED  BY <4>1, Finite, FS_EmptySet
    <3>7. Cardinality(Committed') = Cardinality(Committed) + Cardinality(found)
      BY <3>1, <3>4, <3>5, <3>6
    <3>8. /\ Classed(Committed \cup found) = Classed(Committed) \cup Classed(found)
          /\ Classed(Committed) \cap Classed(found) = {}
          /\ Classed(Committed) \in SUBSET Record /\ Classed(found) \in SUBSET Record
      BY <3>1, <3>5 DEF Classed
    <3>9. Cardinality(Classed(Committed \cup found)) = Cardinality(Classed(Committed)) + Cardinality(Classed(found))
      BY <3>6, <3>8
    <3>10. /\ \A c \in StatusClasses : ByStatus(found, c) \in Nat
           /\ Cardinality({x \in found : x.status = ""}) \in Nat
      BY <3>1, Counts
    <3>11. totals'.class["2xx"] + totals'.class["4xx"] + totals'.class["other"]
             = totals.class["2xx"] + totals.class["4xx"] + totals.class["other"] + Cardinality(Classed(found))
      <4> DEFINE n == Cardinality({x \in found : x.status = ""})
      <4>1. /\ totals'.class["2xx"] = totals.class["2xx"] + ByStatus(found, "2xx") + 0
            /\ totals'.class["4xx"] = totals.class["4xx"] + ByStatus(found, "4xx") + 0
            /\ totals'.class["other"] = totals.class["other"] + ByStatus(found, "other")
                                          + (IF sub = "s3" THEN n ELSE 0)
        BY <3>2 DEF Add, StatusClasses
      <4>2. ByStatus(found, "2xx") + ByStatus(found, "4xx") + ByStatus(found, "other")
              + (IF sub = "s3" THEN n ELSE 0) = Cardinality(Classed(found))
        BY <3>1, ClassesAddUp
      <4>3. /\ \A c \in {"2xx", "4xx", "other"} : totals.class[c] \in Nat /\ ByStatus(found, c) \in Nat
            /\ n \in Nat
        BY <3>1, <3>10 DEF StatusClasses
      <4> HIDE DEF n
      <4> QED  BY <4>1, <4>2, <4>3
    <3>12. totals'.matched = totals.matched + Cardinality(found)
      BY <3>2 DEF Add
    <3>13. totals.class["2xx"] + totals.class["4xx"] + totals.class["other"] = Cardinality(Classed(Committed))
      BY DEF CountersExact, Classed
    <3>14. {x \in Committed' : sub' = "s3" \/ x.status # ""} = Classed(Committed \cup found)
      BY <3>2, <3>4 DEF Classed
    <3> QED  BY <3>7, <3>9, <3>11, <3>12, <3>13, <3>14 DEF CountersExact
  <2> QED  BY <2>1, <2>2
<1> QED
  BY <1>1, <1>2, RStart, StepKeepsReports, Invariance, PTL DEF Spec
=============================================================================
