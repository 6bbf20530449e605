----------------------------- MODULE ServeProofs -----------------------------
(***************************************************************************)
(* Theorems about Serve, for any set of objects, any lengths of the day    *)
(* and of the lookback, and any values of the bounds.                      *)
(***************************************************************************)
EXTENDS Serve, FiniteSetTheorems, TLAPS

(***************************************************************************)
(* Dates. Truncate finds the last multiple of Day.                         *)
(***************************************************************************)

\* A time lies in the day that Truncate names: Truncate(t) <= t < Truncate(t) + Day.
LEMMA TruncateBounds ==
  ASSUME NEW t \in Int
  PROVE  /\ Truncate(t) \in Int
         /\ Truncate(t) <= t
         /\ t < Truncate(t) + Day
<1>1. Day \in Nat \ {0}
  BY ServeAssumption DEF ServeAssumption
<1>2. t % Day \in 0 .. (Day - 1)
  BY <1>1
<1>3. QED
  BY <1>1, <1>2 DEF Truncate

\* It is a multiple of Day.
LEMMA TruncateDay ==
  ASSUME NEW t \in Int
  PROVE  Truncate(t) % Day = 0
<1>1. Day \in Nat \ {0}
  BY ServeAssumption DEF ServeAssumption
<1>2. QED
  BY <1>1 DEF Truncate

\* What the proofs use of the constants.
LEMMA Consts ==
  /\ Day \in Nat /\ Day > 0 /\ Lookback \in Nat
  /\ None \notin Int
  /\ Streams \in BOOLEAN
  /\ IsFiniteSet(Object)
  /\ MaxLag \in Nat
BY ServeAssumption DEF ServeAssumption

(***************************************************************************)
(* Types, and the finiteness without which Cardinality means nothing.      *)
(***************************************************************************)

\* The lines a window selects of an object are finitely many lines of it.
LEMMA MatchFinite ==
  ASSUME TypeOK, Finite, NEW k \in Object, NEW u \in Int
  PROVE  /\ Match(k, u) \subseteq Line
         /\ IsFiniteSet(Match(k, u))
<1>1. Match(k, u) \subseteq {k} \X times[k]
  BY DEF Match
<1>2. times[k] \subseteq Int /\ IsFiniteSet(times[k])
  BY DEF TypeOK, Finite
<1>3. IsFiniteSet({k} \X times[k])
  BY <1>2, FS_Singleton, FS_Product
<1>4. IsFiniteSet(Match(k, u))
  BY <1>1, <1>3, FS_Subset
<1>5. QED
  BY <1>1, <1>2, <1>4 DEF Line

LEMMA TypeInit == Init => TypeOK /\ Finite /\ Listed
<1>1. IsFiniteSet({})
  BY FS_EmptySet
<1>2. SUFFICES ASSUME Init
               PROVE  TypeOK /\ Finite /\ Listed
  OBVIOUS
<1>3. Finite
  BY <1>1, <1>2, Zenon DEF Init, Finite
<1>4. TypeOK
  <2>1. /\ arrived \in [Object -> Time] /\ seen \in [Object -> Time]
        /\ books \in [Object -> Time] /\ lastSuccess \in Time
    BY <1>2 DEF Init, Time
  <2>2. times \in [Object -> SUBSET Int]
    BY <1>2 DEF Init
  <2>3. /\ answered \subseteq Line /\ matched \subseteq Line /\ counted \subseteq Line
        /\ ticks \subseteq [at : Int, recs : SUBSET Line]
    BY <1>2 DEF Init
  <2>4. /\ queue \subseteq Object /\ read \subseteq Object \ queue /\ unlisted \subseteq Int
        /\ now \in Int /\ until \in Int /\ objects \in Nat /\ matchedTotal \in Nat
        /\ restarts \in Nat
    BY <1>2 DEF Init
  <2>5. /\ phase \in {"wait", "scan", "finish", "commit", "prune"}
        /\ listErr \in BOOLEAN /\ objErr \in BOOLEAN
    BY <1>2 DEF Init
  <2>6. QED
    BY <2>1, <2>2, <2>3, <2>4, <2>5 DEF TypeOK
<1>5. Listed
  BY <1>2 DEF Init, Listed
<1>6. QED
  BY <1>3, <1>4, <1>5

LEMMA TypeStep == TypeOK /\ Finite /\ Listed /\ [Next]_vars
                    => TypeOK' /\ Finite' /\ Listed'
<1> SUFFICES ASSUME TypeOK, Finite, Listed, [Next]_vars
             PROVE  TypeOK' /\ Finite' /\ Listed'
  OBVIOUS
<1> USE DEF TypeOK, Finite, Listed, Present, Filed, Time
<1>0. IsFiniteSet({})
  BY FS_EmptySet
<1>1. CASE Advance
  BY <1>1 DEF Advance, stateVars, scanVars, histVars
<1>2. ASSUME NEW k \in Object, NEW T \in Contents, Deliver(k, T)
      PROVE  TypeOK' /\ Finite' /\ Listed'
  <2>1. T \subseteq Int /\ IsFiniteSet(T)
    <3>1. T \in SUBSET (now - MaxLag .. now - 1)
      BY <1>2 DEF Contents
    <3>2. now - MaxLag \in Int /\ now - 1 \in Int
      BY Consts
    <3>3. IsFiniteSet(now - MaxLag .. now - 1)
      BY <3>2, FS_Interval
    <3>4. T \subseteq Int
      BY <3>1, <3>2
    <3>5. QED
      BY <3>1, <3>3, <3>4, FS_Subset
  <2>2. QED
    BY <1>2, <2>1 DEF Deliver, stateVars, scanVars, histVars
<1>3. CASE BeginTick
  <2>1. Finite'
    BY <1>0, <1>3, Zenon DEF BeginTick, envVars, stateVars, histVars
  <2>2. TypeOK'
    <3>1. /\ arrived' \in [Object -> Time] /\ seen' \in [Object -> Time]
          /\ books' \in [Object -> Time] /\ lastSuccess' \in Time
          /\ times' \in [Object -> SUBSET Int]
      BY <1>3 DEF BeginTick, envVars, stateVars, histVars, ScopeDays
    <3>2. /\ answered' \subseteq Line /\ matched' \subseteq Line /\ counted' \subseteq Line
          /\ ticks' \subseteq [at : Int, recs : SUBSET Line]
      BY <1>3 DEF BeginTick, envVars, stateVars, histVars, ScopeDays
    <3>3. /\ queue' \subseteq Object /\ read' \subseteq Object \ queue' /\ unlisted' \subseteq Int
          /\ now' \in Int /\ until' \in Int /\ objects' \in Nat /\ matchedTotal' \in Nat
          /\ restarts' \in Nat
      BY <1>3 DEF BeginTick, envVars, stateVars, histVars, ScopeDays
    <3>4. /\ phase' \in {"wait", "scan", "finish", "commit", "prune"}
          /\ listErr' \in BOOLEAN /\ objErr' \in BOOLEAN
      BY <1>3 DEF BeginTick, envVars, stateVars, histVars, ScopeDays
    <3>5. QED
      BY <3>1, <3>2, <3>3, <3>4
  <2>3. Listed'
    BY <1>3 DEF BeginTick
  <2>4. QED
    BY <2>1, <2>2, <2>3
<1>4. ASSUME NEW d \in unlisted, ListDay(d)
      PROVE  TypeOK' /\ Finite' /\ Listed'
  BY <1>4 DEF ListDay, Wanted, envVars, stateVars, histVars
<1>5. ASSUME NEW k \in queue, NEW bad \in BOOLEAN, FetchReads(k, bad)
      PROVE  TypeOK' /\ Finite' /\ Listed'
  <2>1. Match(k, until) \subseteq Line /\ IsFiniteSet(Match(k, until))
    BY MatchFinite
  <2>2. IsFiniteSet(matched')
    BY <1>5, <2>1, FS_Union DEF FetchReads
  <2>3. QED
    BY <1>5, <2>1, <2>2 DEF FetchReads, envVars, stateVars, histVars
<1>6. CASE EndScan
  BY <1>6 DEF EndScan, envVars, stateVars, scanVars, histVars
<1>7. CASE FinishDelivers
  BY <1>7 DEF FinishDelivers, envVars, stateVars, scanVars, histVars
<1>8. CASE Commit
  <2>1. IsFiniteSet(read) /\ Cardinality(read) \in Nat
    BY Consts, FS_Subset, FS_CardinalityType
  <2>2. Cardinality(matched) \in Nat
    BY FS_CardinalityType
  <2>3. IsFiniteSet(counted')
    BY <1>8, FS_Union DEF Commit
  <2>4. seen' \in [Object -> Time] /\ books' \in [Object -> Time]
    BY <1>8 DEF Commit
  <2>5. objects' \in Nat /\ matchedTotal' \in Nat
    BY <1>8, <2>1, <2>2 DEF Commit
  <2>6. ticks' \subseteq [at : Int, recs : SUBSET Line]
    BY <1>8 DEF Commit
  <2>7. QED
    BY <1>8, <2>3, <2>4, <2>5, <2>6 DEF Commit, envVars, scanVars
<1>9. CASE Prune
  <2>1. Finite'
    BY <1>0, <1>9, Zenon DEF Prune, Idle, envVars, histVars
  <2>2. TypeOK'
    <3>1. /\ arrived' \in [Object -> Time] /\ seen' \in [Object -> Time]
          /\ books' \in [Object -> Time] /\ lastSuccess' \in Time
          /\ times' \in [Object -> SUBSET Int]
      BY <1>9 DEF Prune, Idle, envVars, histVars
    <3>2. /\ answered' \subseteq Line /\ matched' \subseteq Line /\ counted' \subseteq Line
          /\ ticks' \subseteq [at : Int, recs : SUBSET Line]
      BY <1>9 DEF Prune, Idle, envVars, histVars
    <3>3. /\ queue' \subseteq Object /\ read' \subseteq Object \ queue' /\ unlisted' \subseteq Int
          /\ now' \in Int /\ until' \in Int /\ objects' \in Nat /\ matchedTotal' \in Nat
          /\ restarts' \in Nat
      BY <1>9 DEF Prune, Idle, envVars, histVars
    <3>4. /\ phase' \in {"wait", "scan", "finish", "commit", "prune"}
          /\ listErr' \in BOOLEAN /\ objErr' \in BOOLEAN
      BY <1>9 DEF Prune, Idle, envVars, histVars
    <3>5. QED
      BY <3>1, <3>2, <3>3, <3>4
  <2>3. Listed'
    BY <1>9 DEF Prune, Idle
  <2>4. QED
    BY <2>1, <2>2, <2>3
<1>10. ASSUME NEW d \in unlisted, NEW K \in SUBSET Wanted(d), ListFails(d, K)
       PROVE  TypeOK' /\ Finite' /\ Listed'
  BY <1>10 DEF ListFails, Wanted, envVars, stateVars, histVars
<1>11. ASSUME NEW k \in queue, NEW R \in SUBSET Match(k, until), FetchFails(k, R)
       PROVE  TypeOK' /\ Finite' /\ Listed'
  <2>1. R \subseteq Line /\ IsFiniteSet(R)
    BY MatchFinite, FS_Subset
  <2>2. IsFiniteSet(matched')
    BY <1>11, <2>1, FS_Union DEF FetchFails
  <2>3. QED
    BY <1>11, <2>1, <2>2 DEF FetchFails, envVars, stateVars, histVars
<1>12. ASSUME NEW L \in SUBSET matched, AbortScan(L) \/ FinishFails(L)
       PROVE  TypeOK' /\ Finite' /\ Listed'
  BY <1>12 DEF AbortScan, FinishFails, envVars, stateVars, scanVars, histVars
<1>13. ASSUME NEW L \in SUBSET matched, Restart(L)
       PROVE  TypeOK' /\ Finite' /\ Listed'
  <2>1. Finite'
    BY <1>0, <1>13, Zenon DEF Restart, Idle, envVars
  <2>2. TypeOK'
    <3>1. /\ arrived' \in [Object -> Time] /\ seen' \in [Object -> Time]
          /\ books' \in [Object -> Time] /\ lastSuccess' \in Time
          /\ times' \in [Object -> SUBSET Int]
      BY <1>13 DEF Restart, Idle, envVars
    <3>2. /\ answered' \subseteq Line /\ matched' \subseteq Line /\ counted' \subseteq Line
          /\ ticks' \subseteq [at : Int, recs : SUBSET Line]
      BY <1>13 DEF Restart, Idle, envVars
    <3>3. /\ queue' \subseteq Object /\ read' \subseteq Object \ queue' /\ unlisted' \subseteq Int
          /\ now' \in Int /\ until' \in Int /\ objects' \in Nat /\ matchedTotal' \in Nat
          /\ restarts' \in Nat
      BY <1>13 DEF Restart, Idle, envVars
    <3>4. /\ phase' \in {"wait", "scan", "finish", "commit", "prune"}
          /\ listErr' \in BOOLEAN /\ objErr' \in BOOLEAN
      BY <1>13 DEF Restart, Idle, envVars
    <3>5. QED
      BY <3>1, <3>2, <3>3, <3>4
  <2>3. Listed'
    BY <1>13 DEF Restart, Idle
  <2>4. QED
    BY <2>1, <2>2, <2>3
<1>14. CASE UNCHANGED vars
  BY <1>14 DEF vars, envVars, stateVars, scanVars, histVars
<1>15. QED
  BY <1>1, <1>2, <1>3, <1>4, <1>5, <1>6, <1>7, <1>8, <1>9, <1>10, <1>11,
     <1>12, <1>13, <1>14 DEF Next, Step, Fault

\* Every variable of every reachable state has its type, and no key that was
\* read in a tick is waiting to be read in it again.
THEOREM TypeCorrect == Spec => []TypeOK
<1>1. TypeOK /\ Finite /\ Listed /\ [Next]_vars => (TypeOK /\ Finite /\ Listed)'
  BY TypeStep
<1>2. QED
  BY TypeInit, <1>1, PTL DEF Spec
(***************************************************************************)
(* Keys. What is in hand during a tick, and why it was never committed.    *)
(***************************************************************************)

LEMMA ClockStep == TypeOK /\ Clock /\ [Next]_vars => Clock'
<1> SUFFICES ASSUME TypeOK, Clock, [Next]_vars
             PROVE  Clock'
  OBVIOUS
<1> USE DEF Clock, Present, TypeOK, Time, envVars, stateVars, scanVars, histVars
<1>1. CASE Advance
  BY <1>1, Consts DEF Advance
<1>2. ASSUME NEW k \in Object, NEW T \in Contents, Deliver(k, T)
      PROVE  Clock'
  <2>1. \A l \in Object \ {k} : arrived'[l] = arrived[l] /\ times'[l] = times[l]
    BY <1>2 DEF Deliver
  <2>2. arrived'[k] = now
    BY <1>2 DEF Deliver
  <2>3. now # None
    BY Consts
  <2>4. QED
    BY <1>2, <2>1, <2>2, <2>3 DEF Deliver
<1>3. CASE BeginTick
  BY <1>3 DEF BeginTick
<1>4. ASSUME NEW d \in unlisted, NEW K \in SUBSET Wanted(d), ListDay(d) \/ ListFails(d, K)
      PROVE  Clock'
  BY <1>4 DEF ListDay, ListFails
<1>5. ASSUME NEW k \in queue, NEW R \in SUBSET Match(k, until),
             (\E bad \in BOOLEAN : FetchReads(k, bad)) \/ FetchFails(k, R)
      PROVE  Clock'
  BY <1>5 DEF FetchReads, FetchFails
<1>6. CASE EndScan \/ FinishDelivers
  BY <1>6 DEF EndScan, FinishDelivers
<1>7. CASE Commit
  BY <1>7, Consts DEF Commit
<1>8. CASE Prune
  BY <1>8 DEF Prune, Idle
<1>9. ASSUME NEW L \in SUBSET matched, AbortScan(L) \/ FinishFails(L)
      PROVE  Clock'
  BY <1>9 DEF AbortScan, FinishFails
<1>10. ASSUME NEW L \in SUBSET matched, Restart(L)
       PROVE  Clock'
  BY <1>10 DEF Restart, Idle
<1>11. CASE UNCHANGED vars
  BY <1>11 DEF vars
<1>12. QED
  BY <1>1, <1>2, <1>3, <1>4, <1>5, <1>6, <1>7, <1>8, <1>9, <1>10, <1>11
  DEF Next, Step, Fault

LEMMA InHandStep == TypeOK /\ Clock /\ Listed /\ InHand /\ [Next]_vars => InHand'
<1> SUFFICES ASSUME TypeOK, Clock, Listed, InHand, [Next]_vars
             PROVE  InHand'
  OBVIOUS
<1> USE DEF InHand, InTick, envVars, stateVars, scanVars, histVars
<1>1. CASE Advance
  BY <1>1 DEF Advance, Match, Filed
<1>2. ASSUME NEW k \in Object, NEW T \in Contents, Deliver(k, T)
      PROVE  InHand'
  <2>1. CASE ~InTick
    BY <1>2, <2>1 DEF Deliver
  <2>2. CASE InTick
    <3>1. \A l \in Object \ {k} : arrived'[l] = arrived[l] /\ times'[l] = times[l]
      BY <1>2 DEF Deliver, TypeOK
    <3>2. k \notin queue \cup read
      BY <1>2 DEF Deliver, Listed, Present
    <3>3. \A r \in matched : r[1] \in Object \ {k}
      <4>1. times[k] = {}
        BY <1>2 DEF Deliver, Clock, Present
      <4>2. QED
        BY <2>2, <4>1 DEF TypeOK, Line, Match
    <3>4. \A l \in queue \cup read : Filed(l)' \in ScopeDays(until)
      BY <2>2, <3>1, <3>2 DEF Filed, TypeOK
    <3>5. \A l \in Object \ {k} : Match(l, until)' = Match(l, until)
      BY <1>2, <3>1 DEF Match, Deliver
    <3>6. QED
      BY <1>2, <2>2, <3>2, <3>3, <3>4, <3>5 DEF Deliver, TypeOK
  <2>3. QED
    BY <2>1, <2>2
<1>3. CASE BeginTick
  BY <1>3 DEF BeginTick
<1>4. ASSUME NEW d \in unlisted, NEW K \in SUBSET Wanted(d), ListDay(d) \/ ListFails(d, K)
      PROVE  InHand'
  <2>1. queue' \subseteq queue \cup Wanted(d)
    BY <1>4 DEF ListDay, ListFails
  <2>2. \A k \in Wanted(d) : Filed(k) \in ScopeDays(until)
    BY <1>4 DEF Wanted, ListDay, ListFails
  <2>3. QED
    BY <1>4, <2>1, <2>2 DEF ListDay, ListFails, Filed, Match
<1>5. ASSUME NEW k \in queue, NEW bad \in BOOLEAN, FetchReads(k, bad)
      PROVE  InHand'
  <2>1. \A r \in Match(k, until) : r[1] = k
    BY DEF Match
  <2>2. QED
    BY <1>5, <2>1 DEF FetchReads, Filed, Match
<1>6. ASSUME NEW k \in queue, NEW R \in SUBSET Match(k, until), FetchFails(k, R)
      PROVE  InHand'
  <2>1. \A r \in R : r[1] = k
    BY DEF Match
  <2>2. QED
    BY <1>6, <2>1, Consts DEF FetchFails, Filed, Match
<1>7. CASE EndScan \/ FinishDelivers
  BY <1>7 DEF EndScan, FinishDelivers, Filed, Match
<1>8. CASE Commit \/ Prune
  BY <1>8 DEF Commit, Prune, Idle
<1>9. ASSUME NEW L \in SUBSET matched, AbortScan(L) \/ FinishFails(L) \/ Restart(L)
      PROVE  InHand'
  BY <1>9 DEF AbortScan, FinishFails, Restart, Idle
<1>10. CASE UNCHANGED vars
  BY <1>10 DEF vars, Filed, Match
<1>11. QED
  BY <1>1, <1>2, <1>3, <1>4, <1>5, <1>6, <1>7, <1>8, <1>9, <1>10
  DEF Next, Step, Fault

\* A key that a day listing yields was never committed: a committed key is
\* skipped, or has left the seen set and its day has left the scope.
LEMMA WantedFresh ==
  ASSUME TypeOK, InHand, Books, phase = "scan",
         NEW d \in unlisted, NEW k \in Wanted(d)
  PROVE  books[k] = None
<1>1. k \in Object /\ arrived[k] \in Int /\ Filed(k) = d /\ ~isSeen(k)
  BY DEF Wanted, Present, TypeOK, Time
<1>2. ScopeStart(until) <= Filed(k)
  BY <1>1 DEF InHand, InTick, ScopeDays
<1>3. Since(until) \in Int
  BY Consts DEF Since, TypeOK
<1>4. Since(until) < ScopeStart(until) + Day /\ ScopeStart(until) \in Int
  BY <1>3, TruncateBounds DEF ScopeStart
<1>5. Filed(k) \in Int
  BY <1>1, TruncateBounds DEF Filed
<1>6. ~(Filed(k) + Day < Since(Horizon))
  BY <1>2, <1>3, <1>4, <1>5, Consts DEF Horizon
<1>7. QED
  BY <1>1, <1>6 DEF Books, Committed

\* Two days past the lookback are enough: a tick that crosses midnight commits
\* keys filed a day after it started, and that day is a whole day before the
\* next window when they leave the seen set.
LEMMA ExpiredGone ==
  ASSUME TypeOK, Clock, Books, phase = "prune", NEW k \in Object, Expired(k)
  PROVE  Filed(k) + Day < Since(now)
<1>1. seen[k] \in Int /\ seen[k] = books[k] /\ k \in Committed
  BY DEF Expired, isSeen, Books, TypeOK, Time, Committed
<1>2. seen[k] < until - (Lookback + 2 * Day)
  BY DEF Expired, seenRetention
<1>3. Filed(k) <= Truncate(seen[k]) + Day
  BY <1>1 DEF Books, ScopeEnd
<1>4. Truncate(seen[k]) \in Int /\ Truncate(seen[k]) <= seen[k]
  BY <1>1, TruncateBounds
<1>5. until \in Int /\ now \in Int /\ until <= now
  BY DEF Clock, TypeOK
<1>6. arrived[k] \in Int
  BY <1>1 DEF Books, Present, TypeOK, Time
<1>7. Filed(k) \in Int
  BY <1>6, TruncateBounds DEF Filed
<1>8. QED
  BY <1>1, <1>2, <1>3, <1>4, <1>5, <1>7, Consts DEF Since

LEMMA FreshStep == TypeOK /\ InHand /\ Fresh /\ Books /\ [Next]_vars => Fresh'
<1> SUFFICES ASSUME TypeOK, InHand, Fresh, Books, [Next]_vars
             PROVE  Fresh'
  OBVIOUS
<1> USE DEF Fresh, InTick, envVars, stateVars, scanVars, histVars
<1>1. CASE Advance
  BY <1>1 DEF Advance
<1>2. ASSUME NEW k \in Object, NEW T \in Contents, Deliver(k, T)
      PROVE  Fresh'
  BY <1>2 DEF Deliver
<1>3. CASE BeginTick
  BY <1>3 DEF BeginTick
<1>4. ASSUME NEW d \in unlisted, NEW K \in SUBSET Wanted(d), ListDay(d) \/ ListFails(d, K)
      PROVE  Fresh'
  <2>1. phase = "scan"
    BY <1>4 DEF ListDay, ListFails
  <2>2. \A k \in Wanted(d) : books[k] = None
    BY <2>1, WantedFresh
  <2>3. QED
    BY <1>4, <2>1, <2>2 DEF ListDay, ListFails
<1>5. ASSUME NEW k \in queue, NEW R \in SUBSET Match(k, until),
             (\E bad \in BOOLEAN : FetchReads(k, bad)) \/ FetchFails(k, R)
      PROVE  Fresh'
  BY <1>5 DEF FetchReads, FetchFails
<1>6. CASE EndScan \/ FinishDelivers
  BY <1>6 DEF EndScan, FinishDelivers
<1>7. CASE Commit \/ Prune
  BY <1>7 DEF Commit, Prune, Idle
<1>8. ASSUME NEW L \in SUBSET matched, AbortScan(L) \/ FinishFails(L) \/ Restart(L)
      PROVE  Fresh'
  BY <1>8 DEF AbortScan, FinishFails, Restart, Idle
<1>9. CASE UNCHANGED vars
  BY <1>9 DEF vars
<1>10. QED
  BY <1>1, <1>2, <1>3, <1>4, <1>5, <1>6, <1>7, <1>8, <1>9 DEF Next, Step, Fault

LEMMA BooksStep ==
  TypeOK /\ Clock /\ Listed /\ InHand /\ Fresh /\ Books /\ [Next]_vars => Books'
<1> SUFFICES ASSUME TypeOK, Clock, Listed, InHand, Fresh, Books, [Next]_vars
             PROVE  Books'
  OBVIOUS
<1> USE DEF envVars, stateVars, scanVars, histVars
<1>0. /\ now \in Int /\ until \in Int /\ Lookback \in Int /\ Day \in Int
      /\ \A k \in Present : Filed(k) \in Int
  BY Consts, TruncateBounds DEF TypeOK, Time, Present, Filed
<1>1. CASE Advance
  BY <1>0, <1>1 DEF Advance, Books, Committed, isSeen, Present, Filed, Horizon, Since
<1>2. ASSUME NEW k \in Object, NEW T \in Contents, Deliver(k, T)
      PROVE  Books'
  <2>1. k \notin Committed
    BY <1>2 DEF Deliver, Books, Present
  <2>2. \A l \in Object \ {k} : arrived'[l] = arrived[l]
    BY <1>2 DEF Deliver, TypeOK
  <2>3. \A l \in Committed : Filed(l)' = Filed(l) /\ (l \in Present => l \in Present')
    BY <2>1, <2>2 DEF Filed, Present, Committed
  <2>4. UNCHANGED <<seen, books, now, until, phase>>
    BY <1>2 DEF Deliver
  <2>5. QED
    BY <2>3, <2>4 DEF Books, Committed, isSeen, Horizon
<1>3. CASE BeginTick
  BY <1>3 DEF BeginTick, Books, Committed, isSeen, Present, Filed, Horizon
<1>4. ASSUME NEW d \in unlisted, NEW K \in SUBSET Wanted(d), ListDay(d) \/ ListFails(d, K)
      PROVE  Books'
  BY <1>4 DEF ListDay, ListFails, Books, Committed, isSeen, Present, Filed, Horizon
<1>5. ASSUME NEW k \in queue, NEW R \in SUBSET Match(k, until),
             (\E bad \in BOOLEAN : FetchReads(k, bad)) \/ FetchFails(k, R)
      PROVE  Books'
  BY <1>5 DEF FetchReads, FetchFails, Books, Committed, isSeen, Present, Filed, Horizon
<1>6. CASE EndScan \/ FinishDelivers
  BY <1>6 DEF EndScan, FinishDelivers, Books, Committed, isSeen, Present, Filed, Horizon
<1>7. CASE Commit
  <2>1. \A k \in read : k \in Present /\ ~isSeen(k) /\ Filed(k) <= ScopeEnd(until)
    BY <1>7 DEF Commit, Listed, InHand, Fresh, Books, InTick, ScopeDays, isSeen, TypeOK, Time
  <2>2. \A k \in Object : IF k \in read THEN seen'[k] = until /\ books'[k] = until
                                        ELSE seen'[k] = seen[k] /\ books'[k] = books[k]
    BY <1>7, <2>1 DEF Commit
  <2>3. until # None
    BY <1>0, Consts
  <2>4. UNCHANGED <<arrived, until>> /\ Horizon' = Horizon
    BY <1>7 DEF Commit, Horizon
  <2>5. QED
    BY <2>1, <2>2, <2>3, <2>4 DEF Books, Committed, isSeen, Present, Filed
<1>8. CASE Prune
  <2>1. phase = "prune" /\ Horizon = until /\ Horizon' = now /\ until <= now
    BY <1>8 DEF Prune, Idle, Horizon, Clock
  <2>2. \A k \in Object : IF Expired(k) THEN seen'[k] = None ELSE seen'[k] = seen[k]
    BY <1>8 DEF Prune
  <2>3. UNCHANGED <<arrived, books>>
    BY <1>8 DEF Prune
  <2>4. \A k \in Object : Expired(k) => Filed(k) + Day < Since(now)
    BY <2>1, ExpiredGone
  <2>5. \A k \in Present : Filed(k) + Day < Since(until) => Filed(k) + Day < Since(now)
    BY <1>0, <2>1 DEF Since
  <2>6. QED
    BY <2>1, <2>2, <2>3, <2>4, <2>5 DEF Books, Committed, isSeen, Present, Filed
<1>9. ASSUME NEW L \in SUBSET matched, AbortScan(L) \/ FinishFails(L)
      PROVE  Books'
  BY <1>9 DEF AbortScan, FinishFails, Books, Committed, isSeen, Present, Filed, Horizon
<1>10. ASSUME NEW L \in SUBSET matched, Restart(L)
       PROVE  Books'
  BY <1>10 DEF Restart, Books, Committed, isSeen
<1>11. CASE UNCHANGED vars
  BY <1>11 DEF vars, Books, Committed, isSeen, Present, Filed, Horizon
<1>12. QED
  BY <1>1, <1>2, <1>3, <1>4, <1>5, <1>6, <1>7, <1>8, <1>9, <1>10, <1>11
  DEF Next, Step, Fault

(***************************************************************************)
(* The books: counters, kept ticks and the last success.                   *)
(***************************************************************************)

\* Only Commit and Restart touch what the books are made of.
LEMMA TallyStep ==
  TypeOK /\ Finite /\ InHand /\ Fresh /\ Tally /\ [Next]_vars => Tally'
<1> SUFFICES ASSUME TypeOK, Finite, InHand, Fresh, Tally, [Next]_vars
             PROVE  Tally'
  OBVIOUS
<1> USE DEF envVars, stateVars, scanVars, histVars
<1>1. CASE UNCHANGED <<objects, matchedTotal, books, counted>>
  BY <1>1 DEF Tally, Committed
<1>2. CASE Commit
  <2>1. \A k \in read : books[k] = None
    BY <1>2 DEF Commit, Fresh, InTick
  <2>2. Committed' = Committed \cup read /\ Committed \cap read = {}
    <3>1. until # None
      BY Consts DEF TypeOK
    <3>2. \A k \in Object : books'[k] = IF k \in read THEN until ELSE books[k]
      BY <1>2 DEF Commit
    <3>3. read \subseteq Object
      BY DEF TypeOK
    <3>4. QED
      BY <2>1, <3>1, <3>2, <3>3 DEF Committed
  <2>3. IsFiniteSet(Committed) /\ IsFiniteSet(read)
    BY Consts, FS_Subset DEF Committed, TypeOK
  <2>4. Cardinality(Committed') = Cardinality(Committed) + Cardinality(read)
    <3>1. Cardinality(Committed \cap read) = 0
      BY <2>2, FS_EmptySet
    <3>2. Cardinality(Committed) \in Nat /\ Cardinality(read) \in Nat
      BY <2>3, FS_CardinalityType
    <3>3. Cardinality(Committed \cup read)
            = Cardinality(Committed) + Cardinality(read) - Cardinality(Committed \cap read)
      BY <2>3, FS_Union
    <3>4. QED
      BY <2>2, <3>1, <3>2, <3>3
  <2>5. objects' = Cardinality(Committed')
    BY <1>2, <2>4 DEF Commit, Tally
  <2>6. ASSUME ~Streams
        PROVE  /\ matchedTotal' = Cardinality(counted')
               /\ \A r \in counted' : r[1] \in Committed'
    <3>1. \A r \in matched : r[1] \in read
      BY <1>2, <2>6 DEF Commit, InHand, InTick
    <3>2. counted \cap matched = {}
      BY <2>2, <2>6, <3>1 DEF Tally
    <3>3. IsFiniteSet(counted) /\ IsFiniteSet(matched)
      BY DEF Finite
    <3>4. Cardinality(counted \cap matched) = 0
      BY <3>2, FS_EmptySet
    <3>5. Cardinality(counted) \in Nat /\ Cardinality(matched) \in Nat
      BY <3>3, FS_CardinalityType
    <3>6. Cardinality(counted \cup matched)
            = Cardinality(counted) + Cardinality(matched) - Cardinality(counted \cap matched)
      BY <3>3, FS_Union
    <3>7. Cardinality(counted \cup matched) = Cardinality(counted) + Cardinality(matched)
      BY <3>4, <3>5, <3>6
    <3>8. matchedTotal' = Cardinality(counted')
      BY <1>2, <2>6, <3>7 DEF Commit, Tally
    <3>9. \A r \in counted' : r[1] \in Committed'
      BY <1>2, <2>2, <2>6, <3>1 DEF Commit, Tally
    <3>10. QED
      BY <3>8, <3>9
  <2>7. QED
    BY <2>5, <2>6 DEF Tally
<1>3. ASSUME NEW L \in SUBSET matched, Restart(L)
      PROVE  Tally'
  <2>1. Committed' = {} /\ counted' = {} /\ objects' = 0 /\ matchedTotal' = 0
    BY <1>3 DEF Restart, Committed
  <2>2. Cardinality({}) = 0
    BY FS_EmptySet
  <2>3. QED
    BY <2>1, <2>2 DEF Tally
<1>4. QED
  BY <1>1, <1>2, <1>3
  DEF Next, Step, Fault, Advance, Deliver, BeginTick, ListDay, ListFails, FetchReads,
      FetchFails, EndScan, FinishDelivers, AbortScan, FinishFails, Prune, vars

LEMMA ReportedStep ==
  TypeOK /\ Clock /\ InHand /\ Fresh /\ Tally /\ Reported /\ [Next]_vars => Reported'
<1> SUFFICES ASSUME TypeOK, Clock, InHand, Fresh, Tally, Reported, [Next]_vars
             PROVE  Reported'
  OBVIOUS
<1> USE DEF envVars, stateVars, scanVars, histVars
<1>0. /\ now \in Int /\ until \in Int /\ Lookback \in Int
      /\ \A r \in counted : r[2] \in Int
      /\ \A t \in ticks : t.at \in Int
  BY Consts DEF TypeOK, Line
<1>1. CASE UNCHANGED <<now, ticks, counted>>
  BY <1>1 DEF Reported
<1>2. CASE Advance
  BY <1>0, <1>2 DEF Advance, Reported
<1>3. CASE Commit
  <2>1. DEFINE new == [at |-> until, recs |-> matched]
  <2>2. ticks' = ticks \cup {new} /\ counted' = counted \cup matched /\ now' = now
    BY <1>3 DEF Commit
  <2>3. \A r \in matched : r[2] < until
    BY <1>3 DEF Commit, InHand, InTick, Match
  <2>4. ~Streams => \A t \in ticks : t.recs \cap matched = {}
    <3>1. ~Streams => \A r \in matched : books[r[1]] = None
      BY <1>3 DEF Commit, InHand, InTick, Fresh
    <3>2. ~Streams => \A t \in ticks : \A r \in t.recs : books[r[1]] # None
      BY DEF Reported, Tally, Committed
    <3>3. QED
      BY <3>1, <3>2
  <2>5. new.at = until /\ new.recs = matched
    OBVIOUS
  <2> HIDE DEF new
  <2>6. \A t \in ticks' : \A r \in t.recs : r \in counted' /\ r[2] < t.at
    BY <2>2, <2>3, <2>5 DEF Reported
  <2>7. \A r \in counted' : r[2] >= now' - Lookback => \E t \in ticks' : r \in t.recs
    BY <2>2, <2>5 DEF Reported
  <2>8. ~Streams => \A s, t \in ticks' : s # t => s.recs \cap t.recs = {}
    BY <2>2, <2>4, <2>5 DEF Reported
  <2>9. QED
    BY <2>6, <2>7, <2>8 DEF Reported
<1>4. CASE Prune
  <2>1. ticks' = {t \in ticks : Kept(t)} /\ counted' = counted /\ now' = now /\ until <= now
    BY <1>4 DEF Prune, Clock
  <2>2. ASSUME NEW r \in counted, r[2] >= now - Lookback
        PROVE  \E t \in ticks' : r \in t.recs
    <3>1. PICK t \in ticks : r \in t.recs
      BY <2>2 DEF Reported
    <3>2. r[2] < t.at
      BY <3>1 DEF Reported
    <3>3. Kept(t)
      BY <1>0, <2>1, <2>2, <3>2 DEF Kept, Since
    <3>4. QED
      BY <2>1, <3>1, <3>3
  <2>3. QED
    BY <2>1, <2>2 DEF Reported
<1>5. ASSUME NEW L \in SUBSET matched, Restart(L)
      PROVE  Reported'
  BY <1>5 DEF Restart, Reported
<1>6. QED
  BY <1>1, <1>2, <1>3, <1>4, <1>5
  DEF Next, Step, Fault, Deliver, BeginTick, ListDay, ListFails, FetchReads,
      FetchFails, EndScan, FinishDelivers, AbortScan, FinishFails, vars

LEMMA CoveredStep ==
  TypeOK /\ Clock /\ Books /\ Covered /\ [Next]_vars => Covered'
<1> SUFFICES ASSUME TypeOK, Clock, Books, Covered, [Next]_vars
             PROVE  Covered'
  OBVIOUS
<1> USE DEF InTick, Errs, envVars, stateVars, scanVars, histVars
<1>0. \A k \in Present : arrived[k] \in Int /\ k \in Object
  BY DEF Present, TypeOK, Time
<1>1. CASE Advance
  BY <1>1 DEF Advance, Covered, Present, Filed, Committed
<1>2. ASSUME NEW k \in Object, NEW T \in Contents, Deliver(k, T)
      PROVE  Covered'
  <2>1. \A l \in Object \ {k} : arrived'[l] = arrived[l]
    BY <1>2 DEF Deliver, TypeOK
  <2>2. arrived'[k] = now
    BY <1>2 DEF Deliver, TypeOK
  <2>3. phase # "wait" => ~(now < until)
    BY DEF Clock, TypeOK
  <2>4. UNCHANGED <<phase, until, unlisted, queue, read, listErr, objErr, books>>
    BY <1>2 DEF Deliver
  <2>5. \A l \in Object \ {k} : /\ l \in Present' <=> l \in Present
                                 /\ Filed(l)' = Filed(l)
    BY <2>1 DEF Present, Filed
  <2>6. QED
    BY <2>1, <2>2, <2>3, <2>4, <2>5 DEF Covered, Committed, Present
<1>3. CASE BeginTick
  <2>1. /\ until' = now /\ unlisted' = ScopeDays(now) /\ UNCHANGED <<arrived, books>>
    BY <1>3 DEF BeginTick
  <2>2. ASSUME NEW k \in Present, arrived[k] < now, ScopeStart(now) <= Filed(k)
        PROVE  Filed(k) \in ScopeDays(now)
    <3>1. /\ Filed(k) \in Int /\ Filed(k) <= arrived[k] /\ Filed(k) % Day = 0
          /\ arrived[k] \in Int
      BY <1>0, TruncateBounds, TruncateDay DEF Filed
    <3>2. now \in Int /\ now < Truncate(now) + Day /\ Truncate(now) \in Int
      BY TruncateBounds DEF TypeOK
    <3>3. Since(now) \in Int /\ ScopeStart(now) \in Int
      BY <3>2, Consts, TruncateBounds DEF Since, ScopeStart
    <3>4. Filed(k) <= ScopeEnd(now) /\ ScopeEnd(now) \in Int
      BY <2>2, <3>1, <3>2, Consts DEF ScopeEnd
    <3>5. QED
      BY <2>2, <3>1, <3>3, <3>4 DEF ScopeDays
  <2>3. QED
    BY <2>1, <2>2 DEF Covered, Present, Filed, Committed
<1>4. ASSUME NEW d \in unlisted, ListDay(d)
      PROVE  Covered'
  <2>1. \A k \in Present : Filed(k) = d => k \in Wanted(d) \/ k \in Committed
    <3>1. \A k \in Object : isSeen(k) => k \in Committed
      BY DEF Books, isSeen, Committed
    <3>2. QED
      BY <1>0, <3>1 DEF Wanted
  <2>2. UNCHANGED <<arrived, books, until, read, listErr, objErr, phase>>
    BY <1>4 DEF ListDay
  <2>3. unlisted' = unlisted \ {d} /\ queue' = queue \cup Wanted(d)
    BY <1>4 DEF ListDay
  <2>4. QED
    BY <2>1, <2>2, <2>3 DEF Covered, Present, Filed, Committed
<1>5. ASSUME NEW d \in unlisted, NEW K \in SUBSET Wanted(d), ListFails(d, K)
      PROVE  Covered'
  BY <1>5 DEF ListFails, Covered
<1>6. ASSUME NEW k \in queue, NEW bad \in BOOLEAN, FetchReads(k, bad)
      PROVE  Covered'
  BY <1>6 DEF FetchReads, Covered, Present, Filed, Committed
<1>7. ASSUME NEW k \in queue, NEW R \in SUBSET Match(k, until), FetchFails(k, R)
      PROVE  Covered'
  BY <1>7 DEF FetchFails, Covered
<1>8. CASE EndScan \/ FinishDelivers
  BY <1>8 DEF EndScan, FinishDelivers, Covered, Present, Filed, Committed
<1>9. CASE Commit \/ Prune
  BY <1>9 DEF Commit, Prune, Idle, Covered
<1>10. ASSUME NEW L \in SUBSET matched, AbortScan(L) \/ FinishFails(L) \/ Restart(L)
       PROVE  Covered'
  BY <1>10 DEF AbortScan, FinishFails, Restart, Idle, Covered
<1>11. CASE UNCHANGED vars
  BY <1>11 DEF vars, Covered, Present, Filed, Committed
<1>12. QED
  BY <1>1, <1>2, <1>3, <1>4, <1>5, <1>6, <1>7, <1>8, <1>9, <1>10, <1>11
  DEF Next, Step, Fault

LEMMA CaughtUpStep ==
  TypeOK /\ Clock /\ InHand /\ Covered /\ CaughtUp /\ [Next]_vars => CaughtUp'
<1> SUFFICES ASSUME TypeOK, Clock, InHand, Covered, CaughtUp, [Next]_vars
             PROVE  CaughtUp'
  OBVIOUS
<1> USE DEF envVars, stateVars, scanVars, histVars
<1>1. CASE UNCHANGED <<arrived, lastSuccess, books>>
  BY <1>1 DEF CaughtUp, Present, Filed, Committed
<1>2. ASSUME NEW k \in Object, NEW T \in Contents, Deliver(k, T)
      PROVE  CaughtUp'
  <2>1. \A l \in Object \ {k} : arrived'[l] = arrived[l]
    BY <1>2 DEF Deliver, TypeOK
  <2>2. arrived'[k] = now
    BY <1>2 DEF Deliver, TypeOK
  <2>3. lastSuccess # None => ~(now < lastSuccess)
    BY DEF Clock, TypeOK, Time
  <2>4. UNCHANGED <<lastSuccess, books>>
    BY <1>2 DEF Deliver
  <2>5. \A l \in Object \ {k} : /\ l \in Present' <=> l \in Present
                                 /\ Filed(l)' = Filed(l)
    BY <2>1 DEF Present, Filed
  <2>6. QED
    BY <2>1, <2>2, <2>3, <2>4, <2>5 DEF CaughtUp, Committed, Present
<1>3. CASE Commit
  <2>1. Committed \cup read \subseteq Committed'
    <3>1. until # None
      BY Consts DEF TypeOK
    <3>2. \A k \in Object : books'[k] = IF k \in read THEN until ELSE books[k]
      BY <1>3 DEF Commit
    <3>3. read \subseteq Object
      BY DEF TypeOK
    <3>4. QED
      BY <3>1, <3>2, <3>3 DEF Committed
  <2>2. UNCHANGED arrived /\ InTick /\ unlisted = {} /\ queue = {}
    BY <1>3 DEF Commit, InTick, InHand
  <2>3. CASE Errs
    BY <1>3, <2>1, <2>2, <2>3 DEF Commit, CaughtUp, Present, Filed
  <2>4. CASE ~Errs
    <3>1. lastSuccess' = until
      BY <1>3, <2>4 DEF Commit
    <3>2. \A k \in Present : arrived[k] < until /\ Truncate(until - Lookback) <= Filed(k)
                             => k \in Committed \cup read
      BY <2>2, <2>4 DEF Covered, ScopeStart, Since
    <3>3. QED
      BY <2>1, <2>2, <3>1, <3>2 DEF CaughtUp, Present, Filed
  <2>5. QED
    BY <2>3, <2>4
<1>4. ASSUME NEW L \in SUBSET matched, Restart(L)
      PROVE  CaughtUp'
  BY <1>4 DEF Restart, CaughtUp
<1>5. QED
  BY <1>1, <1>2, <1>3, <1>4
  DEF Next, Step, Fault, Advance, BeginTick, ListDay, ListFails, FetchReads,
      FetchFails, EndScan, FinishDelivers, AbortScan, FinishFails, Prune, vars

(***************************************************************************)
(* The theorems.                                                           *)
(***************************************************************************)

LEMMA InvInit == Init => IInv
<1> SUFFICES ASSUME Init
             PROVE  IInv
  OBVIOUS
<1>1. TypeOK /\ Finite /\ Listed
  BY TypeInit
<1>2. Cardinality({}) = 0
  BY FS_EmptySet
<1>3. Committed = {}
  BY DEF Init, Committed
<1>4. Tally
  BY <1>2, <1>3 DEF Init, Tally
<1>5. Clock /\ CaughtUp
  BY DEF Init, Clock, CaughtUp, Present
<1>6. InHand /\ Fresh /\ Covered
  BY DEF Init, InHand, Fresh, Covered, InTick
<1>7. Books /\ Reported
  BY <1>3 DEF Init, Books, Reported, isSeen
<1>8. QED
  BY <1>1, <1>4, <1>5, <1>6, <1>7 DEF IInv

\* The inductive invariant holds in every reachable state.
THEOREM Invariance == Spec => []IInv
<1>1. IInv /\ [Next]_vars => IInv'
  <2> SUFFICES ASSUME IInv, [Next]_vars
               PROVE  IInv'
    OBVIOUS
  <2> USE DEF IInv
  <2>1. TypeOK' /\ Finite' /\ Listed'
    BY TypeStep
  <2>2. Clock' /\ InHand'
    BY ClockStep, InHandStep
  <2>3. Fresh' /\ Books'
    BY FreshStep, BooksStep
  <2>4. Tally' /\ Reported'
    BY TallyStep, ReportedStep
  <2>5. Covered' /\ CaughtUp'
    BY CoveredStep, CaughtUpStep
  <2>6. QED
    BY <2>1, <2>2, <2>3, <2>4, <2>5
<1>2. QED
  BY InvInit, <1>1, PTL DEF Spec

\* The objects counter is the number of distinct objects committed, whatever
\* the length of a tick: serveState.commit never counts an object twice.
THEOREM ObjectsOnce == Spec => []ObjectsCountedOnce
<1>1. IInv => ObjectsCountedOnce
  BY DEF IInv, Tally, ObjectsCountedOnce
<1>2. QED
  BY Invariance, <1>1, PTL

\* Every scan but that of flow logs counts each record once, in the totals and
\* in the merged report.
THEOREM RecordsOnce ==
  ASSUME ~Streams
  PROVE  Spec => []RecordsCountedOnce
<1>1. IInv => RecordsCountedOnce
  BY DEF IInv, Tally, Reported, RecordsCountedOnce
<1>2. QED
  BY Invariance, <1>1, PTL

\* /report never lacks a committed record of the last Lookback.
THEOREM ReportIsComplete == Spec => []ReportComplete
<1>1. IInv => ReportComplete
  BY DEF IInv, Reported, ReportComplete
<1>2. QED
  BY Invariance, <1>1, PTL

\* The last-success gauge never runs ahead of the objects.
THEOREM SuccessIsCaughtUp == Spec => []CaughtUp
<1>1. IInv => CaughtUp
  BY DEF IInv
<1>2. QED
  BY Invariance, <1>1, PTL

\* serve is a ledger: an object enters the books at most once per process, and
\* only when Loki has answered for every line its window selects.
THEOREM Refinement == Spec => ImplementsLedger
<1>1. Init => LedgerOf!Init
  BY DEF Init, LedgerOf!Init
<1>2. IInv /\ [Next]_vars => [LedgerOf!Next]_(LedgerOf!ledgerVars)
  <2> SUFFICES ASSUME IInv, [Next]_vars
               PROVE  [LedgerOf!Next]_(LedgerOf!ledgerVars)
    OBVIOUS
  <2> USE DEF envVars, stateVars, scanVars, histVars, LedgerOf!ledgerVars
  <2>1. CASE UNCHANGED <<arrived, times, answered, books>>
    BY <2>1
  <2>2. ASSUME NEW k \in Object, NEW T \in Contents, Deliver(k, T)
        PROVE  LedgerOf!Next
    <3>1. LedgerOf!Arrive(k)
      BY <2>2 DEF Deliver, LedgerOf!Arrive, IInv, TypeOK
    <3>2. QED
      BY <3>1 DEF LedgerOf!Next
  <2>3. CASE FinishDelivers
    BY <2>3 DEF FinishDelivers, LedgerOf!Next, LedgerOf!Answer
  <2>4. CASE Commit
    <3>1. until # None
      BY Consts DEF IInv, TypeOK
    <3>2. \A k \in Object : books'[k] = IF k \in read THEN until ELSE books[k]
      BY <2>4 DEF Commit
    <3>3. read \subseteq Object
      BY DEF IInv, TypeOK
    <3>4. \A k \in read : arrived[k] # None /\ books[k] = None
      BY <2>4 DEF Commit, IInv, Listed, Present, Fresh, InTick
    <3>5. \A k \in read : LedgerOf!Lines(k, until) \subseteq answered
      BY <2>4 DEF Commit, IInv, InHand, InTick, Match, Since, LedgerOf!Lines
    <3>6. books' = [k \in Object |-> IF k \in read THEN books'[k] ELSE books[k]]
      BY <2>4, <3>2 DEF Commit
    <3>7. UNCHANGED <<arrived, times, answered>>
      BY <2>4 DEF Commit
    <3>8. LedgerOf!Enter(read)
      BY <3>1, <3>2, <3>3, <3>4, <3>5, <3>6, <3>7 DEF LedgerOf!Enter
    <3>9. QED
      BY <3>3, <3>8 DEF LedgerOf!Next
  <2>5. ASSUME NEW L \in SUBSET matched, AbortScan(L) \/ FinishFails(L)
        PROVE  LedgerOf!Next
    BY <2>5 DEF AbortScan, FinishFails, LedgerOf!Next, LedgerOf!Answer
  <2>6. ASSUME NEW L \in SUBSET matched, Restart(L)
        PROVE  LedgerOf!Next
    BY <2>6 DEF Restart, LedgerOf!Next, LedgerOf!Forget
  <2>7. QED
    BY <2>1, <2>2, <2>3, <2>4, <2>5, <2>6
    DEF Next, Step, Fault, Advance, BeginTick, ListDay, ListFails, FetchReads,
        FetchFails, EndScan, Prune, Idle, vars
<1>3. QED
  BY Invariance, <1>1, <1>2, PTL DEF Spec, ImplementsLedger, LedgerOf!Spec
=============================================================================
