----------------------- MODULE TaskManagerRefinement -----------------------
(***************************************************************************)
(* Proof that the task manager implements the abstract pool of JobPool.    *)
(***************************************************************************)
EXTENDS TaskManagerProofs

Waiting == Front(pending, Len(pending))
Stages == [t \in Task |-> PoolStage(t)]

\* JobPool counts as TaskManager does.
LEMMA SameCardinality ==
  ASSUME NEW S
  PROVE  Pool!Cardinality(S) = Cardinality(S)
  BY DEF Pool!Cardinality, Cardinality

\* A task waits in the queue, has a slot, or is outside of both.
LEMMA StageCases ==
  ASSUME NEW t
  PROVE  PoolStage(t) = IF t \in Waiting THEN "waiting"
                        ELSE IF t \in running THEN "active"
                        ELSE IF row[t] = "new" THEN "fresh" ELSE "over"
  BY DEF PoolStage, Waiting

\* The same of the next state.
LEMMA NextStageCases ==
  ASSUME NEW t
  PROVE  PoolStage(t)' = IF t \in Waiting' THEN "waiting"
                         ELSE IF t \in running' THEN "active"
                         ELSE IF row'[t] = "new" THEN "fresh" ELSE "over"
  BY DEF PoolStage, Waiting

\* A step that keeps the queue, the slots and who was submitted is invisible.
LEMMA SameStages ==
  ASSUME pending' = pending, running' = running, concurrency' = concurrency,
         \A t \in Task \ running : row'[t] = "new" <=> row[t] = "new"
  PROVE  UNCHANGED Pool!poolVars
<1>1. Waiting' = Waiting
  BY DEF Waiting, Front
<1>2. \A t \in Task : PoolStage(t)' = PoolStage(t)
  BY <1>1, StageCases, NextStageCases
<1>3. QED
  BY <1>2 DEF Pool!poolVars

\* The whole queue is its front and the rest.
LEMMA FrontAndRest ==
  ASSUME NEW busy, NEW q, FreshQueue(q, busy), NEW n \in 0..Len(q),
         NEW r, r = Rest(q, n)
  PROVE  /\ Front(q, Len(q)) = Front(q, n) \cup Front(r, Len(r))
         /\ Front(q, n) \cap Front(r, Len(r)) = {}
         /\ r = <<>> => Front(q, Len(q)) = Front(q, n)
<1>1. /\ Len(q) \in Nat /\ DOMAIN q = 1..Len(q) /\ n \in Nat /\ n <= Len(q)
      /\ Len(r) = Len(q) - n
      /\ \A i \in DOMAIN r : r[i] = q[i + n]
      /\ DOMAIN r = 1..(Len(q) - n)
  <2>1. /\ \A i \in DOMAIN Rest(q, n) :
              i + n \in DOMAIN q /\ Rest(q, n)[i] = q[i + n]
        /\ Len(Rest(q, n)) = Len(q) - n
        /\ FreshQueue(Rest(q, n), busy \cup Front(q, n))
    BY RestFresh, SMTT(30)
  <2>2. q \in Seq(Task) /\ r \in Seq(Task)
    BY <2>1 DEF FreshQueue
  <2>3. Len(q) \in Nat /\ DOMAIN q = 1..Len(q) /\ DOMAIN r = 1..Len(r)
    BY <2>2, LenProperties
  <2>4. n \in Nat /\ n <= Len(q)
    BY <2>3
  <2>5. DOMAIN r = 1..(Len(q) - n)
    BY <2>1, <2>3, Zenon
  <2>6. \A i \in DOMAIN r : r[i] = q[i + n]
    BY <2>1, Zenon
  <2>7. QED
    BY <2>1, <2>3, <2>4, <2>5, <2>6
<1> DEFINE tail == {q[i] : i \in (n + 1)..Len(q)}
<1>2. Front(r, Len(r)) = tail
  <2>1. Front(r, Len(r)) = {q[i + n] : i \in 1..(Len(q) - n)}
    BY <1>1 DEF Front
  <2>2. \A i \in 1..(Len(q) - n) : i + n \in (n + 1)..Len(q)
    BY <1>1
  <2>3. \A i \in (n + 1)..Len(q) : i - n \in 1..(Len(q) - n) /\ (i - n) + n = i
    BY <1>1
  <2>4. QED
    BY <2>1, <2>2, <2>3
<1>3. 1..Len(q) = 1..n \cup (n + 1)..Len(q)
  BY <1>1
<1>4. Front(q, Len(q)) = Front(q, n) \cup tail
  BY <1>3 DEF Front
<1>5. Front(q, n) \cap tail = {}
  <2>1. \A i \in 1..n, j \in (n + 1)..Len(q) : q[i] # q[j]
    BY <1>1 DEF FreshQueue
  <2>2. QED
    BY <2>1 DEF Front
<1>6. r = <<>> => tail = {}
  <2>1. SUFFICES ASSUME r = <<>>
                 PROVE  tail = {}
    OBVIOUS
  <2>2. Len(q) - n = 0
    BY <1>1, <2>1
  <2>3. (n + 1)..Len(q) = {}
    BY <1>1, <2>2
  <2>4. QED
    BY <2>3
<1>7. QED
  BY <1>2, <1>4, <1>5, <1>6

----------------------------------------------------------------------------
\* _pump_locked fills the pool.  st: the stages as the loop finds them.
LEMMA PumpFills ==
  ASSUME NEW q, NEW busy \in SUBSET Task, IsFiniteSet(busy), FreshQueue(q, busy),
         NEW limit \in Nat \ {0}, NEW pcs \in [Task -> WorkerState],
         Pump(q, busy, limit, pcs),
         ExecutorOpen \/ Cardinality(busy) + 1 >= limit \/ Len(q) = 0,
         concurrency' = limit,
         NEW st,
         \A t \in Task : st[t] = IF t \in Front(q, Len(q)) THEN "waiting"
                                 ELSE IF t \in busy THEN "active"
                                 ELSE IF row'[t] = "new" THEN "fresh" ELSE "over"
  PROVE  Pool!Fill(st, limit)
<1>1. PICK n \in 0..Len(q) :
        /\ pending' = Rest(q, n)
        /\ running' = busy \cup Front(q, n)
        /\ n > 0 => Cardinality(running') <= limit
        /\ pending' = <<>> \/ Cardinality(running') >= limit
  BY PumpFacts
<1> DEFINE S == Front(q, n)
           all == Front(q, Len(q))
<1>2. /\ all = S \cup Waiting' /\ S \cap Waiting' = {}
      /\ pending' = <<>> => all = S
  BY <1>1, FrontAndRest DEF Waiting
<1>3. all \subseteq Task /\ all \cap busy = {}
  BY DEF Front, FreshQueue
<1>4. n = 0 => S = {}
  BY DEF Front
<1> HIDE DEF S, all
<1>5. {t \in Task : st[t] = "waiting"} = all
  BY <1>3 DEF all
<1>6. {t \in Task : st[t] = "active"} = busy
  BY <1>3 DEF all
<1>7. running' = busy \cup S
  BY <1>1 DEF S
<1>8. S = all \/ Cardinality(busy \cup S) >= limit
  BY <1>1, <1>2, <1>7
<1>9. S # {} => Cardinality(busy \cup S) <= limit
  <2>1. S # {} => n > 0
    BY <1>4, LenProperties DEF FreshQueue
  <2>2. QED
    BY <1>1, <1>7, <2>1, Zenon
<1>10. \A t \in Task : PoolStage(t)' = IF t \in S THEN "active" ELSE st[t]
  BY <1>2, <1>3, <1>7, NextStageCases DEF all
<1>11. S \in SUBSET all
  BY <1>2
<1> DEFINE filled == [j \in Task |-> IF j \in S THEN "active" ELSE st[j]]
<1>12. [t \in Task |-> PoolStage(t)'] = filled
  BY <1>10
<1> HIDE DEF filled
<1>13. Pool!In(st, "waiting") = all /\ Pool!In(st, "active") = busy
  BY <1>5, <1>6 DEF Pool!In
<1>14. QED
  BY <1>8, <1>9, <1>11, <1>12, <1>13, SameCardinality, Zenon DEF Pool!Fill, filled

----------------------------------------------------------------------------
\* Every step is one operation of the pool, or invisible to it.

LEMMA SubmitAccepts ==
  ASSUME InductiveInvariant, NEW t \in Task, NEW priority \in BOOLEAN,
         Submit(t, priority)
  PROVE  Pool!Accept(t)
<1> DEFINE q == IF priority THEN <<t>> \o pending ELSE Append(pending, t)
           st == [Stages EXCEPT ![t] = "waiting"]
<1>1. /\ TypeOK /\ phase = "up" /\ row[t] = "new"
      /\ row' = [row EXCEPT ![t] = "queued"]
      /\ Pump(q, running, concurrency, pc)
      /\ concurrency' = concurrency
  BY DEF Submit, InductiveInvariant, settingVars
<1>2. /\ FreshQueue(pending, running)
      /\ IsFiniteSet(running) /\ running \in SUBSET Task
  BY HeldFresh
<1>3. t \notin running /\ \A i \in DOMAIN pending : pending[i] # t
  BY <1>1 DEF InductiveInvariant, RunningKnown, PendingIsQueued
<1>4. FreshQueue(q, running) /\ Front(q, Len(q)) = Waiting \cup {t}
  <2>1. q = <<t>> \o pending \/ q = Append(pending, t)
    OBVIOUS
  <2> HIDE DEF q
  <2>2. FreshQueue(q, running)
    BY <1>2, <1>3, <2>1, SubmitFresh
  <2>3. pending \in Seq(Task) /\ Len(pending) \in Nat
    BY <1>2 DEF FreshQueue
  <2>4. Front(q, Len(q)) = Waiting \cup {t}
    <3>1. CASE q = <<t>> \o pending
      <4>1. /\ Len(q) = Len(pending) + 1 /\ q[1] = t
            /\ \A i \in 2..(Len(pending) + 1) : q[i] = pending[i - 1]
        BY <2>3, <3>1
      <4>2. \A i \in 1..Len(pending) :
              i + 1 \in 2..(Len(pending) + 1) /\ (i + 1) - 1 = i /\ q[i + 1] = pending[i]
        BY <2>3, <4>1
      <4>3. \A i \in 1..Len(q) : i = 1 \/ (i - 1 \in 1..Len(pending) /\ q[i] = pending[i - 1])
        BY <2>3, <4>1
      <4>4. \A i \in 1..Len(pending) : i + 1 \in 1..Len(q)
        BY <2>3, <4>1
      <4>5. 1 \in 1..Len(q)
        BY <2>3, <4>1
      <4>6. QED
        BY <4>1, <4>2, <4>3, <4>4, <4>5 DEF Front, Waiting
    <3>2. CASE q = Append(pending, t)
      <4>1. /\ Len(q) = Len(pending) + 1 /\ q[Len(pending) + 1] = t
            /\ \A i \in 1..Len(pending) : q[i] = pending[i]
        BY <2>3, <3>2
      <4>2. \A i \in 1..Len(q) : i = Len(pending) + 1 \/ i \in 1..Len(pending)
        BY <2>3, <4>1
      <4>3. 1..Len(pending) \subseteq 1..Len(q) /\ Len(pending) + 1 \in 1..Len(q)
        BY <2>3, <4>1
      <4>4. QED
        BY <4>1, <4>2, <4>3 DEF Front, Waiting
    <3>3. QED
      BY <2>1, <3>1, <3>2
  <2>5. QED
    BY <2>2, <2>4
<1>5. \A u \in Task : u # t => row'[u] = row[u]
  BY <1>1
<1>6. \A u \in Task : st[u] = IF u \in Front(q, Len(q)) THEN "waiting"
                              ELSE IF u \in running THEN "active"
                              ELSE IF row'[u] = "new" THEN "fresh" ELSE "over"
  BY <1>4, <1>5, StageCases DEF Stages
<1>7. Stages[t] = "fresh"
  <2>1. t \notin Waiting
    BY <1>2, <1>3 DEF Waiting, Front, FreshQueue
  <2>2. QED
    BY <1>1, <1>3, <2>1, StageCases DEF Stages
<1>8. ExecutorOpen
  BY <1>1 DEF ExecutorOpen
<1> HIDE DEF q, st
<1>9. Pool!Fill(st, concurrency)
  BY <1>1, <1>2, <1>4, <1>6, <1>8, PumpFills DEF TypeOK
<1>10. QED
  BY <1>7, <1>9 DEF Pool!Accept, Stages, st

LEMMA CancelPendingWithdraws ==
  ASSUME InductiveInvariant, NEW k \in DOMAIN pending, CancelPending(k)
  PROVE  pending[k] \in Task /\ Pool!Withdraw(pending[k])
<1>1. /\ FreshQueue(pending, running) /\ TypeOK /\ DropPending(k)
      /\ row[pending[k]] = "queued"
      /\ UNCHANGED <<running, concurrency>>
  BY HeldFresh DEF CancelPending, InductiveInvariant, PendingIsQueued, settingVars
<1>2. /\ \A i \in DOMAIN pending' :
           \E j \in DOMAIN pending : j # k /\ pending'[i] = pending[j]
      /\ \A j \in DOMAIN pending :
           j # k => \E i \in DOMAIN pending' : pending'[i] = pending[j]
      /\ FreshQueue(pending', running)
  BY <1>1, DropFresh
<1>3. /\ DOMAIN pending = 1..Len(pending) /\ DOMAIN pending' = 1..Len(pending')
      /\ pending[k] \in Task /\ pending[k] \notin running
  BY <1>1, <1>2 DEF FreshQueue
<1>4. Waiting' = Waiting \ {pending[k]} /\ pending[k] \in Waiting
  <2>1. /\ Waiting = {pending[i] : i \in DOMAIN pending}
        /\ Waiting' = {pending'[i] : i \in DOMAIN pending'}
    BY <1>3 DEF Waiting, Front
  <2>2. \A j \in DOMAIN pending : j # k => pending[j] # pending[k]
    BY <1>1 DEF FreshQueue
  <2>3. Waiting' \subseteq Waiting \ {pending[k]}
    BY <1>2, <2>1, <2>2
  <2>4. Waiting \ {pending[k]} \subseteq Waiting'
    BY <1>2, <2>1
  <2>5. QED
    BY <2>1, <2>3, <2>4
<1>5. row' = row \/ row' = [row EXCEPT ![pending[k]] = "cancelled"]
  BY <1>1, RaisedUpdate DEF CancelPending, SetRow
<1>6. row'[pending[k]] # "new" /\ \A u \in Task : u # pending[k] => row'[u] = row[u]
  BY <1>1, <1>3, <1>5 DEF TypeOK
<1>7. \A u \in Task : PoolStage(u)' = IF u = pending[k] THEN "over" ELSE PoolStage(u)
  BY <1>1, <1>3, <1>4, <1>6, StageCases, NextStageCases
<1>8. PoolStage(pending[k]) = "waiting"
  BY <1>4, StageCases
<1>9. QED
  BY <1>1, <1>3, <1>7, <1>8 DEF Pool!Withdraw

LEMMA SetConcurrencyResizes ==
  ASSUME InductiveInvariant, NEW n \in ConcurrencyRange, SetConcurrency(n)
  PROVE  Pool!Resize(n)
<1>1. /\ TypeOK /\ phase = "up" /\ n \in Nat \ {0}
      /\ Pump(pending, running, n, pc)
      /\ concurrency' = n /\ row' = row
  BY ConfigAssumption DEF SetConcurrency, ConcurrencyRange, InductiveInvariant
<1>2. \A u \in Task : Stages[u] = IF u \in Front(pending, Len(pending)) THEN "waiting"
                                  ELSE IF u \in running THEN "active"
                                  ELSE IF row'[u] = "new" THEN "fresh" ELSE "over"
  BY <1>1, StageCases DEF Stages, Waiting
<1>3. ExecutorOpen
  BY <1>1 DEF ExecutorOpen
<1>4. pc \in [Task -> WorkerState]
  BY <1>1 DEF TypeOK
<1>5. Pool!Fill(Stages, n)
  BY <1>1, <1>2, <1>3, <1>4, HeldFresh, PumpFills, SMTT(30)
<1>6. QED
  BY <1>5 DEF Pool!Resize, Stages

LEMMA CleanupFinishes ==
  ASSUME InductiveInvariant, NEW t \in Task, PostRunCleanup(t)
  PROVE  Pool!Finish(t)
<1> DEFINE busy == running \ {t}
           pcs == [pc EXCEPT ![t] = "idle"]
           st == [Stages EXCEPT ![t] = "over"]
<1>1. /\ TypeOK /\ t \in running /\ row[t] # "new"
      /\ Pump(pending, busy, concurrency, pcs)
      /\ concurrency' = concurrency /\ row' = row
  BY DEF PostRunCleanup, At, WorkerHoldsSlot, RunningKnown, InductiveInvariant,
         settingVars
<1>2. /\ FreshQueue(pending, running) /\ IsFiniteSet(running)
      /\ running \in SUBSET Task /\ Cardinality(running) \in Nat
  BY HeldFresh
<1>3. /\ busy \in SUBSET Task /\ IsFiniteSet(busy)
      /\ Cardinality(busy) + 1 = Cardinality(running)
  <2>1. /\ IsFiniteSet(running \ {t})
        /\ Cardinality(running \ {t}) = Cardinality(running) - 1
    BY <1>1, <1>2, FS_RemoveElement
  <2>2. QED
    BY <1>2, <2>1
<1>4. FreshQueue(pending, busy)
  BY <1>2 DEF FreshQueue
<1>5. pcs \in [Task -> WorkerState]
  BY <1>1 DEF TypeOK, WorkerState
<1>6. t \notin Waiting
  BY <1>1, <1>2 DEF Waiting, Front, FreshQueue
<1>7. \A u \in Task : st[u] = IF u \in Front(pending, Len(pending)) THEN "waiting"
                              ELSE IF u \in busy THEN "active"
                              ELSE IF row'[u] = "new" THEN "fresh" ELSE "over"
  BY <1>1, <1>6, StageCases DEF Stages, Waiting
<1>8. Stages[t] = "active"
  BY <1>1, <1>6, StageCases DEF Stages
<1> HIDE DEF busy, pcs, st
<1>9. Cardinality(busy) + 1 >= concurrency \/ Len(pending) = 0
  <2>1. CASE pending = <<>>
    BY <2>1
  <2>2. CASE pending # <<>>
    BY <1>3, <2>2 DEF WorkConserving, InductiveInvariant
  <2>3. QED
    BY <2>1, <2>2
<1>10. concurrency \in Nat \ {0}
  BY <1>1 DEF TypeOK
<1>11. Pool!Fill(st, concurrency)
  BY <1>1, <1>3, <1>4, <1>5, <1>7, <1>9, <1>10, PumpFills
<1>12. QED
  BY <1>8, <1>11 DEF Pool!Finish, Stages, st

LEMMA ExitStops ==
  ASSUME InductiveInvariant, Exit
  PROVE  Pool!Stop
<1>1. pending' = <<>> /\ running' = {} /\ UNCHANGED <<row, concurrency>>
  BY DEF Exit, settingVars
<1>2. Waiting' = {}
  BY <1>1 DEF Waiting, Front
<1>3. \A u \in Waiting \cup running : row[u] # "new"
  <2>1. pending \in Seq(Task) /\ PendingIsQueued /\ RunningKnown
    BY DEF InductiveInvariant, TypeOK
  <2>2. QED
    BY <2>1 DEF Waiting, Front, PendingIsQueued, RunningKnown
<1>4. \A u \in Task : PoolStage(u)' = IF PoolStage(u) = "fresh" THEN "fresh" ELSE "over"
  BY <1>1, <1>2, <1>3, StageCases, NextStageCases
<1>5. QED
  BY <1>1, <1>4 DEF Pool!Stop

LEMMA StartResizes ==
  ASSUME InductiveInvariant, Start
  PROVE  Pool!Resize(DefaultConcurrency)
<1>1. /\ pending = <<>> /\ running = {} /\ UNCHANGED <<pending, running>>
      /\ concurrency' = DefaultConcurrency
      /\ row' = [t \in Task |-> IF row[t] \in Orphaned THEN "failed" ELSE row[t]]
  BY DEF Start, InductiveInvariant, DownIsEmpty, queueVars
<1>2. Waiting = {} /\ Waiting' = {}
  BY <1>1 DEF Waiting, Front
<1>3. \A u \in Task : row'[u] = "new" <=> row[u] = "new"
  BY <1>1 DEF Orphaned
<1>4. \A u \in Task : PoolStage(u)' = PoolStage(u) /\ PoolStage(u) # "waiting"
  BY <1>1, <1>2, <1>3, StageCases, NextStageCases
<1>5. Pool!In(Stages, "waiting") = {}
  BY <1>4 DEF Pool!In, Stages
<1> DEFINE S == {}
<1>6. /\ S \in SUBSET Pool!In(Stages, "waiting")
      /\ S = Pool!In(Stages, "waiting")
      /\ [t \in Task |-> PoolStage(t)'] =
           [j \in Task |-> IF j \in S THEN "active" ELSE Stages[j]]
  BY <1>4, <1>5 DEF Stages
<1>7. Pool!Fill(Stages, DefaultConcurrency)
  BY <1>1, <1>6 DEF Pool!Fill
<1>8. QED
  BY <1>7 DEF Pool!Resize, Stages

LEMMA OthersAreInvisible ==
  ASSUME InductiveInvariant,
         \/ \E t \in Task : CancelRunning(t)
         \/ \E n \in QueueCapRange : SetQueueCap(n)
         \/ \E t \in Task : EraseCheck(t) \/ EraseImage(t) \/ EraseRow(t)
         \/ \E t \in Task : Worker(t) /\ ~PostRunCleanup(t)
         \/ ShutdownCancel \/ ShutdownExecutor \/ CloseStorage
         \/ UNCHANGED vars
  PROVE  UNCHANGED Pool!poolVars
<1> USE DEF queueVars, settingVars
<1>1. ASSUME NEW t \in Task, CancelRunning(t)
      PROVE  UNCHANGED Pool!poolVars
  <2>1. /\ UNCHANGED <<pending, running, concurrency>> /\ t \in running /\ TypeOK
        /\ row' = row \/ row' = [row EXCEPT ![t] = "cancelling"]
    BY <1>1, RaisedUpdate DEF CancelRunning, SetRow, InductiveInvariant
  <2>2. \A u \in Task \ running : row'[u] = row[u]
    BY <2>1 DEF TypeOK
  <2>3. QED
    BY <2>1, <2>2, SameStages
<1>2. ASSUME NEW t \in Task, EraseCheck(t) \/ EraseImage(t) \/ EraseRow(t)
      PROVE  UNCHANGED Pool!poolVars
  <2>1. /\ UNCHANGED <<pending, running, concurrency>> /\ TypeOK
        /\ row' = row \/ (erasing[t] # "no" /\ row' = [row EXCEPT ![t] = "deleted"])
    BY <1>2 DEF EraseCheck, EraseImage, EraseRow, InductiveInvariant
  <2>2. \A u \in Task : row'[u] = "new" <=> row[u] = "new"
    BY <2>1 DEF ErasingSettled, InductiveInvariant, TypeOK
  <2>3. QED
    BY <2>1, <2>2, SameStages
<1>3. ASSUME NEW t \in Task, Worker(t), ~PostRunCleanup(t)
      PROVE  UNCHANGED Pool!poolVars
  <2>1. /\ UNCHANGED <<pending, running, concurrency>> /\ TypeOK
        /\ row' = row \/ \E s : row' = [row EXCEPT ![t] = s]
    BY <1>3, RaisedUpdate
       DEF Worker, Preflight, MarkRunning, Prepare, Request, Download, Save,
           LastCheck, Succeed, FinalizeCancelled, FinalizeFailed, Finalize, OnlyPc,
           SetSucceeded, SetRow, InductiveInvariant
  <2>2. t \in running
    BY <1>3 DEF InductiveInvariant, WorkerHoldsSlot, At, Worker, Preflight,
           MarkRunning, Prepare, Request, Download, Save, LastCheck, Succeed,
           FinalizeCancelled, FinalizeFailed
  <2>3. \A u \in Task \ running : row'[u] = row[u]
    BY <2>1, <2>2 DEF TypeOK
  <2>4. QED
    BY <2>1, <2>3, SameStages
<1>4. ASSUME \/ \E n \in QueueCapRange : SetQueueCap(n)
             \/ ShutdownCancel \/ ShutdownExecutor \/ CloseStorage
             \/ UNCHANGED vars
      PROVE  UNCHANGED Pool!poolVars
  <2>1. UNCHANGED <<pending, running, concurrency, row>>
    BY <1>4 DEF SetQueueCap, ShutdownCancel, ShutdownExecutor, CloseStorage, vars
  <2>2. QED
    BY <2>1, SameStages
<1>5. QED
  BY <1>1, <1>2, <1>3, <1>4

----------------------------------------------------------------------------

LEMMA StepIsPoolStep ==
  InductiveInvariant /\ [Next]_vars => [Pool!PoolNext]_Pool!poolVars
<1> SUFFICES ASSUME InductiveInvariant, [Next]_vars
             PROVE  [Pool!PoolNext]_Pool!poolVars
  OBVIOUS
<1>1. ASSUME NEW n \in ConcurrencyRange
      PROVE  n \in 1..MaxConcurrency \cup {DefaultConcurrency}
  BY DEF ConcurrencyRange
<1>2. CASE Handlers
  BY <1>1, <1>2, SubmitAccepts, CancelPendingWithdraws, SetConcurrencyResizes,
     OthersAreInvisible DEF Handlers, Pool!PoolNext
<1>3. CASE \E t \in Task : Worker(t)
  BY <1>3, CleanupFinishes, OthersAreInvisible DEF Pool!PoolNext
<1>4. CASE Process
  BY <1>4, ExitStops, StartResizes, OthersAreInvisible DEF Process, Pool!PoolNext
<1>5. CASE UNCHANGED vars
  BY <1>5, OthersAreInvisible
<1>6. QED
  BY <1>2, <1>3, <1>4, <1>5 DEF Next

LEMMA InitIsPoolInit == Init => Pool!PoolInit
<1> SUFFICES ASSUME Init
             PROVE  Pool!PoolInit
  OBVIOUS
<1>1. \A t \in Task : PoolStage(t) = "fresh"
  <2>1. Waiting = {} /\ running = {} /\ \A t \in Task : row[t] = "new"
    BY DEF Init, Waiting, Front
  <2>2. QED
    BY <2>1, StageCases
<1>2. concurrency = DefaultConcurrency
  BY DEF Init
<1>3. QED
  BY <1>1, <1>2 DEF Pool!PoolInit

\* For any number of tasks and any settings, through errors, stops and
\* restarts, callers see a pool that runs a job at most once, starts nothing
\* above the limit and leaves no slot idle while a job waits.
THEOREM ManagerIsJobPool == Spec => ImplementsJobPool
<1>1. QED
  BY InitIsPoolInit, StepIsPoolStep, Invariance, PTL
     DEF Spec, ImplementsJobPool, Pool!PoolSpec
=============================================================================
