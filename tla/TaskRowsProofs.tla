--------------------------- MODULE TaskRowsProofs ---------------------------
(***************************************************************************)
(* Proofs, for any set of tasks and any configuration, that the task queue *)
(* keeps rows and images in step, that settled rows and cancels in time    *)
(* are respected, that an error strands one task at most, and that the     *)
(* load stays within the cap.                                              *)
(***************************************************************************)
EXTENDS TaskManagerProofs

----------------------------------------------------------------------------
\* Lemmas

\* _pump_locked loses no handle, keeps the load, and gives every handle that
\* it moves a worker while the executor is open.
LEMMA PumpKeepsHandles ==
  ASSUME NEW q, NEW busy \in SUBSET Task, IsFiniteSet(busy), FreshQueue(q, busy),
         NEW limit \in Nat \ {0}, NEW pcs \in [Task -> WorkerState],
         Pump(q, busy, limit, pcs)
  PROVE  /\ busy \subseteq running'
         /\ \A i \in DOMAIN q :
              q[i] \in running' \/ \E j \in DOMAIN pending' : pending'[j] = q[i]
         /\ \A t \in Task : pc'[t] = pcs[t] \/ pc'[t] = "dispatched"
         /\ ExecutorOpen => \A t \in running' \ busy : pc'[t] = "dispatched"
         /\ Len(pending') + Cardinality(running') = Len(q) + Cardinality(busy)
<1> DEFINE n == Taken(q, busy, limit)
<1>1. q \in Seq(Task) /\ Len(q) \in Nat /\ DOMAIN q = 1..Len(q)
      /\ Cardinality(busy) \in Nat
  BY FS_CardinalityType DEF FreshQueue
<1>2. n \in 0..Len(q)
  BY <1>1, TakenBounds
<1>3. /\ pending' = Rest(q, n) /\ running' = busy \cup Front(q, n)
      /\ pc' = IF ExecutorOpen
               THEN [t \in Task |->
                      IF t \in Front(q, n) THEN "dispatched" ELSE pcs[t]]
               ELSE pcs
  BY DEF Pump
<1>4. Front(q, n) \in SUBSET Task
  BY <1>2, FrontCardinality
<1> HIDE DEF n
<1>5. /\ Len(Rest(q, n)) = Len(q) - n /\ Rest(q, n) \in Seq(Task)
      /\ \A i \in DOMAIN Rest(q, n) : Rest(q, n)[i] = q[i + n]
  <2>1. /\ Len(Rest(q, n)) = Len(q) - n
        /\ \A i \in DOMAIN Rest(q, n) :
             i + n \in DOMAIN q /\ Rest(q, n)[i] = q[i + n]
        /\ FreshQueue(Rest(q, n), busy \cup Front(q, n))
    BY <1>2, RestFresh, Zenon
  <2>2. Rest(q, n) \in Seq(Task)
    BY <2>1 DEF FreshQueue
  <2>3. QED
    BY <2>1, <2>2
<1>6. ASSUME NEW i \in DOMAIN q
      PROVE  q[i] \in running' \/ \E j \in DOMAIN pending' : pending'[j] = q[i]
  <2>1. CASE i <= n
    <3>1. i \in 1..n
      BY <1>1, <1>2, <2>1
    <3>2. QED
      BY <1>3, <3>1 DEF Front
  <2>2. CASE i > n
    <3>1. i - n \in 1..(Len(q) - n) /\ (i - n) + n = i
      BY <1>1, <1>2, <2>2
    <3>2. DOMAIN Rest(q, n) = 1..(Len(q) - n)
      BY <1>5
    <3>3. Rest(q, n)[i - n] = q[i]
      BY <1>5, <3>1, <3>2
    <3>4. QED
      BY <1>3, <3>1, <3>2, <3>3
  <2>3. QED
    BY <1>1, <1>2, <2>1, <2>2
<1>7. Len(pending') + Cardinality(running') = Len(q) + Cardinality(busy)
  <2>1. PICK m \in 0..Len(q) : /\ pending' = Rest(q, m)
                               /\ Cardinality(running') = Cardinality(busy) + m
    BY PumpFacts
  <2>2. Len(pending') = Len(q) - m
    BY <2>1, RestFresh
  <2>3. QED
    BY <1>1, <2>1, <2>2
<1>8. /\ \A t \in Task : pc'[t] = pcs[t] \/ pc'[t] = "dispatched"
      /\ ExecutorOpen => \A t \in running' \ busy : pc'[t] = "dispatched"
  BY <1>3, <1>4
<1>9. QED
  BY <1>3, <1>6, <1>7, <1>8

\* The tasks the manager holds.
LEMMA OwnedMeans ==
  ASSUME pending \in Seq(Task), NEW t
  PROVE  Owned(t) <=> t \in running \/ \E i \in DOMAIN pending : pending[i] = t
BY DEF Owned, Front

LEMMA OwnedMeansNext ==
  ASSUME pending' \in Seq(Task), NEW t
  PROVE  Owned(t)' <=> t \in running' \/ \E i \in DOMAIN pending' : pending'[i] = t
BY DEF Owned, Front

----------------------------------------------------------------------------
\* The invariant of rows and images

\* A step that pumps: workers start or end, rows change to "queued" at most.
LEMMA PumpRows ==
  ASSUME InductiveInvariant, RowsInvariant, InductiveInvariant',
         NEW q, NEW busy \in SUBSET Task, IsFiniteSet(busy), FreshQueue(q, busy),
         NEW limit \in Nat \ {0}, NEW pcs \in [Task -> WorkerState],
         Pump(q, busy, limit, pcs),
         UNCHANGED <<phase, image, erasing, faults, restarts>>,
         \A t \in Task : pcs[t] # "idle" => pcs[t] = pc[t],
         \A t \in busy : pcs[t] = pc[t] /\ t \in running,
         \A t \in Task : row'[t] = row[t] \/ (row'[t] = "queued" /\ pc[t] = "idle"),
         (phase = "up" /\ faults = 0) =>
            \A t \in Task : row'[t] \in {"queued", "running"} =>
               t \in busy \/ \E i \in DOMAIN q : q[i] = t
  PROVE  RowsInvariant'
<1> USE DEF RowsInvariant
<1>1. /\ busy \subseteq running'
      /\ \A i \in DOMAIN q :
           q[i] \in running' \/ \E j \in DOMAIN pending' : pending'[j] = q[i]
      /\ \A t \in Task : pc'[t] = pcs[t] \/ pc'[t] = "dispatched"
      /\ ExecutorOpen => \A t \in running' \ busy : pc'[t] = "dispatched"
  BY PumpKeepsHandles
<1>2. running' \in SUBSET Task /\ pending' \in Seq(Task)
  BY DEF InductiveInvariant, TypeOK
<1>3. \A t \in Task : pc'[t] \in {"idle", "dispatched"} \/ pc'[t] = pc[t]
  BY <1>1
<1>4. SavedImageExists' /\ ErasingWhileUp'
  BY <1>3 DEF SavedImageExists, ErasingWhileUp
<1>5. ErasesImageFirst'
  BY DEF ErasesImageFirst
<1>6. SlotHasWorker'
  <2>1. SUFFICES ASSUME phase = "up"
                 PROVE  /\ \A t \in running' : pc'[t] # "idle"
                        /\ faults = 0 => \A t \in Task : pc'[t] # "dead"
    BY DEF SlotHasWorker, At
  <2>2. ExecutorOpen
    BY <2>1 DEF ExecutorOpen
  <2>3. QED
    BY <1>1, <1>2, <1>3, <2>1, <2>2 DEF SlotHasWorker, At
<1>7. CleanupIsSettled'
  <2>1. SUFFICES ASSUME phase = "up", faults = 0, NEW t \in Task, pc'[t] = "cleanup"
                 PROVE  row'[t] \notin {"queued", "running"}
    BY DEF CleanupIsSettled, At
  <2>2. pc[t] = "cleanup"
    BY <1>3, <2>1
  <2>3. row'[t] = row[t]
    BY <2>2
  <2>4. QED
    BY <2>1, <2>2, <2>3 DEF CleanupIsSettled, At
<1>8. QueuedOrRunningOwned'
  <2>1. SUFFICES ASSUME phase = "up", faults = 0, NEW t \in Task,
                        row'[t] \in {"queued", "running"}
                 PROVE  Owned(t)'
    BY DEF QueuedOrRunningOwned
  <2>2. t \in running' \/ \E i \in DOMAIN pending' : pending'[i] = t
    BY <1>1, <2>1
  <2>3. QED
    BY <1>2, <2>2, OwnedMeansNext
<1>9. SucceededHasImage'
  BY DEF SucceededHasImage
<1>10. DeletedRowHasNoLinkedImage'
  BY DEF DeletedRowHasNoLinkedImage
<1>11. QED
  BY <1>4, <1>5, <1>6, <1>7, <1>8, <1>9, <1>10

LEMMA SubmitRows ==
  ASSUME InductiveInvariant, RowsInvariant, InductiveInvariant',
         NEW t \in Task, NEW priority \in BOOLEAN, Submit(t, priority)
  PROVE  RowsInvariant'
<1> DEFINE q == IF priority THEN <<t>> \o pending ELSE Append(pending, t)
<1>1. /\ row[t] = "new" /\ row' = [row EXCEPT ![t] = "queued"]
      /\ Pump(q, running, concurrency, pc)
      /\ UNCHANGED <<phase, image, erasing, faults, restarts>>
  BY DEF Submit, boundVars
<1>2. /\ FreshQueue(pending, running) /\ running \in SUBSET Task
      /\ IsFiniteSet(running) /\ TypeOK
  BY HeldFresh DEF InductiveInvariant
<1>3. t \notin running /\ \A i \in DOMAIN pending : pending[i] # t
  BY <1>1 DEF InductiveInvariant, RunningKnown, PendingIsQueued
<1>4. pc[t] = "idle"
  BY <1>3 DEF InductiveInvariant, WorkerHoldsSlot, At
<1>5. pending \in Seq(Task) /\ Len(pending) \in Nat /\ DOMAIN pending = 1..Len(pending)
  BY <1>2 DEF FreshQueue
<1>6. /\ \E i \in DOMAIN q : q[i] = t
      /\ \A j \in DOMAIN pending : \E i \in DOMAIN q : q[i] = pending[j]
  <2>1. CASE priority = TRUE
    <3>1. q = <<t>> \o pending
      BY <2>1
    <3>2. /\ DOMAIN q = 1..(Len(pending) + 1) /\ q[1] = t
          /\ \A j \in 1..Len(pending) : q[j + 1] = pending[j]
      BY <1>5, <3>1
    <3> HIDE DEF q
    <3>3. 1 \in DOMAIN q /\ \A j \in DOMAIN pending : j + 1 \in DOMAIN q
      BY <1>5, <3>2
    <3>4. QED
      BY <1>5, <3>2, <3>3
  <2>2. CASE priority = FALSE
    <3>1. q = Append(pending, t)
      BY <2>2
    <3>2. /\ DOMAIN q = 1..(Len(pending) + 1) /\ q[Len(pending) + 1] = t
          /\ \A j \in 1..Len(pending) : q[j] = pending[j]
      BY <1>5, <3>1
    <3> HIDE DEF q
    <3>3. Len(pending) + 1 \in DOMAIN q /\ \A j \in DOMAIN pending : j \in DOMAIN q
      BY <1>5, <3>2
    <3>4. QED
      BY <1>5, <3>2, <3>3
  <2>3. QED
    BY <2>1, <2>2
<1>7. FreshQueue(q, running)
  <2>1. q = <<t>> \o pending \/ q = Append(pending, t)
    OBVIOUS
  <2> HIDE DEF q
  <2>2. QED
    BY <1>2, <1>3, <2>1, SubmitFresh
<1> HIDE DEF q
<1>8. row'[t] = "queued" /\ \A u \in Task : u # t => row'[u] = row[u]
  BY <1>1, <1>2 DEF TypeOK
<1>9. (phase = "up" /\ faults = 0) =>
        \A u \in Task : row'[u] \in {"queued", "running"} =>
           u \in running \/ \E i \in DOMAIN q : q[i] = u
  <2>1. SUFFICES ASSUME phase = "up", faults = 0, NEW u \in Task, u # t,
                        row[u] \in {"queued", "running"}
                 PROVE  u \in running \/ \E i \in DOMAIN q : q[i] = u
    BY <1>6, <1>8
  <2>2. Owned(u)
    BY <2>1 DEF RowsInvariant, QueuedOrRunningOwned
  <2>3. QED
    BY <1>5, <1>6, <2>2, OwnedMeans
<1>10. QED
  <2>1. concurrency \in Nat \ {0} /\ pc \in [Task -> WorkerState]
    BY <1>2 DEF TypeOK
  <2>2. \A u \in Task : row'[u] = row[u] \/ (row'[u] = "queued" /\ pc[u] = "idle")
    BY <1>4, <1>8
  <2>3. QED
    BY <1>1, <1>2, <1>7, <1>9, <2>1, <2>2, PumpRows

LEMMA SetConcurrencyRows ==
  ASSUME InductiveInvariant, RowsInvariant, InductiveInvariant',
         NEW n \in ConcurrencyRange, SetConcurrency(n)
  PROVE  RowsInvariant'
<1>1. /\ Pump(pending, running, n, pc) /\ n \in Nat \ {0} /\ row' = row
      /\ UNCHANGED <<phase, image, erasing, faults, restarts>>
  BY ConfigAssumption DEF SetConcurrency, ConcurrencyRange, boundVars
<1>2. /\ FreshQueue(pending, running) /\ running \in SUBSET Task
      /\ IsFiniteSet(running) /\ TypeOK /\ pending \in Seq(Task)
      /\ pc \in [Task -> WorkerState]
  BY HeldFresh DEF InductiveInvariant, TypeOK
<1>3. (phase = "up" /\ faults = 0) =>
        \A u \in Task : row'[u] \in {"queued", "running"} =>
           u \in running \/ \E i \in DOMAIN pending : pending[i] = u
  BY <1>1, <1>2, OwnedMeans DEF RowsInvariant, QueuedOrRunningOwned
<1>4. \A u \in Task : row'[u] = row[u]
  BY <1>1
<1>5. QED
  BY <1>1, <1>2, <1>3, <1>4, PumpRows

LEMMA PostRunCleanupRows ==
  ASSUME InductiveInvariant, RowsInvariant, InductiveInvariant',
         NEW t \in Task, PostRunCleanup(t)
  PROVE  RowsInvariant'
<1> DEFINE busy == running \ {t}
           pcs == [pc EXCEPT ![t] = "idle"]
<1>1. /\ pc[t] = "cleanup" /\ Pump(pending, busy, concurrency, pcs) /\ row' = row
      /\ UNCHANGED <<phase, image, erasing, faults, restarts>>
  BY DEF PostRunCleanup, At, boundVars
<1>2. /\ FreshQueue(pending, busy) /\ busy \in SUBSET Task
      /\ IsFiniteSet(running) /\ TypeOK /\ pending \in Seq(Task)
      /\ pcs \in [Task -> WorkerState] /\ concurrency \in Nat \ {0}
  BY HeldFresh DEF InductiveInvariant, TypeOK, FreshQueue, WorkerState
<1>3. IsFiniteSet(busy)
  BY <1>2, FS_RemoveElement
<1>4. /\ \A u \in Task : pcs[u] # "idle" => pcs[u] = pc[u]
      /\ \A u \in busy : pcs[u] = pc[u] /\ u \in running
  BY <1>2 DEF TypeOK
<1>5. (phase = "up" /\ faults = 0) =>
        \A u \in Task : row'[u] \in {"queued", "running"} =>
           u \in busy \/ \E i \in DOMAIN pending : pending[i] = u
  <2>1. SUFFICES ASSUME phase = "up", faults = 0, NEW u \in Task,
                        row[u] \in {"queued", "running"}
                 PROVE  u \in busy \/ \E i \in DOMAIN pending : pending[i] = u
    BY <1>1
  <2>2. Owned(u)
    BY <2>1 DEF RowsInvariant, QueuedOrRunningOwned
  <2>3. u # t
    BY <1>1, <2>1 DEF RowsInvariant, CleanupIsSettled, At
  <2>4. QED
    BY <1>2, <2>2, <2>3, OwnedMeans
<1>6. \A u \in Task : row'[u] = row[u]
  BY <1>1
<1> HIDE DEF busy, pcs
<1>7. QED
  BY <1>1, <1>2, <1>3, <1>4, <1>5, <1>6, PumpRows

LEMMA CancelPendingRows ==
  ASSUME InductiveInvariant, RowsInvariant, InductiveInvariant',
         NEW k \in DOMAIN pending, CancelPending(k)
  PROVE  RowsInvariant'
<1> DEFINE t == pending[k]
<1> USE DEF RowsInvariant
<1>1. /\ phase = "up" /\ DropPending(k)
      /\ UNCHANGED <<phase, image, running, pc, erasing, restarts>>
      /\ \/ SetRow(t, "cancelled") /\ UNCHANGED faults
         \/ SetRowRaises(t, "cancelled")
  BY DEF CancelPending
<1>2. /\ FreshQueue(pending, running) /\ TypeOK /\ t \in Task
      /\ pending \in Seq(Task) /\ pending' \in Seq(Task)
  BY HeldFresh DEF InductiveInvariant, TypeOK
<1>3. row[t] = "queued" /\ HasRow(t)
  BY DEF InductiveInvariant, PendingIsQueued, HasRow
<1>4. /\ faults \in Nat
      /\ \/ faults' = faults /\ row' = [row EXCEPT ![t] = "cancelled"]
         \/ /\ faults' = faults + 1
            /\ row' = row \/ row' = [row EXCEPT ![t] = "cancelled"]
  BY <1>1, <1>2, <1>3, BoundAssumption
     DEF SetRow, SetRowRaises, DbRaises, DbOpen, TypeOK
<1>5. \A u \in Task : row'[u] = row[u] \/ (u = t /\ row'[u] = "cancelled")
  BY <1>2, <1>4 DEF TypeOK
<1>6. faults' = 0 => faults = 0 /\ row'[t] = "cancelled"
  BY <1>2, <1>4 DEF TypeOK
<1> HIDE DEF t
<1>7. SavedImageExists' /\ ErasingWhileUp' /\ ErasesImageFirst'
  BY <1>1, <1>6 DEF SavedImageExists, ErasingWhileUp, ErasesImageFirst
<1>8. SlotHasWorker' /\ CleanupIsSettled'
  BY <1>1, <1>5, <1>6 DEF SlotHasWorker, CleanupIsSettled, At
<1>9. QueuedOrRunningOwned'
  <2>1. SUFFICES ASSUME faults' = 0, NEW u \in Task,
                        row'[u] \in {"queued", "running"}
                 PROVE  Owned(u)'
    BY DEF QueuedOrRunningOwned
  <2>2. u # t /\ row'[u] = row[u]
    BY <1>5, <1>6, <2>1
  <2>3. u \in running \/ \E i \in DOMAIN pending : pending[i] = u
    BY <1>1, <1>2, <1>6, <2>1, <2>2, OwnedMeans DEF QueuedOrRunningOwned
  <2>4. \A i \in DOMAIN pending : i # k => \E j \in DOMAIN pending' : pending'[j] = pending[i]
    BY <1>1, <1>2, DropFresh
  <2>5. u \in running' \/ \E j \in DOMAIN pending' : pending'[j] = u
    BY <1>1, <2>2, <2>3, <2>4 DEF t
  <2>6. QED
    BY <1>2, <2>5, OwnedMeansNext
<1>10. SucceededHasImage'
  BY <1>1, <1>2, <1>4, <1>5 DEF SucceededHasImage, TypeOK
<1>11. DeletedRowHasNoLinkedImage'
  BY <1>1, <1>5, <1>6 DEF DeletedRowHasNoLinkedImage
<1>12. QED
  BY <1>7, <1>8, <1>9, <1>10, <1>11

LEMMA CancelRunningRows ==
  ASSUME InductiveInvariant, RowsInvariant, InductiveInvariant',
         NEW t \in Task, CancelRunning(t)
  PROVE  RowsInvariant'
<1> USE DEF RowsInvariant
<1>1. /\ UNCHANGED <<phase, image, pending, running, pc, erasing, restarts>>
      /\ \/ SetRow(t, "cancelling") /\ UNCHANGED faults
         \/ SetRowRaises(t, "cancelling")
  BY DEF CancelRunning
<1>2. TypeOK /\ pending \in Seq(Task) /\ pending' \in Seq(Task)
  BY DEF InductiveInvariant, TypeOK
<1>3. /\ faults \in Nat /\ restarts \in Nat /\ faults' \in Nat
      /\ faults' >= faults
      /\ faults + restarts > 0 => faults' + restarts > 0
      /\ row' = row \/ row' = [row EXCEPT ![t] = "cancelling"]
  BY <1>1, <1>2, BoundAssumption
     DEF SetRow, SetRowRaises, DbRaises, DbOpen, TypeOK
<1>4. \A u \in Task : row'[u] = row[u] \/ row'[u] = "cancelling"
  BY <1>2, <1>3 DEF TypeOK
<1>5. faults' = 0 => faults = 0
  BY <1>3
<1>6. SavedImageExists' /\ ErasingWhileUp' /\ ErasesImageFirst'
  BY <1>1, <1>5 DEF SavedImageExists, ErasingWhileUp, ErasesImageFirst
<1>7. SlotHasWorker' /\ CleanupIsSettled'
  BY <1>1, <1>4, <1>5 DEF SlotHasWorker, CleanupIsSettled, At
<1>8. QueuedOrRunningOwned'
  BY <1>1, <1>2, <1>4, <1>5, OwnedMeans, OwnedMeansNext DEF QueuedOrRunningOwned
<1>9. SucceededHasImage'
  BY <1>1, <1>3, <1>4 DEF SucceededHasImage
<1>10. DeletedRowHasNoLinkedImage'
  BY <1>1, <1>4, <1>5 DEF DeletedRowHasNoLinkedImage
<1>11. QED
  BY <1>6, <1>7, <1>8, <1>9, <1>10

\* The steps of a history delete: the object first, then the row.
LEMMA EraseRows ==
  ASSUME InductiveInvariant, RowsInvariant, InductiveInvariant',
         NEW t \in Task, EraseCheck(t) \/ EraseImage(t) \/ EraseRow(t)
  PROVE  RowsInvariant'
<1> USE DEF RowsInvariant
<1>1. UNCHANGED <<phase, pending, running, pc, restarts>>
  BY DEF EraseCheck, EraseImage, EraseRow, queueVars, boundVars
<1>2. /\ row \in [Task -> RowState] /\ image \in [Task -> ImageState]
      /\ erasing \in [Task -> {"no", "image", "row"}]
      /\ faults \in Nat /\ restarts \in Nat
      /\ pending \in Seq(Task) /\ pending' \in Seq(Task)
  BY BoundAssumption DEF InductiveInvariant, TypeOK
<1>3. phase = "up"
  <2>1. EraseImage(t) \/ EraseRow(t) => erasing[t] # "no"
    BY DEF EraseImage, EraseRow
  <2>2. QED
    BY <2>1 DEF EraseCheck, ErasingWhileUp
<1>4. pc[t] \notin {"saved", "succeed"}
  <2>1. CASE EraseCheck(t)
    <3>1. row[t] \in Terminal
      BY <2>1 DEF EraseCheck, MayErase
    <3>2. QED
      BY <3>1 DEF InductiveInvariant, WorkerRowActive, Terminal, Active
  <2>2. CASE EraseImage(t) \/ EraseRow(t)
    BY <2>2 DEF EraseImage, EraseRow, InductiveInvariant, ErasingSettled
  <2>3. QED
    BY <2>1, <2>2
<1>5. /\ faults' \in Nat
      /\ faults + restarts > 0 => faults' + restarts > 0
      /\ \A u \in Task : u # t => /\ row'[u] = row[u] /\ image'[u] = image[u]
                                  /\ erasing'[u] = erasing[u]
      /\ row'[t] = row[t] \/ row'[t] = "deleted"
  BY <1>2, <1>3 DEF EraseCheck, EraseImage, EraseRow, DbRaises, DbOpen, boundVars
<1>6. /\ faults' = 0 => /\ faults = 0
                        /\ erasing'[t] = "row" => image'[t] # "linked"
                        /\ row'[t] = "deleted" => image'[t] # "linked"
      /\ row'[t] = "succeeded" =>
           \/ image'[t] = "linked"
           \/ image'[t] = "gone" /\ (erasing'[t] = "row" \/ faults' + restarts > 0)
  <2>1. CASE EraseCheck(t)
    <3>1. /\ row' = row /\ image' = image /\ faults' = faults /\ erasing[t] = "no"
          /\ erasing'[t] = IF image[t] \in {"linked", "gone"} THEN "image" ELSE "row"
          /\ row[t] \in Terminal
      BY <1>2, <2>1 DEF EraseCheck, boundVars, MayErase
    <3>2. QED
      BY <1>2, <3>1 DEF SucceededHasImage, Terminal
  <2>2. CASE EraseImage(t)
    <3>1. /\ row' = row /\ erasing'[t] = "row" /\ erasing[t] = "image"
          /\ \/ image'[t] = "gone" /\ faults' = faults
             \/ image'[t] = image[t] /\ faults' = faults + 1
      BY <1>2, <2>2 DEF EraseImage
    <3>2. QED
      BY <1>2, <3>1 DEF SucceededHasImage
  <2>3. CASE EraseRow(t)
    <3>1. /\ image' = image /\ erasing'[t] = "no" /\ erasing[t] = "row"
          /\ \/ row'[t] = "deleted" /\ faults' = faults
             \/ row'[t] = row[t] /\ faults' = faults + 1
      BY <1>2, <1>3, <2>3 DEF EraseRow, DbRaises, DbOpen
    <3>2. QED
      BY <1>2, <3>1 DEF SucceededHasImage, ErasesImageFirst
  <2>4. QED
    BY <2>1, <2>2, <2>3
<1>7. SavedImageExists'
  BY <1>1, <1>4, <1>5 DEF SavedImageExists
<1>8. ErasingWhileUp'
  BY <1>1, <1>3 DEF ErasingWhileUp
<1>9. ErasesImageFirst'
  BY <1>5, <1>6 DEF ErasesImageFirst
<1>10. SlotHasWorker' /\ CleanupIsSettled'
  BY <1>1, <1>5, <1>6 DEF SlotHasWorker, CleanupIsSettled, At
<1>11. QueuedOrRunningOwned'
  <2>1. \A u \in Task : row'[u] = row[u] \/ row'[u] = "deleted"
    BY <1>5
  <2>2. QED
    BY <1>1, <1>2, <1>6, <2>1, OwnedMeans, OwnedMeansNext DEF QueuedOrRunningOwned
<1>12. SucceededHasImage'
  BY <1>1, <1>2, <1>5, <1>6 DEF SucceededHasImage
<1>13. DeletedRowHasNoLinkedImage'
  BY <1>5, <1>6 DEF DeletedRowHasNoLinkedImage
<1>14. QED
  BY <1>7, <1>8, <1>9, <1>10, <1>11, <1>12, <1>13

----------------------------------------------------------------------------
\* Worker threads

\* A worker that moves on keeps rows and images in step if its own do.
LEMMA WorkerMoves ==
  ASSUME InductiveInvariant, RowsInvariant, InductiveInvariant',
         NEW t \in Task, NEW s \in WorkerState \ {"idle"},
         pc[t] \notin {"idle", "cleanup", "dead"},
         pc' = [pc EXCEPT ![t] = s],
         row' = row \/ \E r \in Active \cup Terminal : row' = [row EXCEPT ![t] = r],
         \A u \in Task : u # t => image'[u] = image[u],
         s \in {"saved", "succeed"} => image'[t] = "saved",
         row'[t] = "succeeded" => image'[t] = "linked",
         faults' \in Nat, faults' >= faults,
         (phase = "up" /\ faults' = 0) =>
            s # "dead" /\ (s = "cleanup" => row'[t] \notin {"queued", "running"}),
         UNCHANGED <<phase, pending, running, erasing, restarts>>
  PROVE  RowsInvariant'
<1> USE DEF RowsInvariant
<1>1. /\ row \in [Task -> RowState] /\ pc \in [Task -> WorkerState]
      /\ faults \in Nat /\ restarts \in Nat
      /\ pending \in Seq(Task) /\ pending' \in Seq(Task)
  BY BoundAssumption DEF InductiveInvariant, TypeOK
<1>2. t \in running /\ row[t] \in Active /\ erasing[t] = "no"
  BY <1>1 DEF InductiveInvariant, TypeOK, WorkerHoldsSlot, WorkerRowActive,
              ErasingSettled, At
<1>3. /\ pc'[t] = s
      /\ \A u \in Task : u # t => pc'[u] = pc[u] /\ row'[u] = row[u]
      /\ row'[t] # "deleted"
  BY <1>1, <1>2 DEF Active, Terminal
<1>4. /\ faults' = 0 => faults = 0
      /\ faults + restarts > 0 => faults' + restarts > 0
  BY <1>1
<1>5. SavedImageExists' /\ ErasingWhileUp'
  BY <1>3 DEF SavedImageExists, ErasingWhileUp
<1>6. ErasesImageFirst'
  BY <1>2, <1>4 DEF ErasesImageFirst
<1>7. SlotHasWorker' /\ CleanupIsSettled'
  BY <1>3, <1>4 DEF SlotHasWorker, CleanupIsSettled, At
<1>8. QueuedOrRunningOwned'
  BY <1>1, <1>2, <1>3, <1>4, OwnedMeans, OwnedMeansNext DEF QueuedOrRunningOwned
<1>9. SucceededHasImage'
  BY <1>3, <1>4 DEF SucceededHasImage
<1>10. DeletedRowHasNoLinkedImage'
  BY <1>3, <1>4 DEF DeletedRowHasNoLinkedImage
<1>11. QED
  BY <1>5, <1>6, <1>7, <1>8, <1>9, <1>10

\* In a process that is up a statement raises by an error only.
LEMMA RaisedUpdateIsFault ==
  ASSUME TypeOK, NEW t, NEW s, SetRowRaises(t, s)
  PROVE  /\ faults' \in Nat /\ faults' >= faults
         /\ phase = "up" => faults' > 0
<1>1. faults \in Nat
  BY BoundAssumption DEF TypeOK
<1>2. QED
  BY <1>1 DEF SetRowRaises, DbRaises, DbOpen

LEMMA WorkerRows ==
  ASSUME InductiveInvariant, RowsInvariant, InductiveInvariant',
         NEW t \in Task, Worker(t)
  PROVE  RowsInvariant'
<1> USE DEF At, Goto, GotoUnlessCancelled
<1> DEFINE Live == pc[t] \notin {"idle", "cleanup", "dead"}
<1>0. /\ TypeOK /\ row \in [Task -> RowState] /\ image \in [Task -> ImageState]
      /\ faults \in Nat
  BY BoundAssumption DEF InductiveInvariant, TypeOK
<1>1. Live => /\ row[t] \in Active /\ HasRow(t)
              /\ row[t] # "succeeded"
  BY DEF InductiveInvariant, WorkerRowActive, HasRow, Active
<1>2. pc[t] \in {"saved", "succeed"} => image[t] = "saved"
  BY DEF RowsInvariant, SavedImageExists
<1>3. ASSUME Preflight(t) \/ Prepare(t) \/ Request(t) \/ Download(t) \/ LastCheck(t)
      PROVE  RowsInvariant'
  <2>1. PICK s \in WorkerState \ {"idle", "cleanup", "dead"} :
          /\ pc' = [pc EXCEPT ![t] = s]
          /\ s \in {"saved", "succeed"} => pc[t] = "saved"
    BY <1>3 DEF Preflight, Prepare, Request, Download, LastCheck, WorkerState
  <2>2. /\ Live /\ row' = row /\ image' = image /\ faults' = faults
        /\ UNCHANGED <<phase, pending, running, erasing, restarts>>
    BY <1>3 DEF Preflight, Prepare, Request, Download, LastCheck, OnlyPc, boundVars
  <2>3. /\ \A u \in Task : u # t => image'[u] = image[u]
        /\ s \in {"saved", "succeed"} => image'[t] = "saved"
        /\ row'[t] # "succeeded" /\ faults' \in Nat /\ faults' >= faults
        /\ s # "dead" /\ s # "cleanup" /\ s \in WorkerState \ {"idle"}
    BY <1>0, <1>1, <1>2, <2>1, <2>2
  <2>4. QED
    BY <2>1, <2>2, <2>3, WorkerMoves
<1>4. ASSUME Save(t)
      PROVE  RowsInvariant'
  <2>1. PICK s \in {"saved", "fail"} :
          /\ pc' = [pc EXCEPT ![t] = s]
          /\ s = "saved" => image'[t] = "saved"
          /\ \A u \in Task : u # t => image'[u] = image[u]
    BY <1>0, <1>4 DEF Save
  <2>2. /\ Live /\ row' = row /\ faults' = faults
        /\ UNCHANGED <<phase, pending, running, erasing, restarts>>
    BY <1>4 DEF Save, boundVars
  <2>3. /\ row'[t] # "succeeded" /\ faults' \in Nat /\ faults' >= faults
        /\ s # "dead" /\ s # "cleanup" /\ s \in WorkerState \ {"idle"}
    BY <1>0, <1>1, <2>2 DEF WorkerState
  <2>4. QED
    BY <2>1, <2>2, <2>3, WorkerMoves
<1>5. ASSUME MarkRunning(t)
      PROVE  RowsInvariant'
  <2>1. /\ Live /\ image' = image
        /\ UNCHANGED <<phase, pending, running, erasing, restarts>>
    BY <1>5 DEF MarkRunning
  <2>2. CASE SetRow(t, "running") /\ UNCHANGED faults
             /\ Goto(t, IF HasRow(t) THEN "prepare" ELSE "dead")
    <3>1. row' = [row EXCEPT ![t] = "running"] /\ pc' = [pc EXCEPT ![t] = "prepare"]
      BY <1>1, <2>1, <2>2 DEF SetRow
    <3>2. row'[t] = "running" /\ faults' \in Nat /\ faults' >= faults
      BY <1>0, <2>2, <3>1
    <3>3. QED
      BY <2>1, <3>1, <3>2, WorkerMoves DEF Active, WorkerState
  <2>3. CASE SetRowRaises(t, "running") /\ Goto(t, "dead")
    <3>1. /\ pc' = [pc EXCEPT ![t] = "dead"]
          /\ row' = row \/ row' = [row EXCEPT ![t] = "running"]
      BY <1>0, <2>3, RaisedUpdate
    <3>2. row'[t] # "succeeded"
      BY <1>0, <1>1, <2>1, <3>1
    <3>3. faults' \in Nat /\ faults' >= faults /\ (phase = "up" => faults' # 0)
      BY <1>0, <2>3, RaisedUpdateIsFault
    <3>4. QED
      BY <2>1, <3>1, <3>2, <3>3, WorkerMoves DEF Active, WorkerState
  <2>4. QED
    BY <1>5, <2>2, <2>3 DEF MarkRunning
<1>6. ASSUME Succeed(t)
      PROVE  RowsInvariant'
  <2>1. /\ Live /\ pc' = [pc EXCEPT ![t] = "cleanup"] /\ image[t] = "saved"
        /\ UNCHANGED <<phase, pending, running, erasing, restarts>>
    BY <1>2, <1>6 DEF Succeed
  <2>2. CASE SetSucceeded(t) /\ (UNCHANGED faults \/ DbRaises)
    <3>1. row' = [row EXCEPT ![t] = "succeeded"]
      BY <1>1, <2>1, <2>2 DEF SetSucceeded, SetRow
    <3>2. image' = [image EXCEPT ![t] = "linked"]
      BY <1>0, <1>1, <2>1, <2>2 DEF SetSucceeded
    <3>3. /\ row'[t] = "succeeded" /\ image'[t] = "linked"
          /\ \A u \in Task : u # t => image'[u] = image[u]
      BY <1>0, <3>1, <3>2
    <3>4. faults' \in Nat /\ faults' >= faults
      BY <1>0, <2>2 DEF DbRaises
    <3>5. QED
      BY <2>1, <3>1, <3>3, <3>4, WorkerMoves DEF Terminal, WorkerState
  <2>3. CASE DbRaises /\ UNCHANGED <<row, image>>
    <3>1. faults' \in Nat /\ faults' >= faults /\ (phase = "up" => faults' # 0)
      BY <1>0, <2>3 DEF DbRaises, DbOpen
    <3>2. row'[t] # "succeeded"
      BY <1>1, <2>1, <2>3
    <3>3. QED
      BY <2>1, <2>3, <3>1, <3>2, WorkerMoves DEF WorkerState
  <2>4. QED
    BY <1>6, <2>2, <2>3 DEF Succeed
<1>7. ASSUME NEW s \in {"cancelled", "failed"}, Live, Finalize(t, s)
      PROVE  RowsInvariant'
  <2>1. /\ image' = image
        /\ UNCHANGED <<phase, pending, running, erasing, restarts>>
    BY <1>7 DEF Finalize
  <2>2. CASE SetRow(t, s) /\ Goto(t, "cleanup") /\ UNCHANGED faults
    <3>1. row' = [row EXCEPT ![t] = s] /\ pc' = [pc EXCEPT ![t] = "cleanup"]
      BY <1>1, <1>7, <2>2 DEF SetRow
    <3>2. row'[t] = s /\ faults' \in Nat /\ faults' >= faults
      BY <1>0, <2>2, <3>1
    <3>3. QED
      BY <1>7, <2>1, <3>1, <3>2, WorkerMoves DEF Terminal, WorkerState
  <2>3. CASE SetRowRaises(t, s) /\ Goto(t, "dead")
    <3>1. /\ pc' = [pc EXCEPT ![t] = "dead"]
          /\ row' = row \/ row' = [row EXCEPT ![t] = s]
      BY <1>0, <2>3, RaisedUpdate
    <3>2. row'[t] # "succeeded"
      BY <1>0, <1>1, <1>7, <3>1
    <3>3. faults' \in Nat /\ faults' >= faults /\ (phase = "up" => faults' # 0)
      BY <1>0, <2>3, RaisedUpdateIsFault
    <3>4. QED
      BY <1>7, <2>1, <3>1, <3>2, <3>3, WorkerMoves DEF Terminal, WorkerState
  <2>4. QED
    BY <1>7, <2>2, <2>3 DEF Finalize
<1>8. QED
  BY <1>3, <1>4, <1>5, <1>6, <1>7, PostRunCleanupRows
     DEF Worker, FinalizeCancelled, FinalizeFailed

----------------------------------------------------------------------------
\* The process

LEMMA ProcessRows ==
  ASSUME InductiveInvariant, RowsInvariant, InductiveInvariant', Process
  PROVE  RowsInvariant'
<1> USE DEF RowsInvariant, queueVars, boundVars, settingVars
<1>0. faults \in Nat /\ restarts \in Nat /\ row \in [Task -> RowState]
  BY BoundAssumption DEF InductiveInvariant, TypeOK
<1>1. CASE ShutdownCancel \/ ShutdownExecutor \/ CloseStorage
  <2>1. /\ phase' \notin {"up", "down"}
        /\ UNCHANGED <<row, image, pc, erasing, faults, restarts>>
        /\ phase = "up" => \A t \in Task : erasing[t] = "no"
    BY <1>1 DEF ShutdownCancel, ShutdownExecutor, CloseStorage
  <2>2. \A t \in Task : erasing[t] = "no"
    BY <2>1 DEF ErasingWhileUp
  <2>3. QED
    BY <2>1, <2>2
       DEF SavedImageExists, ErasingWhileUp, ErasesImageFirst, SlotHasWorker,
           CleanupIsSettled, QueuedOrRunningOwned, SucceededHasImage,
           DeletedRowHasNoLinkedImage, At
<1>2. CASE Exit
  <2>1. /\ phase' = "down" /\ restarts' = restarts + 1
        /\ \A t \in Task : pc'[t] = "idle" /\ erasing'[t] = "no"
        /\ UNCHANGED <<row, image, faults>>
    BY <1>2 DEF Exit
  <2>2. SucceededHasImage'
    BY <1>0, <2>1 DEF SucceededHasImage
  <2>3. QED
    BY <2>1, <2>2
       DEF SavedImageExists, ErasingWhileUp, ErasesImageFirst, SlotHasWorker,
           CleanupIsSettled, QueuedOrRunningOwned, DeletedRowHasNoLinkedImage, At
<1>3. CASE Start
  <2>1. /\ running = {} /\ \A t \in Task : pc[t] = "idle" /\ erasing[t] = "no"
    BY <1>3 DEF Start, InductiveInvariant, DownIsEmpty
  <2>2. /\ UNCHANGED <<image, running, pc, erasing, faults, restarts>>
        /\ \A t \in Task :
             /\ row'[t] \notin {"queued", "running"}
             /\ row'[t] = row[t] \/ row'[t] = "failed"
    BY <1>0, <1>3 DEF Start, Orphaned
  <2>3. QED
    BY <2>1, <2>2
       DEF SavedImageExists, ErasingWhileUp, ErasesImageFirst, SlotHasWorker,
           CleanupIsSettled, QueuedOrRunningOwned, SucceededHasImage,
           DeletedRowHasNoLinkedImage, At
<1>4. QED
  BY <1>1, <1>2, <1>3 DEF Process

LEMMA NextRows ==
  InductiveInvariant /\ RowsInvariant /\ [Next]_vars => RowsInvariant'
<1> SUFFICES ASSUME InductiveInvariant, RowsInvariant, [Next]_vars
             PROVE  RowsInvariant'
  OBVIOUS
<1>1. InductiveInvariant'
  BY NextInvariant
<1>2. CASE Handlers
  <2>1. CASE \E n \in QueueCapRange : SetQueueCap(n)
    <3>1. UNCHANGED <<phase, row, image, pending, running, pc, erasing, faults, restarts>>
      BY <2>1 DEF SetQueueCap, queueVars, boundVars
    <3>2. QED
      BY <3>1
         DEF RowsInvariant, SavedImageExists, ErasingWhileUp, ErasesImageFirst,
             SlotHasWorker, CleanupIsSettled, QueuedOrRunningOwned,
             SucceededHasImage, DeletedRowHasNoLinkedImage, Owned, Front, At
  <2>2. QED
    BY <1>1, <1>2, <2>1, SubmitRows, CancelPendingRows, CancelRunningRows,
       SetConcurrencyRows, EraseRows DEF Handlers
<1>3. CASE \E t \in Task : Worker(t)
  BY <1>1, <1>3, WorkerRows
<1>4. CASE Process
  BY <1>1, <1>4, ProcessRows
<1>5. CASE UNCHANGED vars
  BY <1>5
     DEF vars, queueVars, boundVars, RowsInvariant, SavedImageExists,
         ErasingWhileUp, ErasesImageFirst, SlotHasWorker, CleanupIsSettled,
         QueuedOrRunningOwned, SucceededHasImage, DeletedRowHasNoLinkedImage,
         Owned, Front, At
<1>6. QED
  BY <1>2, <1>3, <1>4, <1>5 DEF Next

LEMMA InitRows == Init => RowsInvariant
BY DEF Init, RowsInvariant, SavedImageExists, ErasingWhileUp, ErasesImageFirst,
       SlotHasWorker, CleanupIsSettled, QueuedOrRunningOwned, SucceededHasImage,
       DeletedRowHasNoLinkedImage, At

----------------------------------------------------------------------------
\* What one step may do to one task

Waits(t) == \E i \in DOMAIN pending : pending[i] = t
Settling(t) == pc[t] \in {"idle", "cleanup", "dead"}
Unlinked == {"new", "queued", "running", "cancelled"}

\* Images are saved by the save, linked by the success branch and removed by
\* a delete; workers start from the queue and come to the success branch by
\* the last check; a set cancel event stays until the worker has cleaned up.
TaskStep(t) ==
  /\ \/ image'[t] = image[t]
     \/ pc[t] = "save" /\ image'[t] = "saved"
     \/ pc[t] = "succeed" /\ image'[t] \in {"linked", "gone"}
        /\ pc'[t] = "cleanup" /\ row'[t] = "succeeded"
     \/ erasing[t] = "image" /\ image'[t] = "gone"
  /\ erasing'[t] = "image" =>
       \/ erasing[t] = "image"
       \/ image[t] \in {"linked", "gone"} /\ image'[t] = image[t]
  /\ row'[t] \in Unlinked => row[t] \in Unlinked \/ ~Settling(t)
  /\ row'[t] = "new" => row[t] = "new"
  /\ row'[t] = "succeeded" => row[t] = "succeeded" \/ pc[t] = "succeed"
  /\ Settling(t) => Settling(t)' \/ Waits(t) \/ row[t] = "new"
  /\ Waits(t)' => Waits(t) \/ row[t] = "new"
  /\ pc'[t] = "succeed" =>
       pc[t] = "succeed" \/ (pc[t] = "saved" /\ t \notin cancelEvent)
  /\ pc'[t] \in BeforeLastCheck =>
       \/ pc[t] \in BeforeLastCheck /\ (t \in cancelEvent => t \in cancelEvent')
       \/ Waits(t) \/ row[t] = "new"

\* A pump moves handles of its queue, and gives them workers at the start of
\* their way.
LEMMA PumpOfTask ==
  ASSUME NEW q, NEW busy \in SUBSET Task, IsFiniteSet(busy), FreshQueue(q, busy),
         NEW limit \in Nat \ {0}, NEW pcs \in [Task -> WorkerState],
         Pump(q, busy, limit, pcs), NEW t \in Task
  PROVE  /\ \/ pc'[t] = pcs[t]
            \/ pc'[t] = "dispatched" /\ \E i \in DOMAIN q : q[i] = t
         /\ Waits(t)' => \E i \in DOMAIN q : q[i] = t
<1> DEFINE n == Taken(q, busy, limit)
<1>1. /\ q \in Seq(Task) /\ DOMAIN q = 1..Len(q) /\ Len(q) \in Nat
      /\ Cardinality(busy) \in Nat
  BY FS_CardinalityType DEF FreshQueue
<1>2. n \in 0..Len(q)
  BY <1>1, TakenBounds
<1>3. /\ pending' = Rest(q, n)
      /\ \A u \in Task : \/ pc'[u] = pcs[u]
                         \/ u \in Front(q, n) /\ pc'[u] = "dispatched"
  BY DEF Pump
<1> HIDE DEF n
<1>4. \A u \in Front(q, n) : \E i \in DOMAIN q : q[i] = u
  BY <1>1, <1>2 DEF Front
<1>5. \A i \in DOMAIN Rest(q, n) : i + n \in DOMAIN q /\ Rest(q, n)[i] = q[i + n]
  <2>1. /\ Len(Rest(q, n)) = Len(q) - n
        /\ \A i \in DOMAIN Rest(q, n) :
             i + n \in DOMAIN q /\ Rest(q, n)[i] = q[i + n]
        /\ FreshQueue(Rest(q, n), busy \cup Front(q, n))
    BY <1>2, RestFresh, Zenon
  <2>2. QED
    BY <2>1
<1>6. QED
  BY <1>3, <1>4, <1>5 DEF Waits

LEMMA PumpTaskStep ==
  ASSUME NEW q, NEW busy \in SUBSET Task, IsFiniteSet(busy), FreshQueue(q, busy),
         NEW limit \in Nat \ {0}, NEW pcs \in [Task -> WorkerState],
         Pump(q, busy, limit, pcs), NEW t \in Task,
         UNCHANGED <<image, erasing>>,
         pcs[t] = pc[t] \/ pcs[t] = "idle",
         pcs[t] = pc[t] => (t \in cancelEvent => t \in cancelEvent'),
         row'[t] = row[t] \/ (row[t] = "new" /\ row'[t] = "queued"),
         (\E i \in DOMAIN q : q[i] = t) => Waits(t) \/ row[t] = "new"
  PROVE  TaskStep(t)
<1>1. /\ \/ pc'[t] = pcs[t]
         \/ pc'[t] = "dispatched" /\ (Waits(t) \/ row[t] = "new")
      /\ Waits(t)' => Waits(t) \/ row[t] = "new"
  BY PumpOfTask
<1>2. /\ row'[t] \in Unlinked => row[t] \in Unlinked
      /\ row'[t] = "new" => row[t] = "new"
      /\ row'[t] = "succeeded" => row[t] = "succeeded"
  BY DEF Unlinked
<1>3. Settling(t) => Settling(t)' \/ Waits(t) \/ row[t] = "new"
  BY <1>1 DEF Settling
<1>4. pc'[t] \in BeforeLastCheck =>
        \/ pc[t] \in BeforeLastCheck /\ (t \in cancelEvent => t \in cancelEvent')
        \/ Waits(t) \/ row[t] = "new"
  BY <1>1 DEF BeforeLastCheck
<1>5. pc'[t] = "succeed" => pc[t] = "succeed"
  BY <1>1
<1>6. QED
  BY <1>1, <1>2, <1>3, <1>4, <1>5 DEF TaskStep

LEMMA HandlerTaskStep ==
  ASSUME InductiveInvariant, Handlers, NEW t \in Task
  PROVE  TaskStep(t)
<1> USE DEF settingVars, boundVars, queueVars
<1>0. /\ FreshQueue(pending, running) /\ running \in SUBSET Task
      /\ IsFiniteSet(running) /\ TypeOK /\ pending \in Seq(Task)
      /\ pc \in [Task -> WorkerState] /\ concurrency \in Nat \ {0}
      /\ row \in [Task -> RowState] /\ image \in [Task -> ImageState]
  BY HeldFresh DEF InductiveInvariant, TypeOK
<1>1. ASSUME NEW u \in Task, NEW priority \in BOOLEAN, Submit(u, priority)
      PROVE  TaskStep(t)
  <2> DEFINE q == IF priority THEN <<u>> \o pending ELSE Append(pending, u)
  <2>1. /\ Pump(q, running, concurrency, pc) /\ row[u] = "new"
        /\ row' = [row EXCEPT ![u] = "queued"]
        /\ UNCHANGED <<image, erasing, cancelEvent>>
    BY <1>1 DEF Submit
  <2>2. u \notin running /\ \A i \in DOMAIN pending : pending[i] # u
    BY <2>1 DEF InductiveInvariant, RunningKnown, PendingIsQueued
  <2>3. q = <<u>> \o pending \/ q = Append(pending, u)
    OBVIOUS
  <2> HIDE DEF q
  <2>4. /\ FreshQueue(q, running)
        /\ \A i \in DOMAIN q : q[i] = u \/ \E j \in DOMAIN pending : q[i] = pending[j]
    BY <1>0, <2>2, <2>3, SubmitFresh
  <2>5. row'[t] = row[t] \/ (row[t] = "new" /\ row'[t] = "queued")
    BY <1>0, <2>1
  <2>6. (\E i \in DOMAIN q : q[i] = t) => Waits(t) \/ row[t] = "new"
    BY <2>1, <2>4 DEF Waits
  <2>7. QED
    BY <1>0, <2>1, <2>4, <2>5, <2>6, PumpTaskStep
<1>2. ASSUME NEW n \in ConcurrencyRange, SetConcurrency(n)
      PROVE  TaskStep(t)
  <2>1. /\ Pump(pending, running, n, pc) /\ n \in Nat \ {0}
        /\ UNCHANGED <<row, image, erasing, cancelEvent>>
    BY <1>2, ConfigAssumption DEF SetConcurrency, ConcurrencyRange
  <2>2. (\E i \in DOMAIN pending : pending[i] = t) => Waits(t)
    BY DEF Waits
  <2>3. QED
    BY <1>0, <2>1, <2>2, PumpTaskStep
<1>3. ASSUME NEW k \in DOMAIN pending, CancelPending(k)
      PROVE  TaskStep(t)
  <2>1. /\ DropPending(k) /\ UNCHANGED <<image, pc, erasing, cancelEvent>>
        /\ pending[k] \in Task
    BY <1>0, <1>3 DEF CancelPending
  <2>2. row' = row \/ row' = [row EXCEPT ![pending[k]] = "cancelled"]
    BY <1>0, <1>3, RaisedUpdate DEF CancelPending, SetRow
  <2>3. Waits(t)' => Waits(t)
    BY <1>0, <2>1, DropFresh DEF Waits
  <2>4. row'[t] = row[t] \/ (t = pending[k] /\ row'[t] = "cancelled")
    BY <1>0, <2>1, <2>2
  <2>5. t = pending[k] => row[t] = "queued"
    BY <2>1 DEF InductiveInvariant, PendingIsQueued
  <2>6. QED
    BY <2>1, <2>3, <2>4, <2>5 DEF TaskStep, Settling, Unlinked
<1>4. ASSUME NEW u \in Task, CancelRunning(u)
      PROVE  TaskStep(t)
  <2>1. /\ UNCHANGED <<image, pending, pc, erasing>>
        /\ cancelEvent' = cancelEvent \cup {u}
    BY <1>4 DEF CancelRunning
  <2>2. row' = row \/ row' = [row EXCEPT ![u] = "cancelling"]
    BY <1>0, <1>4, RaisedUpdate DEF CancelRunning, SetRow
  <2>3. row'[t] = row[t] \/ row'[t] = "cancelling"
    BY <1>0, <2>2
  <2>4. QED
    BY <2>1, <2>3 DEF TaskStep, Settling, Unlinked, Waits
<1>5. ASSUME NEW n \in QueueCapRange, SetQueueCap(n)
      PROVE  TaskStep(t)
  BY <1>5 DEF SetQueueCap, TaskStep, Settling, Unlinked, Waits
<1>6. ASSUME NEW u \in Task, EraseCheck(u) \/ EraseImage(u) \/ EraseRow(u)
      PROVE  TaskStep(t)
  <2>1. UNCHANGED <<pending, pc, cancelEvent>>
    BY <1>6 DEF EraseCheck, EraseImage, EraseRow
  <2>2. row'[t] = row[t] \/ row'[t] = "deleted"
    BY <1>0, <1>6 DEF EraseCheck, EraseImage, EraseRow
  <2>3. /\ image'[t] = image[t] \/ (erasing[t] = "image" /\ image'[t] = "gone")
        /\ erasing'[t] = "image" =>
             \/ erasing[t] = "image"
             \/ image[t] \in {"linked", "gone"} /\ image'[t] = image[t]
    BY <1>0, <1>6 DEF EraseCheck, EraseImage, EraseRow, TypeOK
  <2>4. QED
    BY <2>1, <2>2, <2>3 DEF TaskStep, Settling, Unlinked, Waits
<1>7. QED
  BY <1>1, <1>2, <1>3, <1>4, <1>5, <1>6 DEF Handlers

LEMMA WorkerTaskStep ==
  ASSUME InductiveInvariant, NEW u \in Task, Worker(u), NEW t \in Task
  PROVE  TaskStep(t)
<1> USE DEF At, Goto, GotoUnlessCancelled, settingVars, boundVars, queueVars
<1>0. /\ FreshQueue(pending, running) /\ running \in SUBSET Task
      /\ IsFiniteSet(running) /\ TypeOK /\ pending \in Seq(Task)
      /\ pc \in [Task -> WorkerState] /\ concurrency \in Nat \ {0}
      /\ row \in [Task -> RowState] /\ image \in [Task -> ImageState]
  BY HeldFresh DEF InductiveInvariant, TypeOK
<1>1. CASE PostRunCleanup(u)
  <2> DEFINE busy == running \ {u}
             pcs == [pc EXCEPT ![u] = "idle"]
  <2>1. /\ Pump(pending, busy, concurrency, pcs)
        /\ UNCHANGED <<row, image, erasing>> /\ cancelEvent' = cancelEvent \ {u}
    BY <1>1 DEF PostRunCleanup
  <2>2. /\ FreshQueue(pending, busy) /\ busy \in SUBSET Task
        /\ pcs \in [Task -> WorkerState] /\ IsFiniteSet(busy)
    BY <1>0, FS_RemoveElement DEF FreshQueue, WorkerState
  <2>3. /\ pcs[t] = pc[t] \/ pcs[t] = "idle"
        /\ t # u => (t \in cancelEvent => t \in cancelEvent')
        /\ t = u => pcs[t] # pc[t]
    BY <1>0, <1>1, <2>1 DEF PostRunCleanup
  <2>4. (\E i \in DOMAIN pending : pending[i] = t) => Waits(t)
    BY DEF Waits
  <2> HIDE DEF busy, pcs
  <2>5. QED
    BY <1>0, <2>1, <2>2, <2>3, <2>4, PumpTaskStep
<1>2. CASE ~PostRunCleanup(u)
  <2>1. ~Settling(u) /\ UNCHANGED <<pending, erasing, cancelEvent>>
    BY <1>2 DEF Worker, Preflight, MarkRunning, Prepare, Request, Download, Save,
                LastCheck, Succeed, FinalizeCancelled, FinalizeFailed, Finalize,
                OnlyPc, Settling
  <2>2. Waits(t)' => Waits(t)
    BY <2>1 DEF Waits
  <2>3. CASE t # u
    <3>1. pc'[t] = pc[t] /\ image'[t] = image[t]
      BY <1>0, <1>2, <2>3
         DEF Worker, Preflight, MarkRunning, Prepare, Request, Download, Save,
             LastCheck, Succeed, SetSucceeded, FinalizeCancelled, FinalizeFailed,
             Finalize, OnlyPc
    <3>2. row'[t] = row[t]
      BY <1>0, <1>2, <2>3, RaisedUpdate
         DEF Worker, Preflight, MarkRunning, Prepare, Request, Download, Save,
             LastCheck, Succeed, SetSucceeded, FinalizeCancelled, FinalizeFailed,
             Finalize, OnlyPc, SetRow
    <3>3. QED
      BY <2>1, <2>2, <3>1, <3>2 DEF TaskStep, Settling, Unlinked
  <2>4. CASE t = u
    <3>1. row[t] \in Active
      BY <2>1, <2>4 DEF InductiveInvariant, WorkerRowActive, Settling
    <3>2. HasRow(t) /\ row[t] # "succeeded" /\ row[t] # "new"
      BY <3>1 DEF HasRow, Active
    <3>3. ~Settling(t)
      BY <2>1, <2>4
    <3>4. CASE Preflight(u) \/ Prepare(u) \/ Request(u) \/ Download(u) \/ LastCheck(u)
      <4>1. UNCHANGED <<row, image>>
        BY <3>4 DEF Preflight, Prepare, Request, Download, LastCheck, OnlyPc
      <4>2. /\ pc'[t] = "succeed" => pc[t] = "saved" /\ t \notin cancelEvent
            /\ pc[t] \in BeforeLastCheck
        BY <1>0, <2>4, <3>4
           DEF Preflight, Prepare, Request, Download, LastCheck, BeforeLastCheck
      <4>3. QED
        BY <2>1, <2>2, <3>2, <3>3, <4>1, <4>2 DEF TaskStep
    <3>5. CASE Save(u)
      <4>1. /\ row' = row /\ pc[t] = "save" /\ pc'[t] # "succeed"
            /\ image'[t] = image[t] \/ image'[t] = "saved"
        BY <1>0, <2>4, <3>5 DEF Save
      <4>2. pc[t] \in BeforeLastCheck
        BY <4>1 DEF BeforeLastCheck
      <4>3. QED
        BY <2>1, <2>2, <3>2, <3>3, <4>1, <4>2 DEF TaskStep
    <3>6. CASE MarkRunning(u)
      <4>1. /\ image' = image /\ pc[t] = "mark" /\ pc'[t] \in {"prepare", "dead"}
        BY <1>0, <2>4, <3>6 DEF MarkRunning
      <4>2. row' = row \/ row' = [row EXCEPT ![t] = "running"]
        BY <1>0, <2>4, <3>6, RaisedUpdate DEF MarkRunning, SetRow
      <4>3. row'[t] = row[t] \/ row'[t] = "running"
        BY <1>0, <4>2
      <4>4. pc[t] \in BeforeLastCheck
        BY <4>1 DEF BeforeLastCheck
      <4>5. QED
        BY <2>1, <2>2, <3>2, <3>3, <4>1, <4>3, <4>4 DEF TaskStep
    <3>7. CASE Succeed(u)
      <4>1. pc[t] = "succeed" /\ pc'[t] = "cleanup" /\ image[t] \in ImageState
        BY <1>0, <2>4, <3>7 DEF Succeed
      <4>2. CASE UNCHANGED <<row, image>>
        BY <2>1, <2>2, <3>2, <3>3, <4>1, <4>2 DEF TaskStep, BeforeLastCheck
      <4>3. CASE SetSucceeded(t)
        <5>1. row' = [row EXCEPT ![t] = "succeeded"]
          BY <3>2, <4>3 DEF SetSucceeded, SetRow
        <5>2. row'[t] = "succeeded"
          BY <1>0, <5>1
        <5>3. image'[t] \in {"linked", "gone"}
          BY <1>0, <3>2, <4>3 DEF SetSucceeded
        <5>4. QED
          BY <2>1, <2>2, <3>2, <3>3, <4>1, <5>2, <5>3 DEF TaskStep, BeforeLastCheck
      <4>4. QED
        BY <2>4, <3>7, <4>2, <4>3 DEF Succeed
    <3>8. ASSUME NEW s \in {"cancelled", "failed"}, Finalize(u, s)
          PROVE  TaskStep(t)
      <4>1. image' = image /\ pc'[t] \in {"cleanup", "dead"}
        BY <1>0, <2>4, <3>8 DEF Finalize
      <4>2. row' = row \/ row' = [row EXCEPT ![t] = s]
        BY <1>0, <2>4, <3>8, RaisedUpdate DEF Finalize, SetRow
      <4>3. row'[t] = row[t] \/ row'[t] = s
        BY <1>0, <4>2
      <4>4. QED
        BY <2>1, <2>2, <3>2, <3>3, <3>8, <4>1, <4>3 DEF TaskStep, BeforeLastCheck
    <3>9. QED
      BY <1>2, <3>4, <3>5, <3>6, <3>7, <3>8
         DEF Worker, FinalizeCancelled, FinalizeFailed
  <2>5. QED
    BY <2>3, <2>4
<1>3. QED
  BY <1>1, <1>2

LEMMA EveryTaskStep ==
  ASSUME InductiveInvariant, [Next]_vars, NEW t \in Task
  PROVE  TaskStep(t)
<1> USE DEF settingVars, boundVars, queueVars
<1>0. TypeOK /\ row \in [Task -> RowState]
  BY DEF InductiveInvariant, TypeOK
<1>1. CASE Process
  <2>1. CASE ShutdownCancel \/ ShutdownExecutor \/ CloseStorage
    BY <2>1 DEF ShutdownCancel, ShutdownExecutor, CloseStorage, TaskStep, Settling,
                Unlinked, Waits
  <2>2. CASE Exit
    <3>1. /\ UNCHANGED <<row, image>> /\ pc'[t] = "idle" /\ erasing'[t] = "no"
          /\ ~Waits(t)'
      BY <2>2 DEF Exit, Waits
    <3>2. QED
      BY <3>1 DEF TaskStep, Settling, Unlinked, BeforeLastCheck
  <2>3. CASE Start
    <3>1. /\ UNCHANGED <<image, pending, pc, cancelEvent, erasing>>
          /\ row'[t] = row[t] \/ row'[t] = "failed"
      BY <2>3 DEF Start
    <3>2. QED
      BY <3>1 DEF TaskStep, Settling, Unlinked, Waits
  <2>4. QED
    BY <1>1, <2>1, <2>2, <2>3 DEF Process
<1>2. CASE UNCHANGED vars
  BY <1>2 DEF vars, TaskStep, Settling, Unlinked, Waits
<1>3. QED
  BY <1>1, <1>2, HandlerTaskStep, WorkerTaskStep DEF Next

----------------------------------------------------------------------------
\* The images of tasks that have not succeeded

LEMMA NextUnlinked ==
  ASSUME InductiveInvariant, UnlinkedUntilSuccess, [Next]_vars
  PROVE  UnlinkedUntilSuccess'
<1> SUFFICES ASSUME NEW t \in Task
             PROVE  /\ row'[t] \in Unlinked \/ ~Settling(t)'
                       => image'[t] \in {"none", "saved"}
                    /\ erasing'[t] = "image" => image'[t] \in {"linked", "gone"}
  BY DEF UnlinkedUntilSuccess, Unlinked, Settling
<1>1. TaskStep(t)
  BY EveryTaskStep
<1>2. Waits(t) => row[t] = "queued"
  BY DEF InductiveInvariant, PendingIsQueued, Waits
<1>3. /\ row[t] \in Unlinked \/ ~Settling(t) => image[t] \in {"none", "saved"}
      /\ erasing[t] = "image" => image[t] \in {"linked", "gone"}
  BY DEF UnlinkedUntilSuccess, Unlinked, Settling
<1>4. row'[t] \in Unlinked \/ ~Settling(t)' => row[t] \in Unlinked \/ ~Settling(t)
  BY <1>1, <1>2 DEF TaskStep, Unlinked
<1>5. ASSUME row'[t] \in Unlinked \/ ~Settling(t)'
      PROVE  image'[t] \in {"none", "saved"}
  <2>1. image[t] \in {"none", "saved"} /\ erasing[t] # "image"
    BY <1>3, <1>4, <1>5
  <2>2. ~(pc'[t] = "cleanup" /\ row'[t] = "succeeded")
    BY <1>5 DEF Unlinked, Settling
  <2>3. QED
    BY <1>1, <2>1, <2>2 DEF TaskStep
<1>6. ASSUME erasing'[t] = "image"
      PROVE  image'[t] \in {"linked", "gone"}
  <2>1. CASE erasing[t] = "image"
    <3>1. image[t] \in {"linked", "gone"} /\ Settling(t)
      BY <1>3, <2>1
    <3>2. QED
      BY <1>1, <3>1 DEF TaskStep, Settling
  <2>2. CASE erasing[t] # "image"
    BY <1>1, <1>6, <2>2 DEF TaskStep
  <2>3. QED
    BY <2>1, <2>2
<1>7. QED
  BY <1>5, <1>6

----------------------------------------------------------------------------
\* Theorems about rows and images

\* Queue, workers, rows and images stay in step, through every interleaving
\* of handlers and workers, errors, stops and restarts.
THEOREM RowsInvariance == Spec => []ManagerInvariant
<1>1. Init => ManagerInvariant
  <2>1. Init => UnlinkedUntilSuccess
    BY DEF Init, UnlinkedUntilSuccess
  <2>2. QED
    BY <2>1, InitInvariant, InitRows DEF ManagerInvariant
<1>2. ManagerInvariant /\ [Next]_vars => ManagerInvariant'
  BY NextInvariant, NextRows, NextUnlinked DEF ManagerInvariant
<1>3. QED
  BY <1>1, <1>2, PTL DEF Spec

\* While no error has been raised, whoever reads "queued" or "running" reads
\* of a task that the manager holds.
THEOREM ActiveRowsAreOwned == Spec => []QueuedOrRunningOwned
<1>1. ManagerInvariant => QueuedOrRunningOwned
  BY DEF ManagerInvariant, RowsInvariant
<1>2. QED
  BY <1>1, RowsInvariance, PTL

\* A succeeded row names an object that exists until its own delete.
THEOREM SucceededRowsHaveImages == Spec => []SucceededHasImage
<1>1. ManagerInvariant => SucceededHasImage
  BY DEF ManagerInvariant, RowsInvariant
<1>2. QED
  BY <1>1, RowsInvariance, PTL

\* While no error has been raised, a dropped row leaves no linked object.
THEOREM DeletedRowsLeaveNoImage == Spec => []DeletedRowHasNoLinkedImage
<1>1. ManagerInvariant => DeletedRowHasNoLinkedImage
  BY DEF ManagerInvariant, RowsInvariant
<1>2. QED
  BY <1>1, RowsInvariance, PTL

----------------------------------------------------------------------------
\* Settled rows

\* Which step changes the row of which task.
LEMMA StepKeepsSettledRow ==
  ASSUME ManagerInvariant, [Next]_vars, NEW t \in Task,
         row[t] \in Terminal, row'[t] # row[t]
  PROVE  \/ row'[t] = "deleted" /\ erasing[t] = "row"
         \/ row'[t] = "cancelling" /\ t \in running
            /\ (At(t, "cleanup") \/ (At(t, "dead") /\ faults > 0))
<1> USE DEF ManagerInvariant
<1>0. /\ row \in [Task -> RowState] /\ pc \in [Task -> WorkerState] /\ faults \in Nat
      /\ running \in SUBSET Task /\ pending \in Seq(Task)
  BY BoundAssumption DEF InductiveInvariant, TypeOK
<1>1. pc[t] \in {"idle", "cleanup", "dead"}
  BY DEF InductiveInvariant, WorkerRowActive, Terminal, Active
<1>2. ASSUME NEW u \in Task, NEW s, row' = row \/ SetRow(u, s)
      PROVE  u = t /\ row'[t] = s
  BY <1>0, <1>2 DEF SetRow
<1>3. ASSUME NEW u \in Task, NEW s, SetRow(u, s) \/ SetRowRaises(u, s)
      PROVE  u = t /\ row'[t] = s
  BY <1>2, <1>3 DEF SetRowRaises
<1>4. CASE Handlers
  <2>1. ASSUME NEW u \in Task, NEW priority \in BOOLEAN, Submit(u, priority)
        PROVE  FALSE
    BY <1>0, <2>1 DEF Submit, Terminal
  <2>2. ASSUME NEW i \in DOMAIN pending, CancelPending(i)
        PROVE  FALSE
    <3>1. pending[i] \in Task /\ row[pending[i]] = "queued"
      BY <1>0 DEF InductiveInvariant, PendingIsQueued
    <3>2. pending[i] = t
      BY <1>3, <2>2, <3>1 DEF CancelPending
    <3>3. QED
      BY <3>1, <3>2 DEF Terminal
  <2>3. ASSUME NEW u \in Task, CancelRunning(u)
        PROVE  /\ row'[t] = "cancelling" /\ t \in running
               /\ At(t, "cleanup") \/ (At(t, "dead") /\ faults > 0)
    <3>1. u = t /\ row'[t] = "cancelling"
      BY <1>3, <2>3 DEF CancelRunning
    <3>2. t \in running /\ phase = "up"
      BY <2>3, <3>1 DEF CancelRunning
    <3>3. pc[t] # "idle" /\ (faults = 0 => pc[t] # "dead")
      BY <3>2 DEF RowsInvariant, SlotHasWorker, At
    <3>4. QED
      BY <1>0, <1>1, <3>1, <3>2, <3>3 DEF At
  <2>4. ASSUME NEW u \in Task, EraseCheck(u) \/ EraseImage(u) \/ EraseRow(u)
        PROVE  row'[t] = "deleted" /\ erasing[t] = "row"
    BY <1>0, <2>4 DEF EraseCheck, EraseImage, EraseRow
  <2>5. ASSUME (\E n \in ConcurrencyRange : SetConcurrency(n))
               \/ (\E n \in QueueCapRange : SetQueueCap(n))
        PROVE  FALSE
    BY <2>5 DEF SetConcurrency, SetQueueCap
  <2>6. QED
    BY <1>4, <2>1, <2>2, <2>3, <2>4, <2>5 DEF Handlers
<1>5. ASSUME NEW u \in Task, Worker(u)
      PROVE  FALSE
  <2>1. CASE pc[u] \in {"idle", "cleanup", "dead"}
    <3>1. PostRunCleanup(u)
      BY <1>5, <2>1
         DEF Worker, Preflight, MarkRunning, Prepare, Request, Download, Save,
             LastCheck, Succeed, FinalizeCancelled, FinalizeFailed, At
    <3>2. QED
      BY <3>1 DEF PostRunCleanup
  <2>2. CASE pc[u] \notin {"idle", "cleanup", "dead"}
    <3>1. u # t
      BY <1>1, <2>2
    <3>2. \/ row' = row
          \/ \E s \in RowState : SetRow(u, s) \/ SetRowRaises(u, s)
      BY <1>5, <2>2
         DEF Worker, Preflight, MarkRunning, Prepare, Request, Download, Save,
             LastCheck, Succeed, SetSucceeded, FinalizeCancelled, FinalizeFailed,
             Finalize, PostRunCleanup, OnlyPc, RowState, Active, Terminal
    <3>3. QED
      BY <1>3, <3>1, <3>2
  <2>3. QED
    BY <2>1, <2>2
<1>6. CASE Process
  BY <1>0, <1>6
     DEF Process, ShutdownCancel, ShutdownExecutor, CloseStorage, Exit, Start,
         Orphaned, Terminal
<1>7. CASE UNCHANGED vars
  BY <1>7 DEF vars
<1>8. QED
  BY <1>4, <1>5, <1>6, <1>7 DEF Next

\* Nobody rewrites a settled row but its own delete, and a cancel that is
\* late for the worker and early for its cleanup.
THEOREM SettledRowsStay == Spec => TerminalReopensOnlyBeforeCleanup
<1>1. ManagerInvariant /\ [Next]_vars =>
        [\A t \in Task :
           (row[t] \in Terminal /\ row'[t] # row[t]) =>
              \/ row'[t] = "deleted" /\ erasing[t] = "row"
              \/ row'[t] = "cancelling" /\ t \in running
                 /\ (At(t, "cleanup") \/ (At(t, "dead") /\ faults > 0))]_vars
  BY StepKeepsSettledRow
<1>2. QED
  BY <1>1, RowsInvariance, PTL DEF Spec, TerminalReopensOnlyBeforeCleanup

----------------------------------------------------------------------------
\* Cancels

\* A task that was cancelled in time has nobody left who could make it
\* succeed: it does not wait, and its worker, if it has one, is either past
\* the success branch or will find the cancel event.
Doomed(t) ==
  /\ row[t] \notin {"new", "succeeded"}
  /\ image[t] \in {"none", "saved"}
  /\ ~Waits(t)
  /\ pc[t] # "succeed"
  /\ pc[t] \in BeforeLastCheck => t \in cancelEvent

LEMMA CancelledIsDoomed ==
  ASSUME ManagerInvariant, NEW t \in Task, CancelledInTime(t)
  PROVE  Doomed(t)
<1>1. Waits(t) => row[t] = "queued" /\ t \notin running
  BY DEF ManagerInvariant, InductiveInvariant, PendingIsQueued, QueueDisjoint, Waits
<1>2. pc[t] # "idle" => t \in running
  BY DEF ManagerInvariant, InductiveInvariant, WorkerHoldsSlot, At
<1>3. CASE row[t] = "cancelled"
  <2>1. Settling(t)
    BY <1>3 DEF ManagerInvariant, InductiveInvariant, WorkerRowActive, Active, Settling
  <2>2. image[t] \in {"none", "saved"}
    BY <1>3 DEF ManagerInvariant, UnlinkedUntilSuccess
  <2>3. QED
    BY <1>1, <1>3, <2>1, <2>2 DEF Doomed, Settling, BeforeLastCheck
<1>4. CASE t \in cancelEvent /\ pc[t] \in BeforeLastCheck
  <2>1. pc[t] \notin {"idle", "cleanup", "dead", "succeed"}
    BY <1>4 DEF BeforeLastCheck
  <2>2. row[t] \in Active /\ image[t] \in {"none", "saved"}
    BY <2>1 DEF ManagerInvariant, InductiveInvariant, WorkerRowActive, UnlinkedUntilSuccess
  <2>3. QED
    BY <1>1, <1>2, <1>4, <2>1, <2>2 DEF Doomed, Active
<1>5. QED
  BY <1>3, <1>4 DEF CancelledInTime

LEMMA DoomedStays ==
  ASSUME ManagerInvariant, [Next]_vars, NEW t \in Task, Doomed(t)
  PROVE  Doomed(t)'
<1>1. TaskStep(t)
  BY EveryTaskStep DEF ManagerInvariant
<1>2. erasing[t] # "image"
  BY DEF ManagerInvariant, UnlinkedUntilSuccess, Doomed
<1>3. row'[t] \notin {"new", "succeeded"} /\ ~Waits(t)'
  BY <1>1 DEF TaskStep, Doomed
<1>4. image'[t] \in {"none", "saved"}
  BY <1>1, <1>2 DEF TaskStep, Doomed
<1>5. pc'[t] # "succeed"
  BY <1>1 DEF TaskStep, Doomed, BeforeLastCheck
<1>6. pc'[t] \in BeforeLastCheck => t \in cancelEvent'
  BY <1>1 DEF TaskStep, Doomed
<1>7. BeforeLastCheck' = BeforeLastCheck
  BY DEF BeforeLastCheck
<1>8. QED
  BY <1>3, <1>4, <1>5, <1>6, <1>7 DEF Doomed

\* A task that was cancelled while it waited, or before the last check of its
\* worker, never succeeds afterwards, through all that handlers, workers,
\* errors, stops and restarts still do, and no row names its image.
THEOREM CancelsAreNotUndone == Spec => CancelledNeverSucceeds
<1> SUFFICES ASSUME NEW t \in Task
             PROVE  Spec => [](CancelledInTime(t) =>
                                 [](row[t] # "succeeded" /\ image[t] \in {"none", "saved"}))
  BY DEF CancelledNeverSucceeds
<1>1. ManagerInvariant /\ CancelledInTime(t) => Doomed(t)
  BY CancelledIsDoomed
<1>2. ManagerInvariant /\ Doomed(t) /\ [Next]_vars => Doomed(t)'
  BY DoomedStays
<1>3. Doomed(t) => row[t] # "succeeded" /\ image[t] \in {"none", "saved"}
  BY DEF Doomed
<1>4. QED
  BY <1>1, <1>2, <1>3, RowsInvariance, PTL DEF Spec

----------------------------------------------------------------------------
\* What errors leave behind

StrandedTasks == {t \in Task : Stranded(t)}

\* In a live process a step that raises no error strands nobody, and one that
\* raises an error strands at most the task it works for.
StrandsNobody == \A t \in Task : Stranded(t)' => Stranded(t)
StrandsOne == \E u \in Task : \A t \in Task : Stranded(t)' => Stranded(t) \/ t = u
ErrorStep ==
  \/ faults' = faults /\ StrandsNobody
  \/ faults' = faults + 1 /\ StrandsOne

LEMMA SameOwners ==
  ASSUME UNCHANGED <<pending, running>>, NEW t
  PROVE  Owned(t)' <=> Owned(t)
BY DEF Owned, Front

LEMMA PumpStrandsNobody ==
  ASSUME InductiveInvariant, InductiveInvariant',
         NEW q, NEW busy \in SUBSET Task, IsFiniteSet(busy), FreshQueue(q, busy),
         NEW limit \in Nat \ {0}, NEW pcs \in [Task -> WorkerState],
         Pump(q, busy, limit, pcs),
         \A t \in Task : pcs[t] = pc[t] \/ pcs[t] = "idle",
         \A t \in Task : row'[t] = row[t] \/ pc[t] = "idle",
         \A t \in Task : row'[t] \in {"queued", "running"} =>
            \/ Stranded(t)
            \/ t \in busy \/ \E i \in DOMAIN q : q[i] = t
  PROVE  StrandsNobody
<1> SUFFICES ASSUME NEW t \in Task, Stranded(t)', ~Stranded(t)
             PROVE  FALSE
  BY DEF StrandsNobody
<1>1. /\ busy \subseteq running'
      /\ \A i \in DOMAIN q :
           q[i] \in running' \/ \E j \in DOMAIN pending' : pending'[j] = q[i]
      /\ pc'[t] = pcs[t] \/ pc'[t] = "dispatched"
  BY PumpKeepsHandles
<1>2. pending \in Seq(Task) /\ pending' \in Seq(Task)
  BY DEF InductiveInvariant, TypeOK
<1>3. pc'[t] # "dead"
  BY <1>1 DEF Stranded, At
<1>4. row'[t] \in {"queued", "running"} /\ (~Owned(t)' \/ pc'[t] = "cleanup")
  BY <1>3 DEF Stranded, At
<1>5. Owned(t)'
  BY <1>1, <1>2, <1>4, OwnedMeansNext
<1>6. pc'[t] = "cleanup"
  BY <1>4, <1>5
<1>7. pc[t] = "cleanup" /\ row'[t] = row[t]
  BY <1>1, <1>6
<1>8. QED
  BY <1>4, <1>7 DEF Stranded, At

\* A submission puts its handle into the queue beside those that wait.
LEMMA SubmitKeeps ==
  ASSUME pending \in Seq(Task), NEW u \in Task, NEW q,
         q = <<u>> \o pending \/ q = Append(pending, u)
  PROVE  /\ \E i \in DOMAIN q : q[i] = u
         /\ \A j \in DOMAIN pending : \E i \in DOMAIN q : q[i] = pending[j]
<1>0. Len(pending) \in Nat /\ DOMAIN pending = 1..Len(pending)
  OBVIOUS
<1>1. CASE q = <<u>> \o pending
  <2>1. /\ DOMAIN q = 1..(Len(pending) + 1) /\ q[1] = u
        /\ \A i \in 1..Len(pending) : q[i + 1] = pending[i]
    BY <1>0, <1>1
  <2>2. \A i \in 1..Len(pending) : i + 1 \in DOMAIN q
    BY <1>0, <2>1
  <2>3. 1 \in DOMAIN q
    BY <1>0, <2>1
  <2>4. QED
    BY <1>0, <2>1, <2>2, <2>3
<1>2. CASE q = Append(pending, u)
  <2>1. /\ DOMAIN q = 1..(Len(pending) + 1) /\ q[Len(pending) + 1] = u
        /\ \A i \in 1..Len(pending) : q[i] = pending[i]
    BY <1>0, <1>2
  <2>2. Len(pending) + 1 \in DOMAIN q /\ \A i \in 1..Len(pending) : i \in DOMAIN q
    BY <1>0, <2>1
  <2>3. QED
    BY <1>0, <2>1, <2>2
<1>3. QED
  BY <1>1, <1>2

LEMMA HandlerStrands ==
  ASSUME InductiveInvariant, InductiveInvariant', Handlers, phase = "up"
  PROVE  ErrorStep
<1> USE DEF settingVars, boundVars, queueVars
<1>0. /\ FreshQueue(pending, running) /\ running \in SUBSET Task
      /\ IsFiniteSet(running) /\ TypeOK /\ pending \in Seq(Task)
      /\ pending' \in Seq(Task) /\ pc \in [Task -> WorkerState]
      /\ concurrency \in Nat \ {0} /\ row \in [Task -> RowState]
  BY HeldFresh DEF InductiveInvariant, TypeOK
<1>1. ASSUME NEW u \in Task, NEW priority \in BOOLEAN, Submit(u, priority)
      PROVE  ErrorStep
  <2> DEFINE q == IF priority THEN <<u>> \o pending ELSE Append(pending, u)
  <2>1. /\ Pump(q, running, concurrency, pc) /\ row[u] = "new"
        /\ row' = [row EXCEPT ![u] = "queued"] /\ faults' = faults
    BY <1>1 DEF Submit
  <2>2. u \notin running /\ \A i \in DOMAIN pending : pending[i] # u
    BY <2>1 DEF InductiveInvariant, RunningKnown, PendingIsQueued
  <2>3. q = <<u>> \o pending \/ q = Append(pending, u)
    OBVIOUS
  <2> HIDE DEF q
  <2>4. ASSUME NEW t \in Task, t = u \/ \E i \in DOMAIN pending : pending[i] = t
        PROVE  \E i \in DOMAIN q : q[i] = t
    <3>1. /\ \E i \in DOMAIN q : q[i] = u
          /\ \A j \in DOMAIN pending : \E i \in DOMAIN q : q[i] = pending[j]
      BY <1>0, <2>3, SubmitKeeps
    <3>2. QED
      BY <2>4, <3>1
  <2>5. FreshQueue(q, running)
    BY <1>0, <2>2, <2>3, SubmitFresh
  <2>6. pc[u] = "idle"
    BY <2>2 DEF InductiveInvariant, WorkerHoldsSlot, At
  <2>7. \A t \in Task : row'[t] = row[t] \/ (t = u /\ pc[t] = "idle")
    BY <1>0, <2>1, <2>6
  <2>8. ASSUME NEW t \in Task, row'[t] \in {"queued", "running"}, ~Stranded(t)
        PROVE  t \in running \/ \E i \in DOMAIN q : q[i] = t
    <3>1. t = u \/ Owned(t)
      BY <2>7, <2>8 DEF Stranded
    <3>2. QED
      BY <1>0, <2>4, <3>1, OwnedMeans
  <2>9. StrandsNobody
    BY <1>0, <2>1, <2>5, <2>7, <2>8, PumpStrandsNobody
  <2>10. QED
    BY <2>1, <2>9 DEF ErrorStep
<1>2. ASSUME NEW n \in ConcurrencyRange, SetConcurrency(n)
      PROVE  ErrorStep
  <2>1. /\ Pump(pending, running, n, pc) /\ n \in Nat \ {0}
        /\ row' = row /\ faults' = faults
    BY <1>2, ConfigAssumption DEF SetConcurrency, ConcurrencyRange
  <2>2. ASSUME NEW t \in Task, row'[t] \in {"queued", "running"}, ~Stranded(t)
        PROVE  t \in running \/ \E i \in DOMAIN pending : pending[i] = t
    BY <1>0, <2>1, <2>2, OwnedMeans DEF Stranded
  <2>3. \A t \in Task : row'[t] = row[t]
    BY <2>1
  <2>4. StrandsNobody
    BY <1>0, <2>1, <2>2, <2>3, PumpStrandsNobody
  <2>5. QED
    BY <2>1, <2>4 DEF ErrorStep
<1>3. ASSUME NEW k \in DOMAIN pending, CancelPending(k)
      PROVE  ErrorStep
  <2>0. PICK u \in Task : u = pending[k]
    BY <1>0
  <2>1. /\ DropPending(k) /\ UNCHANGED <<running, pc>> /\ row[u] = "queued"
    BY <1>0, <1>3, <2>0 DEF CancelPending, InductiveInvariant, PendingIsQueued
  <2>2. /\ faults \in Nat
        /\ \/ faults' = faults /\ row' = [row EXCEPT ![u] = "cancelled"]
           \/ /\ faults' = faults + 1
              /\ row' = row \/ row' = [row EXCEPT ![u] = "cancelled"]
    BY <1>0, <1>3, <2>0, <2>1, BoundAssumption
       DEF CancelPending, SetRow, SetRowRaises, DbRaises, DbOpen, TypeOK, HasRow
  <2>3. pc[u] = "idle"
    BY <1>0, <2>0, <2>1 DEF InductiveInvariant, WorkerHoldsSlot, QueueDisjoint, At
  <2>4. ASSUME NEW t \in Task, t # u, Stranded(t)'
        PROVE  Stranded(t)
    <3>1. row'[t] = row[t] /\ pc'[t] = pc[t]
      BY <1>0, <2>1, <2>2, <2>4
    <3>2. \A i \in DOMAIN pending :
            i # k => \E j \in DOMAIN pending' : pending'[j] = pending[i]
      BY <1>0, <2>1, DropFresh
    <3>3. Owned(t) => Owned(t)'
      BY <1>0, <2>0, <2>1, <2>4, <3>2, OwnedMeans, OwnedMeansNext
    <3>4. QED
      BY <2>4, <3>1, <3>3 DEF Stranded, At
  <2>5. row'[u] = "cancelled" => ~Stranded(u)'
    BY <2>1, <2>3 DEF Stranded, At
  <2>6. CASE faults' = faults
    <3>1. row'[u] = "cancelled"
      BY <1>0, <2>1, <2>2, <2>6
    <3>2. StrandsNobody
      BY <2>4, <2>5, <3>1 DEF StrandsNobody
    <3>3. QED
      BY <2>6, <3>2 DEF ErrorStep
  <2>7. CASE faults' = faults + 1
    BY <2>1, <2>4, <2>7 DEF ErrorStep, StrandsOne
  <2>8. QED
    BY <2>2, <2>6, <2>7
<1>4. ASSUME \/ \E u \in Task : CancelRunning(u)
             \/ \E n \in QueueCapRange : SetQueueCap(n)
             \/ \E u \in Task : EraseCheck(u) \/ EraseImage(u) \/ EraseRow(u)
      PROVE  ErrorStep
  <2>1. UNCHANGED <<pending, running, pc>>
    BY <1>4 DEF CancelRunning, SetQueueCap, EraseCheck, EraseImage, EraseRow
  <2>2. \A t \in Task : row'[t] = row[t] \/ row'[t] \in {"cancelling", "deleted"}
    <3>1. ASSUME NEW u \in Task, CancelRunning(u)
          PROVE  row' = row \/ row' = [row EXCEPT ![u] = "cancelling"]
      BY <1>0, <3>1, RaisedUpdate DEF CancelRunning, SetRow
    <3>2. ASSUME NEW u \in Task, EraseCheck(u) \/ EraseImage(u) \/ EraseRow(u)
          PROVE  row' = row \/ row' = [row EXCEPT ![u] = "deleted"]
      BY <3>2 DEF EraseCheck, EraseImage, EraseRow
    <3>3. QED
      BY <1>0, <1>4, <3>1, <3>2 DEF SetQueueCap
  <2>3. StrandsNobody
    BY <2>1, <2>2, SameOwners DEF StrandsNobody, Stranded, At
  <2>4. faults' = faults \/ faults' = faults + 1
    BY <1>0, <1>4 DEF CancelRunning, SetQueueCap, EraseCheck, EraseImage, EraseRow,
                      SetRowRaises, DbRaises, DbOpen
  <2>5. Task # {} => StrandsOne
    BY <2>3 DEF StrandsNobody, StrandsOne
  <2>6. Task = {} => faults' = faults
    BY <1>4 DEF SetQueueCap
  <2>7. QED
    BY <2>3, <2>4, <2>5, <2>6 DEF ErrorStep
<1>5. QED
  BY <1>1, <1>2, <1>3, <1>4 DEF Handlers

LEMMA WorkerStrands ==
  ASSUME InductiveInvariant, InductiveInvariant', NEW u \in Task, Worker(u),
         phase = "up"
  PROVE  ErrorStep
<1> USE DEF At, Goto, GotoUnlessCancelled, settingVars, boundVars, queueVars
<1>0. /\ FreshQueue(pending, running) /\ running \in SUBSET Task
      /\ IsFiniteSet(running) /\ TypeOK /\ pending \in Seq(Task)
      /\ pending' \in Seq(Task) /\ pc \in [Task -> WorkerState]
      /\ concurrency \in Nat \ {0} /\ row \in [Task -> RowState]
      /\ faults \in Nat
  BY HeldFresh, BoundAssumption DEF InductiveInvariant, TypeOK
<1>1. CASE PostRunCleanup(u)
  <2> DEFINE busy == running \ {u}
             pcs == [pc EXCEPT ![u] = "idle"]
  <2>1. /\ Pump(pending, busy, concurrency, pcs) /\ pc[u] = "cleanup"
        /\ row' = row /\ faults' = faults
    BY <1>1 DEF PostRunCleanup
  <2>2. /\ FreshQueue(pending, busy) /\ busy \in SUBSET Task
        /\ pcs \in [Task -> WorkerState] /\ IsFiniteSet(busy)
    BY <1>0, FS_RemoveElement DEF FreshQueue, WorkerState
  <2>3. \A t \in Task : pcs[t] = pc[t] \/ pcs[t] = "idle"
    BY <1>0
  <2>4. ASSUME NEW t \in Task, row'[t] \in {"queued", "running"}, ~Stranded(t)
        PROVE  t \in busy \/ \E i \in DOMAIN pending : pending[i] = t
    <3>1. t # u /\ Owned(t)
      BY <2>1, <2>4 DEF Stranded
    <3>2. QED
      BY <1>0, <3>1, OwnedMeans
  <2>5. \A t \in Task : row'[t] = row[t]
    BY <2>1
  <2> HIDE DEF busy, pcs
  <2>6. StrandsNobody
    BY <1>0, <2>1, <2>2, <2>3, <2>4, <2>5, PumpStrandsNobody
  <2>7. QED
    BY <2>1, <2>6 DEF ErrorStep
<1>2. CASE ~PostRunCleanup(u)
  <2>1. /\ pc[u] \notin {"idle", "cleanup", "dead"} /\ u \in running
        /\ row[u] \in Active /\ UNCHANGED <<pending, running>>
    BY <1>2 DEF Worker, Preflight, MarkRunning, Prepare, Request, Download, Save,
                LastCheck, Succeed, FinalizeCancelled, FinalizeFailed, Finalize,
                OnlyPc, InductiveInvariant, WorkerRowActive, WorkerHoldsSlot
  <2>2. HasRow(u) /\ Owned(u)'
    BY <1>0, <2>1, OwnedMeansNext DEF HasRow, Active
  <2>3. \A t \in Task : t # u => row'[t] = row[t] /\ pc'[t] = pc[t]
    <3>1. \A t \in Task : t # u => pc'[t] = pc[t]
      BY <1>0, <1>2
         DEF Worker, Preflight, MarkRunning, Prepare, Request, Download, Save,
             LastCheck, Succeed, FinalizeCancelled, FinalizeFailed, Finalize
    <3>2. row' = row \/ \E s : row' = [row EXCEPT ![u] = s]
      BY <1>0, <1>2, RaisedUpdate
         DEF Worker, Preflight, MarkRunning, Prepare, Request, Download, Save,
             LastCheck, Succeed, SetSucceeded, FinalizeCancelled, FinalizeFailed,
             Finalize, OnlyPc, SetRow
    <3>3. QED
      BY <1>0, <3>1, <3>2
  <2>4. \A t \in Task : t # u => (Stranded(t)' => Stranded(t))
    BY <2>1, <2>3, SameOwners DEF Stranded
  <2>5. CASE faults' = faults + 1
    BY <2>4, <2>5 DEF ErrorStep, StrandsOne
  <2>6. CASE faults' = faults
    <3>1. pc'[u] # "dead" /\ (pc'[u] = "cleanup" => row'[u] \in Terminal)
      <4>1. CASE MarkRunning(u)
        BY <1>0, <2>2, <2>6, <4>1 DEF MarkRunning, SetRowRaises, DbRaises, DbOpen
      <4>2. CASE Succeed(u)
        <5>1. SetSucceeded(u) /\ pc'[u] = "cleanup"
          BY <1>0, <2>6, <4>2 DEF Succeed, DbRaises, DbOpen
        <5>2. QED
          BY <1>0, <2>2, <5>1 DEF SetSucceeded, SetRow, Terminal
      <4>3. ASSUME NEW s \in {"cancelled", "failed"}, Finalize(u, s)
            PROVE  pc'[u] # "dead" /\ row'[u] \in Terminal
        <5>1. SetRow(u, s) /\ pc'[u] = "cleanup"
          BY <1>0, <2>6, <4>3 DEF Finalize, SetRowRaises, DbRaises, DbOpen
        <5>2. QED
          BY <1>0, <2>2, <4>3, <5>1 DEF SetRow, Terminal
      <4>4. CASE \/ Preflight(u) \/ Prepare(u) \/ Request(u) \/ Download(u)
                 \/ Save(u) \/ LastCheck(u)
        BY <1>0, <4>4 DEF Preflight, Prepare, Request, Download, Save, LastCheck
      <4>5. QED
        BY <1>2, <4>1, <4>2, <4>3, <4>4 DEF Worker, FinalizeCancelled, FinalizeFailed
    <3>2. ~Stranded(u)'
      BY <2>2, <3>1 DEF Stranded, Terminal
    <3>3. QED
      BY <2>4, <2>6, <3>2 DEF ErrorStep, StrandsNobody
  <2>7. faults' = faults \/ faults' = faults + 1
    BY <1>2 DEF Worker, Preflight, MarkRunning, Prepare, Request, Download, Save,
                LastCheck, Succeed, FinalizeCancelled, FinalizeFailed, Finalize,
                OnlyPc, SetRowRaises, DbRaises, DbOpen
  <2>8. QED
    BY <2>5, <2>6, <2>7
<1>3. QED
  BY <1>1, <1>2

StrandedIsBounded ==
  phase = "up" => IsFiniteSet(StrandedTasks) /\ Cardinality(StrandedTasks) <= faults

LEMMA NextStranded ==
  ASSUME InductiveInvariant, StrandedIsBounded, [Next]_vars
  PROVE  StrandedIsBounded'
<1> SUFFICES ASSUME phase' = "up"
             PROVE  IsFiniteSet(StrandedTasks') /\ Cardinality(StrandedTasks') <= faults'
  BY DEF StrandedIsBounded
<1>0. InductiveInvariant' /\ faults \in Nat
  BY NextInvariant, BoundAssumption DEF InductiveInvariant, TypeOK
<1>1. CASE phase = "up"
  <2>1. IsFiniteSet(StrandedTasks) /\ Cardinality(StrandedTasks) <= faults
        /\ Cardinality(StrandedTasks) \in Nat
    BY <1>1, FS_CardinalityType DEF StrandedIsBounded
  <2>2. ErrorStep
    <3>1. CASE Process
      BY <1>1, <3>1 DEF Process, ShutdownCancel, ShutdownExecutor, CloseStorage,
                        Exit, Start
    <3>2. CASE UNCHANGED vars
      BY <3>2, SameOwners DEF vars, queueVars, boundVars, ErrorStep, StrandsNobody,
                              Stranded, At
    <3>3. QED
      BY <1>0, <1>1, <3>1, <3>2, HandlerStrands, WorkerStrands DEF Next
  <2>3. CASE faults' = faults /\ StrandsNobody
    <3>1. StrandedTasks' \subseteq StrandedTasks
      BY <2>3 DEF StrandsNobody, StrandedTasks
    <3>2. IsFiniteSet(StrandedTasks') /\ Cardinality(StrandedTasks') \in Nat
          /\ Cardinality(StrandedTasks') <= Cardinality(StrandedTasks)
      BY <2>1, <3>1, FS_Subset, FS_CardinalityType
    <3>3. QED
      BY <1>0, <2>1, <2>3, <3>2
  <2>4. CASE faults' = faults + 1 /\ StrandsOne
    <3>1. PICK u \in Task : \A t \in Task : Stranded(t)' => Stranded(t) \/ t = u
      BY <2>4 DEF StrandsOne
    <3>2. StrandedTasks' \subseteq StrandedTasks \cup {u}
      BY <3>1 DEF StrandedTasks
    <3>3. /\ IsFiniteSet(StrandedTasks \cup {u})
          /\ Cardinality(StrandedTasks \cup {u}) \in Nat
          /\ Cardinality(StrandedTasks \cup {u}) <= Cardinality(StrandedTasks) + 1
      BY <2>1, FS_AddElement, FS_CardinalityType
    <3>4. IsFiniteSet(StrandedTasks') /\ Cardinality(StrandedTasks') \in Nat
          /\ Cardinality(StrandedTasks') <= Cardinality(StrandedTasks \cup {u})
      BY <3>2, <3>3, FS_Subset, FS_CardinalityType
    <3>5. QED
      BY <1>0, <2>1, <2>4, <3>3, <3>4
  <2>5. QED
    BY <2>2, <2>3, <2>4 DEF ErrorStep
<1>2. CASE phase # "up"
  <2>1. Start
    <3>1. CASE Handlers
      BY <1>2, <3>1 DEF Handlers, Submit, CancelPending, CancelRunning,
           SetConcurrency, SetQueueCap, EraseCheck, EraseImage, EraseRow
    <3>2. CASE \E t \in Task : Worker(t)
      BY <1>2, <3>2
         DEF Worker, Preflight, MarkRunning, Prepare, Request, Download, Save,
             LastCheck, Succeed, FinalizeCancelled, FinalizeFailed, Finalize,
             PostRunCleanup, OnlyPc
    <3>3. QED
      BY <1>2, <3>1, <3>2 DEF Next, Process, ShutdownCancel, ShutdownExecutor,
                              CloseStorage, Exit, vars
  <2>2. \A t \in Task : pc'[t] = "idle" /\ row'[t] \notin {"queued", "running"}
    BY <1>0, <2>1 DEF Start, Orphaned, InductiveInvariant, DownIsEmpty, TypeOK,
                      queueVars
  <2>3. StrandedTasks' = {}
    BY <2>2 DEF StrandedTasks, Stranded, At
  <2>4. faults' = faults
    BY <2>1 DEF Start, boundVars
  <2>5. QED
    BY <1>0, <2>3, <2>4, FS_EmptySet
<1>3. QED
  BY <1>1, <1>2

\* In a live process no more tasks are without anybody to settle them than
\* errors have been raised, however many tasks there are and whatever cancels,
\* deletes, settings changes and other workers do around an error; a start
\* settles what the process before it has left.
THEOREM ErrorsDoNotSpread == Spec => []ErrorsStrandOneTaskEach
<1>1. Init => StrandedIsBounded
  <2>1. Init => StrandedTasks = {} /\ faults = 0
    BY DEF Init, StrandedTasks, Stranded, At
  <2>2. QED
    BY <2>1, FS_EmptySet DEF StrandedIsBounded
<1>2. InductiveInvariant /\ StrandedIsBounded /\ [Next]_vars => StrandedIsBounded'
  BY NextStranded
<1>3. StrandedIsBounded => ErrorsStrandOneTaskEach
  BY DEF StrandedIsBounded, ErrorsStrandOneTaskEach, StrandedTasks
<1>4. QED
  BY <1>1, <1>2, <1>3, Invariance, PTL DEF Spec

----------------------------------------------------------------------------
\* The load

LEMMA DropShortens ==
  ASSUME pending \in Seq(Task), NEW k \in DOMAIN pending, DropPending(k)
  PROVE  Len(pending') = Len(pending) - 1
<1> DEFINE a == SubSeq(pending, 1, k - 1)
           b == SubSeq(pending, k + 1, Len(pending))
<1>0. Len(pending) \in Nat /\ DOMAIN pending = 1..Len(pending)
  OBVIOUS
<1>1. a \in Seq(Task) /\ Len(a) = k - 1
  BY <1>0, SubSeqProperties
<1>2. b \in Seq(Task) /\ Len(b) = Len(pending) - k
  BY <1>0, SubSeqProperties
<1>3. pending' = a \o b
  BY DEF DropPending
<1> HIDE DEF a, b
<1>4. Len(a \o b) = Len(a) + Len(b)
  BY <1>1, <1>2, ConcatProperties
<1>5. QED
  BY <1>0, <1>1, <1>2, <1>3, <1>4

\* Only a submission adds to the load.
LEMMA StepKeepsLoad ==
  ASSUME InductiveInvariant, [Next]_vars, Held' > Held
  PROVE  Held' <= queueCap'
<1>0. /\ FreshQueue(pending, running) /\ IsFiniteSet(running)
      /\ running \in SUBSET Task /\ TypeOK
      /\ Len(pending) \in Nat /\ Cardinality(running) \in Nat
      /\ pc \in [Task -> WorkerState] /\ concurrency \in Nat \ {0}
      /\ queueCap \in Nat /\ pending \in Seq(Task)
  BY HeldFresh DEF InductiveInvariant, TypeOK
<1>1. Held = Len(pending) + Cardinality(running)
      /\ Held' = Len(pending') + Cardinality(running')
  BY DEF Held
<1>2. ASSUME NEW t \in Task, NEW priority \in BOOLEAN, Submit(t, priority)
      PROVE  Held' <= queueCap'
  <2> DEFINE q == IF priority THEN <<t>> \o pending ELSE Append(pending, t)
  <2>1. /\ Pump(q, running, concurrency, pc) /\ row[t] = "new"
        /\ Len(pending) + Cardinality(running) < queueCap /\ queueCap' = queueCap
    BY <1>2 DEF Submit, settingVars, Load
  <2>2. t \notin running /\ \A i \in DOMAIN pending : pending[i] # t
    BY <2>1 DEF InductiveInvariant, RunningKnown, PendingIsQueued
  <2>3. q = <<t>> \o pending \/ q = Append(pending, t)
    OBVIOUS
  <2> HIDE DEF q
  <2>4. FreshQueue(q, running) /\ Len(q) = Len(pending) + 1
    BY <1>0, <2>2, <2>3, SubmitFresh
  <2>5. Held' = Len(q) + Cardinality(running)
    BY <1>0, <1>1, <2>1, <2>4, PumpKeepsHandles
  <2>6. QED
    BY <1>0, <2>1, <2>4, <2>5
<1>3. ASSUME NEW n \in ConcurrencyRange, SetConcurrency(n)
      PROVE  FALSE
  <2>1. Pump(pending, running, n, pc) /\ n \in Nat \ {0}
    BY <1>3, ConfigAssumption DEF SetConcurrency, ConcurrencyRange
  <2>2. Held' = Held
    BY <1>0, <1>1, <2>1, PumpKeepsHandles
  <2>3. QED
    BY <1>0, <1>1, <2>2
<1>4. ASSUME NEW t \in Task, PostRunCleanup(t)
      PROVE  FALSE
  <2> DEFINE busy == running \ {t}
             pcs == [pc EXCEPT ![t] = "idle"]
  <2>1. Pump(pending, busy, concurrency, pcs)
    BY <1>4 DEF PostRunCleanup
  <2>2. /\ FreshQueue(pending, busy) /\ busy \in SUBSET Task
        /\ pcs \in [Task -> WorkerState]
    BY <1>0 DEF FreshQueue, WorkerState
  <2>3. IsFiniteSet(busy) /\ Cardinality(busy) <= Cardinality(running)
        /\ Cardinality(busy) \in Nat
    BY <1>0, FS_Subset, FS_CardinalityType
  <2> HIDE DEF busy, pcs
  <2>4. Held' = Len(pending) + Cardinality(busy)
    BY <1>0, <1>1, <2>1, <2>2, <2>3, PumpKeepsHandles
  <2>5. QED
    BY <1>0, <1>1, <2>3, <2>4
<1>5. ASSUME NEW i \in DOMAIN pending, CancelPending(i)
      PROVE  FALSE
  <2>1. running' = running /\ Len(pending') = Len(pending) - 1
    BY <1>0, <1>5, DropShortens DEF CancelPending
  <2>2. QED
    BY <1>0, <1>1, <2>1
<1>6. ASSUME UNCHANGED <<pending, running>>
      PROVE  FALSE
  BY <1>0, <1>1, <1>6
<1>7. CASE Handlers
  <2>1. ASSUME \/ \E t \in Task : CancelRunning(t)
               \/ \E n \in QueueCapRange : SetQueueCap(n)
               \/ \E t \in Task : EraseCheck(t) \/ EraseImage(t) \/ EraseRow(t)
        PROVE  FALSE
    BY <1>6, <2>1 DEF CancelRunning, SetQueueCap, EraseCheck, EraseImage, EraseRow,
                      queueVars
  <2>2. QED
    BY <1>2, <1>3, <1>5, <1>7, <2>1 DEF Handlers
<1>8. ASSUME NEW t \in Task, Worker(t)
      PROVE  FALSE
  <2>1. CASE ~PostRunCleanup(t)
    BY <1>6, <1>8, <2>1
       DEF Worker, Preflight, MarkRunning, Prepare, Request, Download, Save,
           LastCheck, Succeed, FinalizeCancelled, FinalizeFailed, Finalize, OnlyPc
  <2>2. QED
    BY <1>4, <2>1
<1>9. CASE Exit
  <2>1. Held' = 0
    BY <1>1, <1>9, FS_EmptySet DEF Exit
  <2>2. QED
    BY <1>0, <1>1, <2>1
<1>10. CASE (Process /\ ~Exit) \/ UNCHANGED vars
  BY <1>6, <1>10
     DEF Process, ShutdownCancel, ShutdownExecutor, CloseStorage, Start, vars,
         queueVars
<1>11. QED
  BY <1>7, <1>8, <1>9, <1>10 DEF Next

\* No submission takes the load over the cap in force, and nothing else adds
\* to the load.
THEOREM LoadStaysWithinCap == Spec => LoadWithinCap
<1>1. InductiveInvariant /\ [Next]_vars => [Held' > Held => Held' <= queueCap']_vars
  BY StepKeepsLoad
<1>2. QED
  BY <1>1, Invariance, PTL DEF Spec, LoadWithinCap
=============================================================================
