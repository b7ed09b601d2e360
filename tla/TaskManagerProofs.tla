------------------------- MODULE TaskManagerProofs -------------------------
(***************************************************************************)
(* Proofs, for any set of tasks and any configuration, that the task queue *)
(* keeps its invariants and dispatches in order within the concurrency.    *)
(***************************************************************************)
EXTENDS TaskManagerProperties, FiniteSetTheorems, SequenceTheorems, TLAPS

----------------------------------------------------------------------------
\* Lemmas about the scheduling loop

\* A queue without duplicates, none of whose members is in busy.
FreshQueue(q, busy) ==
  /\ q \in Seq(Task)
  /\ \A i, j \in DOMAIN q : q[i] = q[j] => i = j
  /\ \A i \in DOMAIN q : q[i] \notin busy

\* The loop takes no more than is queued and no more than is free.
LEMMA TakenBounds ==
  ASSUME NEW q \in Seq(Task), NEW busy, IsFiniteSet(busy),
         NEW limit \in Nat \ {0}
  PROVE  /\ Taken(q, busy, limit) \in 0..Len(q)
         /\ Taken(q, busy, limit) > 0 =>
              Cardinality(busy) + Taken(q, busy, limit) <= limit
<1>1. Cardinality(busy) \in Nat
  BY FS_CardinalityType
<1>2. Len(q) \in Nat
  OBVIOUS
<1>3. QED
  BY <1>1, <1>2 DEF Taken

\* It stops early only in a closed executor that had more than one free slot.
LEMMA TakenFills ==
  ASSUME NEW q \in Seq(Task), NEW busy, IsFiniteSet(busy),
         NEW limit \in Nat \ {0},
         ExecutorOpen \/ Cardinality(busy) + 1 >= limit \/ Len(q) = 0
  PROVE  \/ Taken(q, busy, limit) = Len(q)
         \/ Cardinality(busy) + Taken(q, busy, limit) >= limit
<1>1. Cardinality(busy) \in Nat
  BY FS_CardinalityType
<1>2. Len(q) \in Nat
  OBVIOUS
<1>3. QED
  BY <1>1, <1>2 DEF Taken

\* The front of a queue without duplicates is as large as it is long.
LEMMA FrontCardinality ==
  ASSUME NEW busy, NEW q, FreshQueue(q, busy), NEW n \in 0..Len(q)
  PROVE  /\ IsFiniteSet(Front(q, n))
         /\ Cardinality(Front(q, n)) = n
         /\ Front(q, n) \in SUBSET Task
         /\ Front(q, n) \cap busy = {}
<1> DEFINE f == [i \in 1..n |-> q[i]]
<1>1. n \in Nat /\ 1..n \subseteq DOMAIN q
  BY DEF FreshQueue
<1>2. f \in Bijection(1..n, Front(q, n))
  <2>1. f \in [1..n -> Front(q, n)]
    BY DEF Front
  <2>2. \A a, b \in 1..n : f[a] = f[b] => a = b
    BY <1>1 DEF FreshQueue
  <2>3. \A y \in Front(q, n) : \E x \in 1..n : f[x] = y
    BY DEF Front
  <2>4. QED
    BY <2>1, <2>2, <2>3
       DEF Bijection, Injection, Surjection, IsInjective
<1>3. ExistsBijection(1..n, Front(q, n))
  BY <1>2 DEF ExistsBijection
<1>4. IsFiniteSet(1..n) /\ Cardinality(1..n) = n
  BY <1>1, FS_Interval
<1>5. IsFiniteSet(Front(q, n)) /\ Cardinality(Front(q, n)) = n
  BY <1>3, <1>4, FS_Bijection
<1>6. Front(q, n) \in SUBSET Task /\ Front(q, n) \cap busy = {}
  BY <1>1 DEF Front, FreshQueue
<1>7. QED
  BY <1>5, <1>6

\* What is left behind the front keeps its order and its freedom from
\* duplicates, and is disjoint from the front.
LEMMA RestFresh ==
  ASSUME NEW busy, NEW q, FreshQueue(q, busy), NEW n \in 0..Len(q)
  PROVE  /\ Len(Rest(q, n)) = Len(q) - n
         /\ \A i \in DOMAIN Rest(q, n) : i + n \in DOMAIN q /\ Rest(q, n)[i] = q[i + n]
         /\ FreshQueue(Rest(q, n), busy \cup Front(q, n))
<1>1. /\ Len(q) \in Nat
      /\ DOMAIN q = 1..Len(q)
      /\ n \in Nat
      /\ n <= Len(q)
      /\ q \in Seq(Task)
  BY DEF FreshQueue
<1>2. /\ Rest(q, n) \in Seq(Task)
      /\ Len(Rest(q, n)) = Len(q) - n
      /\ \A i \in 1..(Len(q) - n) : Rest(q, n)[i] = q[i + n]
  <2>1. \A i \in (n + 1)..Len(q) : q[i] \in Task
    BY <1>1
  <2>2. \A i \in 1..(Len(q) - n) : (n + 1) + i - 1 = i + n
    BY <1>1
  <2>3. n + 1 \in Int /\ Len(q) \in Int /\ Len(q) - (n + 1) + 1 = Len(q) - n
    BY <1>1
  <2>4. /\ SubSeq(q, n + 1, Len(q)) \in Seq(Task)
        /\ Len(SubSeq(q, n + 1, Len(q))) =
             IF n + 1 <= Len(q) THEN Len(q) - (n + 1) + 1 ELSE 0
        /\ \A i \in 1..(Len(q) - (n + 1) + 1) :
             SubSeq(q, n + 1, Len(q))[i] = q[(n + 1) + i - 1]
    BY <2>1, <2>3, SubSeqProperties
  <2>5. Rest(q, n) = SubSeq(q, n + 1, Len(q))
    BY DEF Rest
  <2>6. Len(Rest(q, n)) = Len(q) - n
    <3>1. Len(Rest(q, n)) = IF n + 1 <= Len(q) THEN Len(q) - (n + 1) + 1 ELSE 0
      BY <2>4, <2>5, Zenon
    <3>2. CASE n + 1 <= Len(q)
      BY <1>1, <2>3, <3>1, <3>2
    <3>3. CASE ~(n + 1 <= Len(q))
      <4>1. Len(Rest(q, n)) = 0
        BY <3>1, <3>3, Zenon
      <4>2. n = Len(q)
        <5>1. \A a, b \in Nat : a <= b /\ ~(a + 1 <= b) => a = b
          OBVIOUS
        <5>2. QED
          BY <1>1, <3>3, <5>1
      <4>3. QED
        BY <1>1, <4>1, <4>2
    <3>4. QED
      BY <3>2, <3>3
  <2>7. ASSUME NEW i \in 1..(Len(q) - n)
        PROVE  Rest(q, n)[i] = q[i + n]
    BY <2>2, <2>3, <2>4, <2>5
  <2>8. QED
    BY <2>4, <2>5, <2>6, <2>7
<1>3. DOMAIN Rest(q, n) = 1..(Len(q) - n)
  BY <1>2
<1>4. \A i \in DOMAIN Rest(q, n) :
        i + n \in DOMAIN q /\ i + n > n /\ Rest(q, n)[i] = q[i + n]
  BY <1>1, <1>2, <1>3
<1>5. \A i, j \in DOMAIN Rest(q, n) : Rest(q, n)[i] = Rest(q, n)[j] => i = j
  BY <1>1, <1>3, <1>4 DEF FreshQueue
<1>6. \A i \in DOMAIN Rest(q, n) : Rest(q, n)[i] \notin busy \cup Front(q, n)
  BY <1>1, <1>3, <1>4 DEF FreshQueue, Front
<1>7. QED
  BY <1>2, <1>4, <1>5, <1>6 DEF FreshQueue

\* _pump_locked on a queue without duplicates: queue and slots stay disjoint,
\* the handles it takes are the front, in the free slots, and a slot stays
\* free only when the queue is empty or the executor closed.
LEMMA PumpFacts ==
  ASSUME NEW q, NEW busy \in SUBSET Task, IsFiniteSet(busy), FreshQueue(q, busy),
         NEW limit \in Nat \ {0}, NEW pcs \in [Task -> WorkerState],
         Pump(q, busy, limit, pcs)
  PROVE  \E n \in 0..Len(q) :
           /\ pending' = Rest(q, n)
           /\ running' = busy \cup Front(q, n)
           /\ FreshQueue(pending', running')
           /\ IsFiniteSet(running') /\ running' \in SUBSET Task
           /\ Cardinality(running') = Cardinality(busy) + n
           /\ n > 0 => Cardinality(running') <= limit
           /\ ExecutorOpen \/ Cardinality(busy) + 1 >= limit \/ Len(q) = 0 =>
                pending' = <<>> \/ Cardinality(running') >= limit
           /\ pc' \in [Task -> WorkerState]
           /\ \A t \in Task :
                \/ pc'[t] = pcs[t]
                \/ t \in Front(q, n) /\ pc'[t] = "dispatched"
<1> DEFINE n == Taken(q, busy, limit)
<1>0. q \in Seq(Task) /\ Len(q) \in Nat /\ Cardinality(busy) \in Nat
  BY FS_CardinalityType DEF FreshQueue
<1>1. n \in 0..Len(q) /\ (n > 0 => Cardinality(busy) + n <= limit)
  BY <1>0, TakenBounds
<1>2. pending' = Rest(q, n) /\ running' = busy \cup Front(q, n)
  BY DEF Pump
<1>3. /\ IsFiniteSet(Front(q, n)) /\ Cardinality(Front(q, n)) = n
      /\ Front(q, n) \in SUBSET Task /\ Front(q, n) \cap busy = {}
  BY <1>1, FrontCardinality
<1> HIDE DEF n
<1>4. /\ Len(pending') = Len(q) - n
      /\ FreshQueue(pending', running')
  BY <1>1, <1>2, RestFresh
<1>5. /\ IsFiniteSet(running') /\ running' \in SUBSET Task
      /\ Cardinality(running') = Cardinality(busy) + n
  <2>1. /\ IsFiniteSet(busy \cup Front(q, n))
        /\ Cardinality(busy \cup Front(q, n)) =
             Cardinality(busy) + n - Cardinality(busy \cap Front(q, n))
    BY <1>3, FS_Union
  <2>2. busy \cap Front(q, n) = {} /\ Cardinality({}) = 0
    BY <1>3, FS_EmptySet
  <2>3. n \in Nat
    BY <1>0, <1>1
  <2>4. Cardinality(running') = Cardinality(busy) + n
    <3>1. Cardinality(running') = Cardinality(busy \cup Front(q, n))
      BY <1>2, Zenon
    <3>2. Cardinality(busy \cap Front(q, n)) = 0
      BY <2>2, Zenon
    <3>3. QED
      BY <1>0, <2>1, <2>3, <3>1, <3>2
  <2>5. QED
    BY <1>2, <1>3, <2>1, <2>4
<1>6. ExecutorOpen \/ Cardinality(busy) + 1 >= limit \/ Len(q) = 0 =>
        pending' = <<>> \/ Cardinality(running') >= limit
  <2>1. SUFFICES ASSUME ExecutorOpen \/ Cardinality(busy) + 1 >= limit \/ Len(q) = 0,
                        Cardinality(running') < limit
                 PROVE  pending' = <<>>
    BY <1>0, <1>1, <1>5
  <2>2. n = Len(q)
    BY <1>0, <1>1, <1>5, <2>1, TakenFills DEF n
  <2>3. Len(pending') = 0 /\ pending' \in Seq(Task)
    BY <1>0, <1>4, <2>2 DEF FreshQueue
  <2>4. QED
    BY <2>3, EmptySeq
<1>7. /\ pc' \in [Task -> WorkerState]
      /\ \A t \in Task : \/ pc'[t] = pcs[t]
                         \/ t \in Front(q, n) /\ pc'[t] = "dispatched"
  BY DEF Pump, WorkerState, n
<1>8. n > 0 => Cardinality(running') <= limit
  BY <1>1, <1>5
<1>9. QED
  BY <1>1, <1>2, <1>4, <1>5, <1>6, <1>7, <1>8

\* A new handle, at either end.
LEMMA SubmitFresh ==
  ASSUME NEW q, NEW busy, FreshQueue(q, busy), NEW t \in Task,
         t \notin busy, \A i \in DOMAIN q : q[i] # t,
         NEW r, r = <<t>> \o q \/ r = Append(q, t)
  PROVE  /\ FreshQueue(r, busy)
         /\ \A i \in DOMAIN r : r[i] = t \/ \E j \in DOMAIN q : r[i] = q[j]
         /\ Len(r) = Len(q) + 1
<1>0. q \in Seq(Task) /\ Len(q) \in Nat /\ DOMAIN q = 1..Len(q)
  BY DEF FreshQueue
<1>1. CASE r = <<t>> \o q
  <2>1. /\ r \in Seq(Task) /\ Len(r) = Len(q) + 1 /\ DOMAIN r = 1..(Len(q) + 1)
        /\ r[1] = t
        /\ \A i \in 2..(Len(q) + 1) : r[i] = q[i - 1]
    BY <1>0, <1>1
  <2>2. \A i \in DOMAIN r : i = 1 \/ (i - 1 \in DOMAIN q /\ r[i] = q[i - 1])
    BY <1>0, <2>1
  <2>3. \A i, j \in DOMAIN r : r[i] = r[j] => i = j
    <3>1. SUFFICES ASSUME NEW i \in DOMAIN r, NEW j \in DOMAIN r, r[i] = r[j]
                   PROVE  i = j
      OBVIOUS
    <3>2. CASE i = 1 /\ j = 1
      BY <3>2
    <3>3. CASE i # 1 /\ j # 1
      <4>1. i - 1 = j - 1
        BY <2>2, <3>1, <3>3 DEF FreshQueue
      <4>2. QED
        BY <1>0, <2>1, <4>1
    <3>4. CASE (i = 1) # (j = 1)
      BY <2>1, <2>2, <3>1, <3>4
    <3>5. QED
      BY <3>2, <3>3, <3>4
  <2>4. QED
    BY <2>1, <2>2, <2>3 DEF FreshQueue
<1>2. CASE r = Append(q, t)
  <2>1. /\ r \in Seq(Task) /\ Len(r) = Len(q) + 1 /\ DOMAIN r = 1..(Len(q) + 1)
        /\ r[Len(q) + 1] = t
        /\ \A i \in 1..Len(q) : r[i] = q[i]
    BY <1>0, <1>2
  <2>2. \A i \in DOMAIN r : i = Len(q) + 1 \/ (i \in DOMAIN q /\ r[i] = q[i])
    BY <1>0, <2>1
  <2>3. QED
    BY <1>0, <2>1, <2>2 DEF FreshQueue
<1>3. QED
  BY <1>1, <1>2

\* A handle dropped from the middle.
LEMMA DropFresh ==
  ASSUME NEW busy, FreshQueue(pending, busy), NEW k \in DOMAIN pending,
         DropPending(k)
  PROVE  /\ FreshQueue(pending', busy)
         /\ \A i \in DOMAIN pending' :
              \E j \in DOMAIN pending : j # k /\ pending'[i] = pending[j]
         /\ \A j \in DOMAIN pending :
              j # k => \E i \in DOMAIN pending' : pending'[i] = pending[j]
<1>0. pending \in Seq(Task) /\ Len(pending) \in Nat /\ DOMAIN pending = 1..Len(pending)
  BY DEF FreshQueue
<1> DEFINE a == SubSeq(pending, 1, k - 1)
           b == SubSeq(pending, k + 1, Len(pending))
<1>1. a \in Seq(Task) /\ Len(a) = k - 1 /\ \A i \in 1..(k - 1) : a[i] = pending[i]
  <2>1. \A i \in 1..(k - 1) : pending[i] \in Task
    BY <1>0
  <2>2. \A i \in 1..(k - 1) : 1 + i - 1 = i
    BY <1>0
  <2>3. QED
    BY <1>0, <2>1, <2>2, SubSeqProperties
<1>2. /\ b \in Seq(Task) /\ Len(b) = Len(pending) - k
      /\ \A i \in 1..(Len(pending) - k) : b[i] = pending[i + k]
  <2>1. \A i \in (k + 1)..Len(pending) : pending[i] \in Task
    BY <1>0
  <2>2. \A i \in 1..(Len(pending) - k) : (k + 1) + i - 1 = i + k
    BY <1>0
  <2>3. QED
    BY <1>0, <2>1, <2>2, SubSeqProperties
<1>3. pending' = a \o b
  BY DEF DropPending
<1> HIDE DEF a, b
<1>4. /\ pending' \in Seq(Task) /\ Len(pending') = Len(pending) - 1
      /\ DOMAIN pending' = 1..(Len(pending) - 1)
      /\ \A i \in 1..(Len(pending) - 1) :
           pending'[i] = IF i < k THEN pending[i] ELSE pending[i + 1]
  <2>1. /\ a \o b \in Seq(Task) /\ Len(a \o b) = Len(a) + Len(b)
        /\ \A i \in 1..(Len(a) + Len(b)) :
             (a \o b)[i] = IF i <= Len(a) THEN a[i] ELSE b[i - Len(a)]
    BY <1>1, <1>2, ConcatProperties
  <2>2. Len(a) + Len(b) = Len(pending) - 1
    BY <1>0, <1>1, <1>2
  <2>3. ASSUME NEW i \in 1..(Len(pending) - 1)
        PROVE  pending'[i] = IF i < k THEN pending[i] ELSE pending[i + 1]
    <3>1. CASE i < k
      BY <1>0, <1>1, <1>3, <2>1, <2>2, <3>1
    <3>2. CASE i >= k
      <4>1. i - (k - 1) \in 1..(Len(pending) - k) /\ i - (k - 1) + k = i + 1
        BY <1>0, <3>2
      <4>2. b[i - (k - 1)] = pending[i + 1]
        BY <1>2, <4>1
      <4>3. QED
        BY <1>0, <1>1, <1>3, <2>1, <2>2, <3>2, <4>2
    <3>3. QED
      BY <1>0, <3>1, <3>2
  <2>4. pending' \in Seq(Task) /\ Len(pending') = Len(pending) - 1
    BY <1>3, <2>1, <2>2
  <2>5. DOMAIN pending' = 1..(Len(pending) - 1)
    BY <2>4, LenProperties
  <2>6. QED
    BY <2>3, <2>4, <2>5
<1>5. \A i \in DOMAIN pending' :
        \E j \in DOMAIN pending :
           j # k /\ pending'[i] = pending[j] /\ j = IF i < k THEN i ELSE i + 1
  BY <1>0, <1>4
<1>6. \A j \in DOMAIN pending :
        j # k => \E i \in DOMAIN pending' : pending'[i] = pending[j]
  <2>1. SUFFICES ASSUME NEW j \in DOMAIN pending, j # k
                 PROVE  \E i \in DOMAIN pending' : pending'[i] = pending[j]
    OBVIOUS
  <2>2. CASE j < k
    <3>1. j \in DOMAIN pending' /\ pending'[j] = pending[j]
      BY <1>0, <1>4, <2>2
    <3>2. QED
      BY <3>1
  <2>3. CASE j > k
    <3>1. j - 1 \in DOMAIN pending' /\ pending'[j - 1] = pending[j]
      BY <1>0, <1>4, <2>3
    <3>2. QED
      BY <3>1
  <2>4. QED
    BY <1>0, <2>1, <2>2, <2>3
<1>7. \A i, j \in DOMAIN pending' : pending'[i] = pending'[j] => i = j
  BY <1>0, <1>4, <1>5 DEF FreshQueue
<1>8. \A i \in DOMAIN pending' : pending'[i] \notin busy
  BY <1>5 DEF FreshQueue
<1>9. QED
  BY <1>4, <1>5, <1>6, <1>7, <1>8 DEF FreshQueue

----------------------------------------------------------------------------
\* The invariant

LEMMA FaultBounded ==
  ASSUME TypeOK, DbRaises \/ UNCHANGED faults
  PROVE  faults' \in 0..MaxFaults
BY BoundAssumption DEF TypeOK, DbRaises, DbOpen

\* A status update that raises has written the row, or nothing.
LEMMA RaisedUpdate ==
  ASSUME TypeOK, NEW t, NEW s, SetRowRaises(t, s)
  PROVE  /\ faults' \in 0..MaxFaults
         /\ row' = row \/ (HasRow(t) /\ row' = [row EXCEPT ![t] = s])
<1>1. DbRaises \/ UNCHANGED faults
  BY DEF SetRowRaises
<1>2. QED
  BY <1>1, FaultBounded DEF SetRowRaises, SetRow

\* A worker that moves on, and perhaps writes its row, disturbs nobody: its
\* row stays active until its last write.
LEMMA WorkerStep ==
  ASSUME InductiveInvariant, NEW t \in Task, NEW s \in WorkerState \ {"idle"},
         pc[t] \notin {"idle", "cleanup", "dead"},
         pc' = [pc EXCEPT ![t] = s],
         row' = row \/ \E r \in Active \cup Terminal : row' = [row EXCEPT ![t] = r],
         s \notin {"cleanup", "dead"} => row'[t] \in Active,
         image' \in [Task -> ImageState], faults' \in 0..MaxFaults,
         UNCHANGED <<phase, pending, running, cancelEvent, settingVars, erasing,
                     restarts>>
  PROVE  InductiveInvariant'
<1> USE DEF InductiveInvariant, settingVars
<1>1. row' \in [Task -> RowState] /\ \A u \in Task : u # t => row'[u] = row[u]
  BY DEF TypeOK, RowState
<1>2. pc' \in [Task -> WorkerState] /\ pc'[t] = s /\ \A u \in Task : u # t => pc'[u] = pc[u]
  BY DEF TypeOK
<1>3. t \in running /\ row[t] \in Active
  BY DEF WorkerHoldsSlot, WorkerRowActive, At
<1>4. row'[t] # "new" /\ phase # "down"
  BY <1>1, <1>3 DEF Active, Terminal, TypeOK, DownIsEmpty
<1>5. TypeOK'
  BY <1>1, <1>2 DEF TypeOK
<1>6. QueueDisjoint' /\ WorkConserving'
  BY DEF QueueDisjoint, WorkConserving
<1>7. PendingIsQueued'
  <2>1. \A i \in DOMAIN pending : pending[i] # t /\ pending[i] \in Task
    BY <1>3 DEF QueueDisjoint, TypeOK
  <2>2. QED
    BY <1>1, <2>1 DEF PendingIsQueued
<1>8. WorkerHoldsSlot'
  BY <1>2, <1>3 DEF WorkerHoldsSlot, At
<1>9. WorkerRowActive'
  BY <1>1, <1>2 DEF WorkerRowActive
<1>10. RunningKnown'
  BY <1>1, <1>4 DEF RunningKnown, TypeOK
<1>11. ErasingSettled'
  BY <1>1, <1>2 DEF ErasingSettled
<1>12. DownIsEmpty'
  BY <1>4 DEF DownIsEmpty
<1>13. QED
  BY <1>5, <1>6, <1>7, <1>8, <1>9, <1>10, <1>11, <1>12

\* A step that pumps keeps the invariant if the queue and the slots it hands
\* to the loop satisfy it.
LEMMA PumpStep ==
  ASSUME NEW q, NEW busy \in SUBSET Task, IsFiniteSet(busy), FreshQueue(q, busy),
         NEW limit \in Nat \ {0}, NEW pcs \in [Task -> WorkerState],
         Pump(q, busy, limit, pcs),
         ExecutorOpen \/ Cardinality(busy) + 1 >= limit \/ Len(q) = 0,
         concurrency' = limit, queueCap' \in Nat \ {0},
         phase' \in Phase \ {"down"}, row' \in [Task -> RowState],
         image' \in [Task -> ImageState], cancelEvent' \in SUBSET Task,
         erasing' \in [Task -> {"no", "image", "row"}],
         faults' \in 0..MaxFaults, restarts' \in 0..MaxRestarts,
         \A i \in DOMAIN q : row'[q[i]] = "queued",
         \A t \in busy : row'[t] # "new",
         \A t \in Task : pcs[t] # "idle" => t \in busy,
         \A t \in Task : pcs[t] \notin {"idle", "cleanup", "dead"} => row'[t] \in Active,
         \A t \in Task : erasing'[t] # "no" =>
            /\ row'[t] # "new"
            /\ pcs[t] \in {"idle", "cleanup", "dead"}
            /\ \A i \in DOMAIN q : q[i] # t
  PROVE  InductiveInvariant'
<1>1. PICK n \in 0..Len(q) :
        /\ pending' = Rest(q, n)
        /\ running' = busy \cup Front(q, n)
        /\ FreshQueue(pending', running')
        /\ IsFiniteSet(running') /\ running' \in SUBSET Task
        /\ pending' = <<>> \/ Cardinality(running') >= limit
        /\ pc' \in [Task -> WorkerState]
        /\ \A t \in Task : \/ pc'[t] = pcs[t]
                           \/ t \in Front(q, n) /\ pc'[t] = "dispatched"
  BY PumpFacts
<1>2. \A i \in DOMAIN pending' : \E j \in DOMAIN q : pending'[i] = q[j]
  BY <1>1, RestFresh
<1>3. \A t \in Front(q, n) : \E j \in DOMAIN q : t = q[j]
  BY DEF Front, FreshQueue
<1>4. TypeOK'
  BY <1>1 DEF TypeOK, FreshQueue
<1>5. QueueDisjoint'
  BY <1>1 DEF QueueDisjoint, FreshQueue
<1>6. PendingIsQueued'
  BY <1>2 DEF PendingIsQueued
<1>7. WorkerHoldsSlot'
  BY <1>1 DEF WorkerHoldsSlot, At
<1>8. WorkerRowActive'
  BY <1>1, <1>3 DEF WorkerRowActive, Active
<1>9. WorkConserving'
  BY <1>1 DEF WorkConserving
<1>10. RunningKnown'
  BY <1>1, <1>3 DEF RunningKnown
<1>11. ErasingSettled'
  BY <1>1, <1>2, <1>3 DEF ErasingSettled
<1>12. DownIsEmpty'
  BY DEF DownIsEmpty
<1>13. QED
  BY <1>4, <1>5, <1>6, <1>7, <1>8, <1>9, <1>10, <1>11, <1>12
     DEF InductiveInvariant

LEMMA InitInvariant == Init => InductiveInvariant
<1> SUFFICES ASSUME Init PROVE InductiveInvariant
  OBVIOUS
<1>1. TypeOK
  BY ConfigAssumption, BoundAssumption, FS_EmptySet
     DEF Init, TypeOK, Phase, RowState, ImageState, WorkerState
<1>2. pending = <<>> /\ DOMAIN pending = {}
  BY DEF Init
<1>3. QED
  BY <1>1, <1>2
     DEF Init, InductiveInvariant, QueueDisjoint, PendingIsQueued,
         WorkerHoldsSlot, WorkerRowActive, WorkConserving, RunningKnown,
         ErasingSettled, DownIsEmpty, At

\* The queue and the slots of a state with the invariant.
LEMMA HeldFresh ==
  ASSUME InductiveInvariant
  PROVE  /\ FreshQueue(pending, running)
         /\ IsFiniteSet(running) /\ running \in SUBSET Task
         /\ Cardinality(running) \in Nat
         /\ Len(pending) \in Nat
<1>1. TypeOK /\ QueueDisjoint
  BY DEF InductiveInvariant
<1>2. QED
  BY <1>1, FS_CardinalityType DEF TypeOK, QueueDisjoint, FreshQueue

LEMMA SubmitInvariant ==
  ASSUME InductiveInvariant, NEW t \in Task, NEW priority \in BOOLEAN,
         Submit(t, priority)
  PROVE  InductiveInvariant'
<1> DEFINE q == IF priority THEN <<t>> \o pending ELSE Append(pending, t)
<1> USE DEF InductiveInvariant, settingVars, boundVars
<1>1. /\ TypeOK /\ phase = "up" /\ row[t] = "new"
      /\ row' = [row EXCEPT ![t] = "queued"]
      /\ Pump(q, running, concurrency, pc)
      /\ UNCHANGED <<phase, image, cancelEvent, settingVars, erasing, boundVars>>
  BY DEF Submit
<1>2. t \notin running /\ \A i \in DOMAIN pending : pending[i] # t
  BY <1>1 DEF RunningKnown, PendingIsQueued
<1>3. /\ FreshQueue(q, running)
      /\ \A i \in DOMAIN q : q[i] = t \/ \E j \in DOMAIN pending : q[i] = pending[j]
  <2>1. q = <<t>> \o pending \/ q = Append(pending, t)
    OBVIOUS
  <2>2. FreshQueue(pending, running)
    BY HeldFresh
  <2> HIDE DEF q, InductiveInvariant
  <2>3. QED
    BY <1>2, <2>1, <2>2, SubmitFresh
<1> HIDE DEF q
<1>4. row' \in [Task -> RowState] /\ row'[t] = "queued" /\ \A u \in Task : u # t => row'[u] = row[u]
  BY <1>1 DEF TypeOK, RowState, Active
<1>5. \A i \in DOMAIN q : row'[q[i]] = "queued"
  BY <1>3, <1>4, HeldFresh DEF PendingIsQueued, FreshQueue
<1>6. \A u \in Task : row[u] # "new" => row'[u] # "new"
  BY <1>4
<1>7. \A u \in running : row'[u] # "new"
  BY <1>6, HeldFresh DEF RunningKnown
<1>8. \A u \in Task : pc[u] # "idle" => u \in running
  BY DEF WorkerHoldsSlot, At
<1>9. \A u \in Task : pc[u] \notin {"idle", "cleanup", "dead"} => row'[u] \in Active
  BY <1>2, <1>4, <1>8 DEF WorkerRowActive
<1>10. \A u \in Task : erasing'[u] # "no" =>
          /\ row'[u] # "new"
          /\ pc[u] \in {"idle", "cleanup", "dead"}
          /\ \A i \in DOMAIN q : q[i] # u
  BY <1>1, <1>3, <1>6 DEF ErasingSettled
<1>11. ExecutorOpen
  BY <1>1 DEF ExecutorOpen
<1>12. QED
  BY <1>1, <1>3, <1>4, <1>5, <1>7, <1>8, <1>9, <1>10, <1>11, HeldFresh,
     PumpStep DEF TypeOK, Phase

LEMMA SetConcurrencyInvariant ==
  ASSUME InductiveInvariant, NEW n \in ConcurrencyRange, SetConcurrency(n)
  PROVE  InductiveInvariant'
<1> USE DEF InductiveInvariant, settingVars, boundVars
<1>1. /\ TypeOK /\ phase = "up" /\ n \in Nat \ {0}
      /\ Pump(pending, running, n, pc)
      /\ concurrency' = n
      /\ UNCHANGED <<phase, row, image, cancelEvent, queueCap, erasing, boundVars>>
  BY ConfigAssumption DEF SetConcurrency, ConcurrencyRange
<1>2. ExecutorOpen
  BY <1>1 DEF ExecutorOpen
<1>3. \A u \in Task : pc[u] # "idle" => u \in running
  BY DEF WorkerHoldsSlot, At
<1>4. QED
  BY <1>1, <1>2, <1>3, HeldFresh, PumpStep
     DEF TypeOK, Phase, PendingIsQueued, RunningKnown, WorkerRowActive,
         ErasingSettled

LEMMA PostRunCleanupInvariant ==
  ASSUME InductiveInvariant, NEW t \in Task, PostRunCleanup(t)
  PROVE  InductiveInvariant'
<1> DEFINE busy == running \ {t}
           pcs == [pc EXCEPT ![t] = "idle"]
<1> USE DEF InductiveInvariant, settingVars, boundVars
<1>1. /\ TypeOK /\ pc[t] = "cleanup" /\ t \in running /\ phase # "down"
      /\ Pump(pending, busy, concurrency, pcs)
      /\ cancelEvent' = cancelEvent \ {t}
      /\ UNCHANGED <<phase, row, image, settingVars, erasing, boundVars>>
  BY DEF PostRunCleanup, At, WorkerHoldsSlot, DownIsEmpty
<1>2. /\ busy \in SUBSET Task /\ IsFiniteSet(busy)
      /\ Cardinality(busy) + 1 = Cardinality(running)
  <2>1. IsFiniteSet(running) /\ running \in SUBSET Task /\ Cardinality(running) \in Nat
    BY HeldFresh
  <2> HIDE DEF InductiveInvariant
  <2>2. /\ IsFiniteSet(running \ {t})
        /\ Cardinality(running \ {t}) = Cardinality(running) - 1
    BY <1>1, <2>1, FS_RemoveElement
  <2>3. QED
    BY <2>1, <2>2
<1>3. FreshQueue(pending, busy)
  BY HeldFresh DEF FreshQueue
<1>4. /\ pcs \in [Task -> WorkerState] /\ pcs[t] = "idle"
      /\ \A u \in Task : u # t => pcs[u] = pc[u]
  BY <1>1 DEF TypeOK, WorkerState
<1> HIDE DEF busy, pcs
<1>5. Cardinality(busy) + 1 >= concurrency \/ Len(pending) = 0
  <2>1. CASE pending = <<>>
    BY <2>1
  <2>2. CASE pending # <<>>
    BY <1>2, <2>2 DEF WorkConserving
  <2>3. QED
    BY <2>1, <2>2
<1>6. \A u \in Task : pcs[u] # "idle" => u \in busy
  BY <1>4 DEF WorkerHoldsSlot, At, busy
<1>7. \A u \in busy : row[u] # "new"
  BY DEF RunningKnown, busy
<1>8. \A u \in Task : pcs[u] \notin {"idle", "cleanup", "dead"} => row[u] \in Active
  BY <1>4 DEF WorkerRowActive
<1>9. \A u \in Task : erasing[u] # "no" =>
        /\ row[u] # "new"
        /\ pcs[u] \in {"idle", "cleanup", "dead"}
        /\ \A i \in DOMAIN pending : pending[i] # u
  BY <1>4 DEF ErasingSettled
<1>10. QED
  BY <1>1, <1>2, <1>3, <1>4, <1>5, <1>6, <1>7, <1>8, <1>9, HeldFresh, PumpStep
     DEF TypeOK, PendingIsQueued

LEMMA CancelPendingInvariant ==
  ASSUME InductiveInvariant, NEW k \in DOMAIN pending, CancelPending(k)
  PROVE  InductiveInvariant'
<1> USE DEF InductiveInvariant, settingVars
<1>0. FreshQueue(pending, running) /\ IsFiniteSet(running) /\ running \in SUBSET Task
  BY HeldFresh
<1>1. /\ TypeOK /\ phase = "up" /\ DropPending(k)
      /\ pending[k] \in Task /\ pending[k] \notin running
      /\ row[pending[k]] = "queued"
      /\ UNCHANGED <<phase, image, running, cancelEvent, pc, settingVars, erasing,
                     restarts>>
      /\ faults' \in 0..MaxFaults
  BY <1>0, FaultBounded, RaisedUpdate DEF CancelPending, FreshQueue, PendingIsQueued
<1>2. /\ FreshQueue(pending', running)
      /\ \A i \in DOMAIN pending' :
           \E j \in DOMAIN pending : j # k /\ pending'[i] = pending[j]
  <2> HIDE DEF InductiveInvariant
  <2>1. QED
    BY <1>0, <1>1, DropFresh
<1>3. row' = row \/ row' = [row EXCEPT ![pending[k]] = "cancelled"]
  BY <1>1, RaisedUpdate DEF CancelPending, SetRow
<1>4. /\ row' \in [Task -> RowState]
      /\ \A u \in Task : u # pending[k] => row'[u] = row[u]
      /\ row'[pending[k]] # "new"
  BY <1>1, <1>3 DEF TypeOK, RowState, Terminal
<1>5. \A i \in DOMAIN pending' :
        pending'[i] # pending[k] /\ \E j \in DOMAIN pending : pending'[i] = pending[j]
  BY <1>0, <1>2 DEF FreshQueue
<1>6. TypeOK'
  BY <1>1, <1>2, <1>4 DEF TypeOK, FreshQueue
<1>7. QueueDisjoint'
  BY <1>1, <1>2 DEF QueueDisjoint, FreshQueue
<1>8. PendingIsQueued'
  BY <1>0, <1>4, <1>5 DEF PendingIsQueued, FreshQueue
<1>9. pc[pending[k]] = "idle"
  BY <1>1 DEF WorkerHoldsSlot, At
<1>10. WorkerHoldsSlot' /\ WorkerRowActive'
  BY <1>1, <1>4, <1>9 DEF WorkerHoldsSlot, WorkerRowActive, At
<1>11. WorkConserving'
  <2>1. pending # <<>>
    BY <1>0, EmptySeq DEF FreshQueue
  <2>2. QED
    BY <1>1, <2>1 DEF WorkConserving
<1>12. RunningKnown' /\ DownIsEmpty'
  BY <1>0, <1>1, <1>4 DEF RunningKnown, DownIsEmpty
<1>13. ErasingSettled'
  BY <1>1, <1>4, <1>5 DEF ErasingSettled
<1>14. QED
  BY <1>6, <1>7, <1>8, <1>10, <1>11, <1>12, <1>13

LEMMA CancelRunningInvariant ==
  ASSUME InductiveInvariant, NEW t \in Task, CancelRunning(t)
  PROVE  InductiveInvariant'
<1> USE DEF InductiveInvariant, settingVars
<1>1. /\ TypeOK /\ phase = "up" /\ t \in running /\ row[t] # "new"
      /\ cancelEvent' \in SUBSET Task /\ faults' \in 0..MaxFaults
      /\ UNCHANGED <<phase, image, pending, running, pc, settingVars, erasing,
                     restarts>>
  <2>1. cancelEvent' \in SUBSET Task
    BY DEF CancelRunning, TypeOK
  <2>2. QED
    BY <2>1, FaultBounded, RaisedUpdate DEF CancelRunning, RunningKnown
<1>2. row' = row \/ (HasRow(t) /\ row' = [row EXCEPT ![t] = "cancelling"])
  BY <1>1, RaisedUpdate DEF CancelRunning, SetRow
<1>3. /\ row' \in [Task -> RowState]
      /\ \A u \in Task : u # t => row'[u] = row[u]
      /\ row'[t] = row[t] \/ row'[t] = "cancelling"
  BY <1>1, <1>2 DEF TypeOK, RowState, Active
<1>4. \A i \in DOMAIN pending : pending[i] # t /\ pending[i] \in Task
  BY <1>1 DEF QueueDisjoint, TypeOK
<1>5. TypeOK' /\ QueueDisjoint' /\ WorkConserving' /\ WorkerHoldsSlot' /\ DownIsEmpty'
  BY <1>1, <1>3
     DEF TypeOK, QueueDisjoint, WorkConserving, WorkerHoldsSlot, DownIsEmpty, At
<1>6. PendingIsQueued'
  BY <1>1, <1>3, <1>4 DEF PendingIsQueued
<1>7. WorkerRowActive'
  BY <1>1, <1>3 DEF WorkerRowActive, Active
<1>8. RunningKnown' /\ ErasingSettled'
  BY <1>1, <1>3 DEF RunningKnown, ErasingSettled, TypeOK
<1>9. QED
  BY <1>5, <1>6, <1>7, <1>8

LEMMA SetQueueCapInvariant ==
  ASSUME InductiveInvariant, NEW n \in QueueCapRange, SetQueueCap(n)
  PROVE  InductiveInvariant'
BY ConfigAssumption
   DEF SetQueueCap, QueueCapRange, InductiveInvariant, queueVars, boundVars,
       TypeOK, QueueDisjoint, PendingIsQueued, WorkerHoldsSlot, WorkerRowActive,
       WorkConserving, RunningKnown, ErasingSettled, DownIsEmpty, At

\* A history delete settles nothing that waits or works.
LEMMA EraseInvariant ==
  ASSUME InductiveInvariant, NEW t \in Task,
         EraseCheck(t) \/ EraseImage(t) \/ EraseRow(t)
  PROVE  InductiveInvariant'
<1> USE DEF InductiveInvariant, queueVars, settingVars, boundVars
<1>1. /\ TypeOK /\ phase # "down"
      /\ UNCHANGED <<phase, queueVars, settingVars, restarts>>
      /\ image' \in [Task -> ImageState] /\ faults' \in 0..MaxFaults
  <2>1. faults' \in 0..MaxFaults
    BY BoundAssumption DEF EraseCheck, EraseImage, EraseRow, DbRaises, DbOpen, TypeOK
  <2>2. image' \in [Task -> ImageState]
    BY DEF EraseCheck, EraseImage, EraseRow, TypeOK, ImageState
  <2>3. phase # "down"
    BY DEF EraseCheck, EraseImage, EraseRow, DownIsEmpty
  <2>4. QED
    BY <2>1, <2>2, <2>3 DEF EraseCheck, EraseImage, EraseRow
<1>2. /\ erasing' \in [Task -> {"no", "image", "row"}]
      /\ \A u \in Task : u # t => erasing'[u] = erasing[u]
  BY <1>1 DEF EraseCheck, EraseImage, EraseRow, TypeOK
<1>3. /\ row[t] # "new" /\ pc[t] \in {"idle", "cleanup", "dead"}
      /\ \A i \in DOMAIN pending : pending[i] # t
  <2>1. CASE EraseCheck(t)
    <3>1. row[t] \in Terminal
      BY <2>1 DEF EraseCheck, MayErase
    <3>2. QED
      BY <3>1 DEF Terminal, Active, WorkerRowActive, PendingIsQueued
  <2>2. CASE EraseImage(t) \/ EraseRow(t)
    BY <2>2 DEF EraseImage, EraseRow, ErasingSettled
  <2>3. QED
    BY <2>1, <2>2
<1>4. row' = row \/ row' = [row EXCEPT ![t] = "deleted"]
  BY DEF EraseCheck, EraseImage, EraseRow
<1>5. /\ row' \in [Task -> RowState]
      /\ row'[t] # "new" /\ \A u \in Task : u # t => row'[u] = row[u]
  BY <1>1, <1>3, <1>4 DEF TypeOK, RowState
<1>6. TypeOK' /\ QueueDisjoint' /\ WorkConserving' /\ WorkerHoldsSlot' /\ DownIsEmpty'
  BY <1>1, <1>2, <1>5
     DEF TypeOK, QueueDisjoint, WorkConserving, WorkerHoldsSlot, DownIsEmpty, At
<1>7. PendingIsQueued'
  BY <1>1, <1>3, <1>5 DEF PendingIsQueued, TypeOK
<1>8. WorkerRowActive'
  BY <1>1, <1>3, <1>5 DEF WorkerRowActive
<1>9. RunningKnown' /\ ErasingSettled'
  BY <1>1, <1>2, <1>3, <1>5 DEF RunningKnown, ErasingSettled, TypeOK
<1>10. QED
  BY <1>6, <1>7, <1>8, <1>9

\* Every step of a worker up to its cleanup is a WorkerStep.
LEMMA WorkerInvariant ==
  ASSUME InductiveInvariant, NEW t \in Task, Worker(t)
  PROVE  InductiveInvariant'
<1>0. TypeOK
  BY DEF InductiveInvariant
<1> USE DEF At, Goto, GotoUnlessCancelled
<1> DEFINE Live == pc[t] \notin {"idle", "cleanup", "dead"}
<1>1. Live => row[t] \in Active /\ HasRow(t)
  BY DEF InductiveInvariant, WorkerRowActive, HasRow, Active
<1>2. ASSUME Preflight(t) \/ Prepare(t) \/ Request(t) \/ Download(t) \/ LastCheck(t)
      PROVE  InductiveInvariant'
  <2>1. /\ Live /\ OnlyPc
        /\ \E s \in WorkerState \ {"idle", "cleanup", "dead"} :
             pc' = [pc EXCEPT ![t] = s]
    BY <1>2 DEF Preflight, Prepare, Request, Download, LastCheck, WorkerState
  <2>2. /\ row' = row /\ image' \in [Task -> ImageState] /\ faults' \in 0..MaxFaults
        /\ UNCHANGED <<phase, pending, running, cancelEvent, settingVars, erasing,
                       restarts>>
    BY <1>0, <2>1 DEF OnlyPc, TypeOK, boundVars
  <2>3. QED
    BY <1>1, <2>1, <2>2, WorkerStep
<1>3. ASSUME Save(t)
      PROVE  InductiveInvariant'
  <2>1. \E s \in WorkerState \ {"idle", "cleanup", "dead"} :
          pc' = [pc EXCEPT ![t] = s]
    BY <1>3 DEF Save, WorkerState
  <2>2. /\ Live /\ row' = row
        /\ image' \in [Task -> ImageState] /\ faults' \in 0..MaxFaults
        /\ UNCHANGED <<phase, pending, running, cancelEvent, settingVars, erasing,
                       restarts>>
    BY <1>0, <1>3 DEF Save, TypeOK, ImageState, boundVars
  <2>3. QED
    BY <1>1, <2>1, <2>2, WorkerStep
<1>4. ASSUME MarkRunning(t)
      PROVE  InductiveInvariant'
  <2>1. /\ Live /\ faults' \in 0..MaxFaults /\ image' \in [Task -> ImageState]
        /\ UNCHANGED <<phase, pending, running, cancelEvent, settingVars, erasing,
                       restarts>>
    BY <1>0, <1>4, FaultBounded, RaisedUpdate DEF MarkRunning, TypeOK
  <2>2. CASE SetRow(t, "running") /\ Goto(t, IF HasRow(t) THEN "prepare" ELSE "dead")
    <3>1. row' = [row EXCEPT ![t] = "running"] /\ pc' = [pc EXCEPT ![t] = "prepare"]
      BY <1>1, <2>1, <2>2 DEF SetRow
    <3>2. row'[t] = "running"
      BY <1>0, <3>1 DEF TypeOK
    <3>3. QED
      BY <2>1, <3>1, <3>2, WorkerStep DEF Active, WorkerState
  <2>3. CASE SetRowRaises(t, "running") /\ Goto(t, "dead")
    <3>1. /\ pc' = [pc EXCEPT ![t] = "dead"]
          /\ row' = row \/ row' = [row EXCEPT ![t] = "running"]
      BY <1>0, <2>3, RaisedUpdate DEF Goto
    <3>2. QED
      BY <2>1, <3>1, WorkerStep DEF WorkerState, Active
  <2>4. QED
    BY <1>4, <2>2, <2>3 DEF MarkRunning
<1>5. ASSUME Succeed(t)
      PROVE  InductiveInvariant'
  <2>1. /\ Live /\ faults' \in 0..MaxFaults
        /\ pc' = [pc EXCEPT ![t] = "cleanup"]
        /\ row' = row \/ row' = [row EXCEPT ![t] = "succeeded"]
        /\ UNCHANGED <<phase, pending, running, cancelEvent, settingVars, erasing,
                       restarts>>
    BY <1>0, <1>5, FaultBounded DEF Succeed, SetSucceeded, SetRow
  <2>2. image' \in [Task -> ImageState]
    BY <1>0, <1>5 DEF Succeed, SetSucceeded, TypeOK, ImageState
  <2>3. QED
    BY <2>1, <2>2, WorkerStep DEF WorkerState, Terminal
<1>6. ASSUME NEW s \in {"cancelled", "failed"}, Live, Finalize(t, s)
      PROVE  InductiveInvariant'
  <2>1. /\ faults' \in 0..MaxFaults /\ image' \in [Task -> ImageState]
        /\ pc' = [pc EXCEPT ![t] = "cleanup"] \/ pc' = [pc EXCEPT ![t] = "dead"]
        /\ row' = row \/ row' = [row EXCEPT ![t] = s]
        /\ UNCHANGED <<phase, pending, running, cancelEvent, settingVars, erasing,
                       restarts>>
    BY <1>0, <1>6, FaultBounded, RaisedUpdate DEF Finalize, SetRow, TypeOK
  <2>2. QED
    BY <1>6, <2>1, WorkerStep DEF WorkerState, Terminal
<1>7. QED
  BY <1>2, <1>3, <1>4, <1>5, <1>6, PostRunCleanupInvariant
     DEF Worker, FinalizeCancelled, FinalizeFailed

LEMMA ProcessInvariant ==
  ASSUME InductiveInvariant, Process
  PROVE  InductiveInvariant'
<1> USE DEF InductiveInvariant, settingVars, boundVars, queueVars
<1>1. CASE ShutdownCancel \/ ShutdownExecutor \/ CloseStorage
  <2>1. /\ phase' \in Phase \ {"down"} /\ phase # "down"
        /\ cancelEvent' \in SUBSET Task
        /\ UNCHANGED <<row, image, pending, running, pc, settingVars, erasing,
                       boundVars>>
    BY <1>1 DEF ShutdownCancel, ShutdownExecutor, CloseStorage, Phase, TypeOK
  <2>2. QED
    BY <2>1 DEF TypeOK, QueueDisjoint, PendingIsQueued, WorkerHoldsSlot,
                WorkerRowActive, WorkConserving, RunningKnown, ErasingSettled,
                DownIsEmpty, At
<1>2. CASE Exit
  <2>1. TypeOK'
    BY <1>2, BoundAssumption, FS_EmptySet DEF Exit, TypeOK, Phase, WorkerState
  <2>2. DOMAIN pending' = {}
    BY <1>2 DEF Exit
  <2>3. QED
    BY <1>2, <2>1, <2>2
       DEF Exit, QueueDisjoint, PendingIsQueued, WorkerHoldsSlot,
           WorkerRowActive, WorkConserving, RunningKnown, ErasingSettled,
           DownIsEmpty, At
<1>3. CASE Start
  <2>1. /\ pending = <<>> /\ running = {} /\ DOMAIN pending = {}
        /\ \A t \in Task : pc[t] = "idle" /\ erasing[t] = "no"
    BY <1>3 DEF Start, DownIsEmpty
  <2>2. TypeOK'
    BY <1>3, ConfigAssumption DEF Start, TypeOK, Phase, RowState, Terminal
  <2>3. QED
    BY <1>3, <2>1, <2>2
       DEF Start, QueueDisjoint, PendingIsQueued, WorkerHoldsSlot,
           WorkerRowActive, WorkConserving, RunningKnown, ErasingSettled,
           DownIsEmpty, At
<1>4. QED
  BY <1>1, <1>2, <1>3 DEF Process

LEMMA NextInvariant == InductiveInvariant /\ [Next]_vars => InductiveInvariant'
<1> SUFFICES ASSUME InductiveInvariant, [Next]_vars
             PROVE  InductiveInvariant'
  OBVIOUS
<1>1. CASE Handlers
  BY <1>1, SubmitInvariant, CancelPendingInvariant, CancelRunningInvariant,
     SetConcurrencyInvariant, SetQueueCapInvariant, EraseInvariant DEF Handlers
<1>2. CASE \E t \in Task : Worker(t)
  BY <1>2, WorkerInvariant
<1>3. CASE Process
  BY <1>3, ProcessInvariant
<1>4. CASE UNCHANGED vars
  BY <1>4
     DEF vars, queueVars, settingVars, boundVars, InductiveInvariant, TypeOK,
         QueueDisjoint, PendingIsQueued, WorkerHoldsSlot, WorkerRowActive,
         WorkConserving, RunningKnown, ErasingSettled, DownIsEmpty, At
<1>5. QED
  BY <1>1, <1>2, <1>3, <1>4 DEF Next

----------------------------------------------------------------------------
\* Theorems

\* The queue, the slots, the workers and the rows stay in step, through every
\* interleaving of handlers and workers, errors, stops and restarts.
THEOREM Invariance == Spec => []InductiveInvariant
<1>1. QED
  BY InitInvariant, NextInvariant, PTL DEF Spec

\* Every variable keeps its type.
THEOREM TypeCorrect == Spec => []TypeOK
<1>1. InductiveInvariant => TypeOK
  BY DEF InductiveInvariant
<1>2. QED
  BY <1>1, Invariance, PTL

\* No handle is ever queued twice, or queued and running.
THEOREM QueueIsDisjoint == Spec => []QueueDisjoint
<1>1. InductiveInvariant => QueueDisjoint
  BY DEF InductiveInvariant
<1>2. QED
  BY <1>1, Invariance, PTL

\* The row of a working task is active: a history delete or a settled status
\* never reaches a task under its worker.
THEOREM WorkersRowsAreActive == Spec => []WorkerRowActive
<1>1. InductiveInvariant => WorkerRowActive
  BY DEF InductiveInvariant
<1>2. QED
  BY <1>1, Invariance, PTL

\* No task waits beside a free slot, whatever the settings become.
THEOREM NoIdleSlot == Spec => []WorkConserving
<1>1. InductiveInvariant => WorkConserving
  BY DEF InductiveInvariant
<1>2. QED
  BY <1>1, Invariance, PTL

----------------------------------------------------------------------------
\* What the scheduling loop dispatches

\* The loop fills free slots only, and from the front.
LEMMA PumpDispatches ==
  ASSUME NEW q, NEW busy \in SUBSET Task, IsFiniteSet(busy), FreshQueue(q, busy),
         NEW limit \in Nat \ {0}, NEW pcs \in [Task -> WorkerState],
         Pump(q, busy, limit, pcs)
  PROVE  /\ running' = busy \/ Cardinality(running') <= limit
         /\ \A i, j \in DOMAIN q : (i < j /\ q[j] \in running') => q[i] \in running'
<1>1. PICK n \in 0..Len(q) : /\ running' = busy \cup Front(q, n)
                             /\ n > 0 => Cardinality(running') <= limit
  BY PumpFacts
<1>2. q \in Seq(Task) /\ Len(q) \in Nat /\ DOMAIN q = 1..Len(q)
  BY DEF FreshQueue
<1>3. running' = busy \/ Cardinality(running') <= limit
  <2>1. CASE n = 0
    BY <1>1, <2>1 DEF Front
  <2>2. CASE n > 0
    BY <1>1, <2>2
  <2>3. QED
    BY <1>2, <2>1, <2>2
<1>4. ASSUME NEW i \in DOMAIN q, NEW j \in DOMAIN q, i < j, q[j] \in running'
      PROVE  q[i] \in running'
  <2>1. PICK k \in 1..n : q[j] = q[k]
    BY <1>1, <1>4 DEF FreshQueue, Front
  <2>2. j = k
    BY <1>2, <2>1 DEF FreshQueue
  <2>3. i \in 1..n
    BY <1>2, <1>4, <2>2
  <2>4. QED
    BY <1>1, <2>3 DEF Front
<1>5. QED
  BY <1>3, <1>4

\* Which steps dispatch, and from which queue.
LEMMA StepDispatches ==
  ASSUME InductiveInvariant, [Next]_vars
  PROVE  /\ ~(running' \subseteq running) => Cardinality(running') <= concurrency'
         /\ \A i, j \in DOMAIN pending :
              (i < j /\ pending[j] \in running') => pending[i] \in running'
<1> DEFINE Within == ~(running' \subseteq running) => Cardinality(running') <= concurrency'
           InOrder == \A i, j \in DOMAIN pending :
                        (i < j /\ pending[j] \in running') => pending[i] \in running'
<1>0. /\ FreshQueue(pending, running) /\ IsFiniteSet(running)
      /\ running \in SUBSET Task /\ TypeOK
      /\ Len(pending) \in Nat /\ DOMAIN pending = 1..Len(pending)
  BY HeldFresh DEF InductiveInvariant, FreshQueue
<1>1. ASSUME running' \subseteq running
      PROVE  Within /\ InOrder
  BY <1>0, <1>1 DEF FreshQueue
<1>2. ASSUME NEW t \in Task, NEW priority \in BOOLEAN, Submit(t, priority)
      PROVE  Within /\ InOrder
  <2> DEFINE q == IF priority THEN <<t>> \o pending ELSE Append(pending, t)
             d == IF priority THEN 1 ELSE 0
  <2>1. /\ Pump(q, running, concurrency, pc) /\ concurrency' = concurrency
        /\ row[t] = "new"
    BY <1>2 DEF Submit, settingVars
  <2>2. t \notin running /\ \A i \in DOMAIN pending : pending[i] # t
    BY <2>1 DEF InductiveInvariant, RunningKnown, PendingIsQueued
  <2>3. FreshQueue(q, running)
    <3>1. q = <<t>> \o pending \/ q = Append(pending, t)
      OBVIOUS
    <3> HIDE DEF q
    <3>2. QED
      BY <1>0, <2>2, <3>1, SubmitFresh
  <2>4. d \in {0, 1} /\ \A i \in DOMAIN pending : i + d \in DOMAIN q /\ q[i + d] = pending[i]
    <3>1. CASE priority = TRUE
      BY <1>0, <3>1
    <3>2. CASE priority = FALSE
      BY <1>0, <3>2
    <3>3. QED
      BY <3>1, <3>2
  <2> HIDE DEF q, d
  <2>5. /\ running' = running \/ Cardinality(running') <= concurrency'
        /\ \A i, j \in DOMAIN q : (i < j /\ q[j] \in running') => q[i] \in running'
    BY <1>0, <2>1, <2>3, PumpDispatches DEF TypeOK
  <2>6. InOrder
    <3>1. SUFFICES ASSUME NEW i \in DOMAIN pending, NEW j \in DOMAIN pending,
                          i < j, pending[j] \in running'
                   PROVE  pending[i] \in running'
      OBVIOUS
    <3>2. i + d < j + d /\ i + d \in DOMAIN q /\ j + d \in DOMAIN q
      BY <1>0, <2>4, <3>1
    <3>3. QED
      BY <2>4, <2>5, <3>1, <3>2
  <2>7. QED
    BY <2>5, <2>6
<1>3. ASSUME NEW n \in ConcurrencyRange, SetConcurrency(n)
      PROVE  Within /\ InOrder
  <2>1. Pump(pending, running, n, pc) /\ concurrency' = n /\ n \in Nat \ {0}
    BY <1>3, ConfigAssumption DEF SetConcurrency, ConcurrencyRange
  <2>2. QED
    BY <1>0, <2>1, PumpDispatches DEF TypeOK
<1>4. ASSUME NEW t \in Task, PostRunCleanup(t)
      PROVE  Within /\ InOrder
  <2> DEFINE busy == running \ {t}
             pcs == [pc EXCEPT ![t] = "idle"]
  <2>1. Pump(pending, busy, concurrency, pcs) /\ concurrency' = concurrency
    BY <1>4 DEF PostRunCleanup, settingVars
  <2>2. /\ FreshQueue(pending, busy) /\ busy \in SUBSET Task
        /\ pcs \in [Task -> WorkerState]
    BY <1>0 DEF FreshQueue, TypeOK, WorkerState
  <2>3. IsFiniteSet(busy)
    BY <1>0, FS_RemoveElement
  <2>4. busy \subseteq running
    OBVIOUS
  <2> HIDE DEF busy, pcs
  <2>5. QED
    BY <1>0, <2>1, <2>2, <2>3, <2>4, PumpDispatches DEF TypeOK
<1>5. CASE Handlers
  <2>1. ASSUME \/ \E i \in DOMAIN pending : CancelPending(i)
               \/ \E t \in Task : CancelRunning(t)
               \/ \E n \in QueueCapRange : SetQueueCap(n)
               \/ \E t \in Task : EraseCheck(t) \/ EraseImage(t) \/ EraseRow(t)
        PROVE  running' \subseteq running
    BY <2>1 DEF CancelPending, CancelRunning, SetQueueCap, EraseCheck, EraseImage,
                EraseRow, queueVars
  <2>2. QED
    BY <1>1, <1>2, <1>3, <1>5, <2>1 DEF Handlers
<1>6. CASE \E t \in Task : Worker(t)
  <2>1. PICK t \in Task : Worker(t)
    BY <1>6
  <2>2. CASE PostRunCleanup(t)
    BY <1>4, <2>2
  <2>3. CASE ~PostRunCleanup(t)
    <3>1. running' = running
      BY <2>1, <2>3
         DEF Worker, Preflight, MarkRunning, Prepare, Request, Download, Save,
             LastCheck, Succeed, FinalizeCancelled, FinalizeFailed, Finalize, OnlyPc
    <3>2. QED
      BY <1>1, <3>1
  <2>4. QED
    BY <2>2, <2>3
<1>7. CASE Process \/ UNCHANGED vars
  <2>1. running' \subseteq running
    BY <1>7 DEF Process, ShutdownCancel, ShutdownExecutor, CloseStorage, Exit, Start,
                vars, queueVars
  <2>2. QED
    BY <1>1, <2>1
<1>8. QED
  BY <1>5, <1>6, <1>7 DEF Next

\* Lowering the concurrency starts nothing above it, and no race between
\* submit, set_concurrency and cleanup does.
THEOREM DispatchStaysWithinConcurrency == Spec => DispatchWithinConcurrency
<1>1. InductiveInvariant /\ [Next]_vars =>
        [~(running' \subseteq running) => Cardinality(running') <= concurrency']_vars
  BY StepDispatches
<1>2. QED
  BY <1>1, Invariance, PTL DEF Spec, DispatchWithinConcurrency

\* Workers are given to waiting tasks in queue order.
THEOREM DispatchKeepsQueueOrder == Spec => DispatchInQueueOrder
<1>1. InductiveInvariant /\ [Next]_vars =>
        [\A i, j \in DOMAIN pending :
           (i < j /\ pending[j] \in running') => pending[i] \in running']_vars
  BY StepDispatches
<1>2. QED
  BY <1>1, Invariance, PTL DEF Spec, DispatchInQueueOrder
=============================================================================
