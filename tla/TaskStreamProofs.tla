-------------------------- MODULE TaskStreamProofs --------------------------
(***************************************************************************)
(* Proofs, for any tasks, handlers and requests, that the events of the    *)
(* task queue come in order and that the task list of the browser is right *)
(* once nothing is on its way.                                             *)
(***************************************************************************)
EXTENDS TaskRowsProofs, TaskStreamProperties

----------------------------------------------------------------------------
\* The queue under the stream

LEMMA StreamStepIsStep == [StreamNext]_allVars => [Next]_vars
<1> USE DEF Next
<1>1. ASSUME NEW t \in Task, NEW priority \in BOOLEAN, NEW h \in Handler,
             SubmitTelling(t, priority, h)
      PROVE  Next
  BY <1>1 DEF SubmitTelling, Handlers
<1>2. ASSUME NEW i \in DOMAIN pending, NEW h \in Handler, CancelPendingTelling(i, h)
      PROVE  Next
  BY <1>2 DEF CancelPendingTelling, Handlers
<1>3. ASSUME NEW t \in Task, NEW h \in Handler, CancelRunningTelling(t, h)
      PROVE  Next
  BY <1>3 DEF CancelRunningTelling, Handlers
<1>4. SilentHandler => Next
  BY DEF SilentHandler, Handlers
<1>5. StopTelling \/ ExitTelling => Next
  BY DEF StopTelling, ExitTelling, Process
<1>6. ASSUME NEW t \in Task, WorkerTelling(t)
      PROVE  Next
  BY <1>6 DEF WorkerTelling
<1>7. Connection => UNCHANGED vars
  BY DEF Connection, EmitWorker, EmitHandler, Subscribe, Disconnect
<1>8. Browser => UNCHANGED vars
  BY DEF Browser, Hello, Refresh, Deliver, ServeFetch, FailFetch, ApplySnapshot,
         ApplyCreated, Timeout
<1>9. UNCHANGED allVars => UNCHANGED vars
  BY DEF allVars
<1>10. QED
  BY <1>1, <1>2, <1>3, <1>4, <1>5, <1>6, <1>7, <1>8, <1>9 DEF StreamNext, Server

\* What the browser watches is the task manager: events, connection and
\* browser take no step of the queue away from it and add none.
THEOREM StreamImplementsManager == StreamSpec => Spec
<1>1. StreamInit => Init
  BY DEF StreamInit
<1>2. QED
  BY <1>1, StreamStepIsStep, PTL DEF StreamSpec, Spec

LEMMA WaitingMeans ==
  ASSUME pending \in Seq(Task), NEW t
  PROVE  t \in Front(pending, Len(pending)) <=> \E i \in DOMAIN pending : pending[i] = t
BY DEF Front

LEMMA WaitingMeansNext ==
  ASSUME pending' \in Seq(Task), NEW t
  PROVE  (t \in Front(pending, Len(pending)))' <=>
            \E i \in DOMAIN pending' : pending'[i] = t
BY DEF Front

\* _pump_locked takes nothing that does not wait.
LEMMA PumpKeepsOver ==
  ASSUME NEW q, NEW busy \in SUBSET Task, IsFiniteSet(busy), FreshQueue(q, busy),
         NEW limit \in Nat \ {0}, NEW pcs \in [Task -> WorkerState],
         Pump(q, busy, limit, pcs), pending \in Seq(Task), busy \subseteq running,
         \A i \in DOMAIN q :
            row[q[i]] = "new" \/ \E j \in DOMAIN pending : pending[j] = q[i],
         NEW t \in Task, row'[t] # "new", LeftQueue(t)
  PROVE  /\ LeftQueue(t)'
         /\ Over(t) => Over(t)'
         /\ t \notin busy => Over(t)'
<1>1. PICK n \in 0..Len(q) : /\ pending' = Rest(q, n)
                             /\ running' = busy \cup Front(q, n)
                             /\ FreshQueue(pending', running')
  BY PumpFacts
<1>2. \A i \in DOMAIN q : q[i] # t
  BY WaitingMeans DEF LeftQueue
<1>3. \A i \in DOMAIN pending' : \E j \in DOMAIN q : pending'[i] = q[j]
  BY <1>1, RestFresh
<1>4. \A u \in Front(q, n) : \E j \in DOMAIN q : u = q[j]
  BY DEF Front, FreshQueue
<1>5. LeftQueue(t)'
  BY <1>1, <1>2, <1>3, WaitingMeansNext DEF LeftQueue, FreshQueue
<1>6. t \notin busy => t \notin running'
  BY <1>1, <1>2, <1>4
<1>7. QED
  BY <1>5, <1>6 DEF Over
\* The row of a submitted task stays one of a submitted task.
LEMMA StepKeepsSubmitted ==
  ASSUME TypeOK, [Next]_vars, NEW t \in Task, row[t] # "new"
  PROVE  row'[t] # "new"
<1> USE DEF SetRow, SetRowRaises
<1>0. row \in [Task -> RowState]
  BY DEF TypeOK
<1>1. CASE Handlers
  <2>1. ASSUME NEW u \in Task, NEW priority \in BOOLEAN, Submit(u, priority)
        PROVE  row'[t] # "new"
    BY <1>0, <2>1 DEF Submit
  <2>2. ASSUME NEW i \in DOMAIN pending, CancelPending(i)
        PROVE  row'[t] # "new"
    BY <1>0, <2>2 DEF CancelPending
  <2>3. ASSUME NEW u \in Task, CancelRunning(u)
        PROVE  row'[t] # "new"
    BY <1>0, <2>3 DEF CancelRunning
  <2>4. ASSUME \/ \E n \in ConcurrencyRange : SetConcurrency(n)
               \/ \E n \in QueueCapRange : SetQueueCap(n)
        PROVE  row'[t] # "new"
    BY <2>4 DEF SetConcurrency, SetQueueCap
  <2>5. ASSUME NEW u \in Task, EraseCheck(u) \/ EraseImage(u) \/ EraseRow(u)
        PROVE  row'[t] # "new"
    BY <1>0, <2>5 DEF EraseCheck, EraseImage, EraseRow
  <2>6. QED
    BY <1>1, <2>1, <2>2, <2>3, <2>4, <2>5 DEF Handlers
<1>2. ASSUME NEW u \in Task, Worker(u)
      PROVE  row'[t] # "new"
  <2>1. CASE MarkRunning(u) \/ Succeed(u)
    BY <1>0, <2>1 DEF MarkRunning, Succeed, SetSucceeded
  <2>2. CASE FinalizeCancelled(u) \/ FinalizeFailed(u)
    BY <1>0, <2>2 DEF FinalizeCancelled, FinalizeFailed, Finalize
  <2>3. CASE \/ Preflight(u) \/ Prepare(u) \/ Request(u) \/ Download(u) \/ Save(u)
             \/ LastCheck(u) \/ PostRunCleanup(u)
    BY <2>3 DEF Preflight, Prepare, Request, Download, Save, LastCheck,
                PostRunCleanup, OnlyPc
  <2>4. QED
    BY <1>2, <2>1, <2>2, <2>3 DEF Worker
<1>3. CASE Process
  BY <1>0, <1>3 DEF Process, ShutdownCancel, ShutdownExecutor, CloseStorage, Exit, Start
<1>4. QED
  BY <1>1, <1>2, <1>3 DEF Next, vars

\* A task that has left the queue does not come back, nor does it get a slot
\* when it has none.
LEMMA StepKeepsOver ==
  ASSUME InductiveInvariant, [Next]_vars, NEW t \in Task, LeftQueue(t)
  PROVE  LeftQueue(t)' /\ (Over(t) => Over(t)')
<1>0. /\ FreshQueue(pending, running) /\ running \in SUBSET Task
      /\ IsFiniteSet(running) /\ TypeOK /\ pending \in Seq(Task)
      /\ pc \in [Task -> WorkerState] /\ concurrency \in Nat \ {0}
  BY HeldFresh DEF InductiveInvariant, TypeOK
<1>1. row'[t] # "new"
  BY <1>0, StepKeepsSubmitted DEF LeftQueue
<1>2. \A i \in DOMAIN pending : pending[i] # t
  BY <1>0, WaitingMeans DEF LeftQueue
<1>3. ASSUME UNCHANGED <<pending, running>>
      PROVE  LeftQueue(t)' /\ (Over(t) => Over(t)')
  BY <1>1, <1>3 DEF LeftQueue, Over, Front
<1>4. CASE Handlers
  <2>1. ASSUME NEW u \in Task, NEW priority \in BOOLEAN, Submit(u, priority)
        PROVE  LeftQueue(t)' /\ (Over(t) => Over(t)')
    <3> DEFINE q == IF priority THEN <<u>> \o pending ELSE Append(pending, u)
    <3>1. Pump(q, running, concurrency, pc) /\ row[u] = "new"
      BY <2>1 DEF Submit
    <3>2. u \notin running /\ \A i \in DOMAIN pending : pending[i] # u
      BY <3>1 DEF InductiveInvariant, RunningKnown, PendingIsQueued
    <3>3. q = <<u>> \o pending \/ q = Append(pending, u)
      OBVIOUS
    <3> HIDE DEF q
    <3>4. /\ FreshQueue(q, running)
          /\ \A i \in DOMAIN q : q[i] = u \/ \E j \in DOMAIN pending : q[i] = pending[j]
      BY <1>0, <3>2, <3>3, SubmitFresh
    <3>5. \A i \in DOMAIN q :
             row[q[i]] = "new" \/ \E j \in DOMAIN pending : pending[j] = q[i]
      BY <3>1, <3>4
    <3>6. QED
      BY <1>0, <1>1, <3>1, <3>4, <3>5, PumpKeepsOver
  <2>2. ASSUME NEW i \in DOMAIN pending, CancelPending(i)
        PROVE  LeftQueue(t)' /\ (Over(t) => Over(t)')
    <3>1. DropPending(i) /\ running' = running
      BY <2>2 DEF CancelPending
    <3>2. /\ FreshQueue(pending', running)
          /\ \A j \in DOMAIN pending' : \E k \in DOMAIN pending : pending'[j] = pending[k]
      BY <1>0, <3>1, DropFresh
    <3>3. QED
      BY <1>1, <1>2, <3>1, <3>2, WaitingMeansNext DEF LeftQueue, Over, FreshQueue
  <2>3. ASSUME NEW n \in ConcurrencyRange, SetConcurrency(n)
        PROVE  LeftQueue(t)' /\ (Over(t) => Over(t)')
    <3>1. Pump(pending, running, n, pc) /\ n \in Nat \ {0}
      BY <2>3, ConfigAssumption DEF SetConcurrency, ConcurrencyRange
    <3>2. QED
      BY <1>0, <1>1, <3>1, PumpKeepsOver
  <2>4. ASSUME \/ \E u \in Task : CancelRunning(u)
               \/ \E n \in QueueCapRange : SetQueueCap(n)
               \/ \E u \in Task : EraseCheck(u) \/ EraseImage(u) \/ EraseRow(u)
        PROVE  LeftQueue(t)' /\ (Over(t) => Over(t)')
    BY <1>3, <2>4 DEF CancelRunning, SetQueueCap, EraseCheck, EraseImage, EraseRow,
                      queueVars
  <2>5. QED
    BY <1>4, <2>1, <2>2, <2>3, <2>4 DEF Handlers
<1>5. ASSUME NEW u \in Task, Worker(u)
      PROVE  LeftQueue(t)' /\ (Over(t) => Over(t)')
  <2>1. CASE PostRunCleanup(u)
    <3> DEFINE pcs == [pc EXCEPT ![u] = "idle"]
    <3>1. Pump(pending, running \ {u}, concurrency, pcs)
      BY <2>1 DEF PostRunCleanup
    <3>2. /\ running \ {u} \in SUBSET Task /\ IsFiniteSet(running \ {u})
          /\ FreshQueue(pending, running \ {u}) /\ pcs \in [Task -> WorkerState]
          /\ running \ {u} \subseteq running
      BY <1>0, FS_RemoveElement DEF FreshQueue, WorkerState
    <3> HIDE DEF pcs
    <3>3. QED
      BY <1>0, <1>1, <3>1, <3>2, PumpKeepsOver
  <2>2. CASE ~PostRunCleanup(u)
    BY <1>3, <1>5, <2>2
       DEF Worker, Preflight, MarkRunning, Prepare, Request, Download, Save,
           LastCheck, Succeed, FinalizeCancelled, FinalizeFailed, Finalize, OnlyPc
  <2>3. QED
    BY <2>1, <2>2
<1>6. CASE Exit
  BY <1>1, <1>6 DEF Exit, LeftQueue, Over, Front
<1>7. CASE (Process /\ ~Exit) \/ UNCHANGED vars
  BY <1>3, <1>7
     DEF Process, ShutdownCancel, ShutdownExecutor, CloseStorage, Start, vars,
         queueVars
<1>8. QED
  BY <1>4, <1>5, <1>6, <1>7 DEF Next

\* A worker that gives its slot back leaves its task to nobody.
LEMMA CleanupIsTheEnd ==
  ASSUME InductiveInvariant, NEW t \in Task, PostRunCleanup(t)
  PROVE  ~Over(t) /\ Over(t)'
<1>0. /\ FreshQueue(pending, running) /\ running \in SUBSET Task
      /\ IsFiniteSet(running) /\ TypeOK /\ pending \in Seq(Task)
      /\ pc \in [Task -> WorkerState] /\ concurrency \in Nat \ {0}
  BY HeldFresh DEF InductiveInvariant, TypeOK
<1> DEFINE pcs == [pc EXCEPT ![t] = "idle"]
<1>1. /\ Pump(pending, running \ {t}, concurrency, pcs) /\ row' = row
      /\ t \in running
  BY DEF PostRunCleanup, InductiveInvariant, WorkerHoldsSlot, At
<1>2. /\ running \ {t} \in SUBSET Task /\ IsFiniteSet(running \ {t})
      /\ FreshQueue(pending, running \ {t}) /\ pcs \in [Task -> WorkerState]
      /\ running \ {t} \subseteq running /\ t \notin running \ {t}
  BY <1>0, FS_RemoveElement DEF FreshQueue, WorkerState
<1>3. LeftQueue(t) /\ row'[t] # "new"
  BY <1>0, <1>1, WaitingMeans DEF InductiveInvariant, RunningKnown, FreshQueue, LeftQueue
<1> HIDE DEF pcs
<1>4. QED
  BY <1>0, <1>1, <1>2, <1>3, PumpKeepsOver DEF Over

\* So does a handler that drops a task from the queue.
LEMMA CancelIsTheEnd ==
  ASSUME InductiveInvariant, NEW i \in DOMAIN pending, CancelPending(i),
         NEW t \in Task, t = pending[i]
  PROVE  ~LeftQueue(t) /\ Over(t)'
<1>0. FreshQueue(pending, running) /\ TypeOK /\ pending \in Seq(Task)
  BY HeldFresh DEF InductiveInvariant, TypeOK
<1>1. DropPending(i) /\ running' = running /\ [Next]_vars
  BY DEF CancelPending, Next, Handlers
<1>2. row[t] = "queued"
  BY DEF InductiveInvariant, PendingIsQueued
<1>3. row'[t] # "new"
  BY <1>0, <1>1, <1>2, StepKeepsSubmitted
<1>4. /\ FreshQueue(pending', running)
      /\ \A j \in DOMAIN pending' :
           \E k \in DOMAIN pending : k # i /\ pending'[j] = pending[k]
  BY <1>0, <1>1, DropFresh
<1>5. \A j \in DOMAIN pending' : pending'[j] # t
  BY <1>0, <1>4 DEF FreshQueue
<1>6. LeftQueue(t)'
  BY <1>3, <1>4, <1>5, WaitingMeansNext DEF LeftQueue, FreshQueue
<1>7. ~LeftQueue(t)
  BY <1>0, WaitingMeans DEF LeftQueue
<1>8. QED
  BY <1>0, <1>1, <1>6, <1>7 DEF Over, FreshQueue
----------------------------------------------------------------------------
\* The order of the events

EventsInOrder ==
  /\ WorkersTellTheirOwn
  /\ HandlersTellNoWork
  /\ EndIsToldOnce
  /\ TerminalEventIsLast
  /\ TimersAreOver

\* No step calls a task back that has left the queue: StepKeepsOver.
OverStays ==
  \A t \in Task : (LeftQueue(t) => LeftQueue(t)') /\ (Over(t) => Over(t)')

LEMMA EventFields ==
  /\ NoEvent.event = "none" /\ NoEvent \notin Event
  /\ \A e \in Event : /\ e.event \in {"status", "progress", "terminal"}
                      /\ e.task \in Task /\ e # NoEvent
                      /\ e.event # "terminal" => e.status \in Active
                      /\ e.event = "terminal" => e.status \in Terminal
<1>1. NoEvent.event = "none"
  BY DEF NoEvent
<1>2. \A e \in Event : /\ e.event \in {"status", "progress", "terminal"}
                       /\ e.task \in Task
                       /\ e.event # "terminal" => e.status \in Active
                       /\ e.event = "terminal" => e.status \in Terminal
  BY DEF Event
<1>3. QED
  BY <1>1, <1>2

\* What is said is an event, and about a task.
LEMMA SaidEvents ==
  ASSUME StreamTypeOK
  PROVE  /\ \A t \in Task : workerOwes[t] # NoEvent => workerOwes[t] \in Event
         /\ \A h \in Handler : handlerOwes[h] # NoEvent => handlerOwes[h] \in Event
         /\ \A i \in DOMAIN channel : channel[i] \in Event
         /\ DOMAIN channel = 1..Len(channel) /\ Len(channel) \in Nat
         /\ timers \subseteq Task
BY DEF StreamTypeOK

\* A handler may tell a change of status, and the end of a task that it has
\* itself taken out of the queue.
LEMMA HandlerSaysInOrder ==
  ASSUME StreamTypeOK, EventsInOrder, OverStays, NEW h \in Handler, NEW e,
         HandlerSays(h, e),
         \/ e = NoEvent
         \/ e \in Event /\ e.event = "status" /\ e.status # "running"
         \/ /\ e \in Event /\ e.event = "terminal"
            /\ \E t \in Task : e.task = t /\ ~LeftQueue(t) /\ Over(t)'
  PROVE  EventsInOrder'
<1> USE EventFields
<1>1. /\ handlerOwes[h] = NoEvent /\ handlerOwes' = [handlerOwes EXCEPT ![h] = e]
      /\ UNCHANGED <<workerOwes, channel, timers>>
  BY DEF HandlerSays, browserVars
<1>2. handlerOwes'[h] = e /\ \A g \in Handler : g # h => handlerOwes'[g] = handlerOwes[g]
  BY <1>1 DEF StreamTypeOK
<1>3. \A g \in Handler, t \in Task :
         TellsEnd(g, t)' => \/ g # h /\ TellsEnd(g, t)
                            \/ g = h /\ ~LeftQueue(t) /\ Over(t)'
  BY <1>2 DEF TellsEnd
<1>4. \A t \in Task : Over(t) => LeftQueue(t)
  BY DEF Over
<1>5. WorkersTellTheirOwn' /\ TimersAreOver' /\ TerminalEventIsLast'
  BY <1>1, SaidEvents DEF EventsInOrder, OverStays, WorkersTellTheirOwn,
                          TimersAreOver, TerminalEventIsLast
<1>6. HandlersTellNoWork'
  BY <1>2 DEF EventsInOrder, HandlersTellNoWork
<1>7. EndIsToldOnce'
  <2>1. ASSUME NEW i \in DOMAIN channel', channel'[i].event = "terminal",
               NEW t, t = channel'[i].task
        PROVE  /\ Over(t)' /\ workerOwes'[t] = NoEvent
               /\ \A g \in Handler : ~TellsEnd(g, t)'
    <3>1. /\ t \in Task /\ Over(t) /\ workerOwes[t] = NoEvent
          /\ \A g \in Handler : ~TellsEnd(g, t)
      BY <1>1, <2>1, SaidEvents DEF EventsInOrder, EndIsToldOnce
    <3>2. QED
      BY <1>1, <1>3, <1>4, <3>1 DEF OverStays
  <2>2. ASSUME NEW g \in Handler, NEW t \in Task, TellsEnd(g, t)'
        PROVE  /\ Over(t)' /\ workerOwes'[t] = NoEvent
               /\ \A f \in Handler : TellsEnd(f, t)' => f = g
    <3>1. CASE g # h
      <4>1. /\ TellsEnd(g, t) /\ Over(t) /\ workerOwes[t] = NoEvent
            /\ \A f \in Handler : TellsEnd(f, t) => f = g
        BY <1>3, <2>2, <3>1 DEF EventsInOrder, EndIsToldOnce
      <4>2. QED
        BY <1>1, <1>3, <1>4, <4>1 DEF OverStays
    <3>2. CASE g = h
      <4>1. ~LeftQueue(t) /\ ~Over(t) /\ Over(t)'
        BY <1>3, <1>4, <2>2, <3>2
      <4>2. workerOwes[t] = NoEvent
        BY <4>1 DEF EventsInOrder, WorkersTellTheirOwn
      <4>3. \A f \in Handler : ~TellsEnd(f, t)
        BY <4>1 DEF EventsInOrder, EndIsToldOnce
      <4>4. QED
        BY <1>1, <1>3, <3>2, <4>1, <4>2, <4>3
    <3>3. QED
      BY <3>1, <3>2
  <2>3. ASSUME NEW t \in Task, workerOwes'[t].event = "terminal"
        PROVE  Over(t)' /\ \A g \in Handler : ~TellsEnd(g, t)'
    <3>1. Over(t) /\ \A g \in Handler : ~TellsEnd(g, t)
      BY <1>1, <2>3 DEF EventsInOrder, EndIsToldOnce
    <3>2. QED
      BY <1>3, <1>4, <3>1 DEF OverStays
  <2>4. QED
    BY <2>1, <2>2, <2>3 DEF EndIsToldOnce
<1>8. QED
  BY <1>5, <1>6, <1>7 DEF EventsInOrder

\* A worker may tell what it likes of its own task, and the end when it gives
\* its slot back.
LEMMA WorkerSaysInOrder ==
  ASSUME StreamTypeOK, EventsInOrder, OverStays, NEW t \in Task, NEW e,
         workerOwes' = [workerOwes EXCEPT ![t] = e],
         UNCHANGED <<handlerOwes, channel, timers>>,
         LeftQueue(t), ~Over(t),
         \/ e = NoEvent
         \/ e \in Event /\ e.task = t /\ (e.event = "terminal" => Over(t)')
  PROVE  EventsInOrder'
<1> USE EventFields
<1>1. workerOwes'[t] = e /\ \A u \in Task : u # t => workerOwes'[u] = workerOwes[u]
  BY DEF StreamTypeOK
<1>2. \A g \in Handler, u \in Task : TellsEnd(g, u)' <=> TellsEnd(g, u)
  BY DEF TellsEnd
<1>3. WorkersTellTheirOwn'
  BY <1>1 DEF EventsInOrder, OverStays, WorkersTellTheirOwn
<1>4. HandlersTellNoWork' /\ TimersAreOver' /\ TerminalEventIsLast'
  BY SaidEvents DEF EventsInOrder, OverStays, HandlersTellNoWork, TimersAreOver,
                    TerminalEventIsLast
<1>5. EndIsToldOnce'
  <2>1. ASSUME NEW i \in DOMAIN channel', channel'[i].event = "terminal",
               NEW u, u = channel'[i].task
        PROVE  /\ Over(u)' /\ workerOwes'[u] = NoEvent
               /\ \A g \in Handler : ~TellsEnd(g, u)'
    <3>1. /\ u \in Task /\ Over(u) /\ workerOwes[u] = NoEvent
          /\ \A g \in Handler : ~TellsEnd(g, u)
      BY <2>1, SaidEvents DEF EventsInOrder, EndIsToldOnce
    <3>2. u # t
      BY <3>1
    <3>3. QED
      BY <1>1, <1>2, <3>1, <3>2 DEF OverStays
  <2>2. ASSUME NEW g \in Handler, NEW u \in Task, TellsEnd(g, u)'
        PROVE  /\ Over(u)' /\ workerOwes'[u] = NoEvent
               /\ \A f \in Handler : TellsEnd(f, u)' => f = g
    <3>1. /\ Over(u) /\ workerOwes[u] = NoEvent
          /\ \A f \in Handler : TellsEnd(f, u) => f = g
      BY <1>2, <2>2 DEF EventsInOrder, EndIsToldOnce
    <3>2. u # t
      BY <3>1
    <3>3. QED
      BY <1>1, <1>2, <3>1, <3>2 DEF OverStays
  <2>3. ASSUME NEW u \in Task, workerOwes'[u].event = "terminal"
        PROVE  Over(u)' /\ \A g \in Handler : ~TellsEnd(g, u)'
    <3>1. CASE u = t
      <4>1. Over(u)'
        BY <1>1, <2>3, <3>1
      <4>2. \A g \in Handler : ~TellsEnd(g, u)
        BY <3>1 DEF EventsInOrder, EndIsToldOnce
      <4>3. QED
        BY <1>2, <4>1, <4>2
    <3>2. CASE u # t
      <4>1. Over(u) /\ \A g \in Handler : ~TellsEnd(g, u)
        BY <1>1, <2>3, <3>2 DEF EventsInOrder, EndIsToldOnce
      <4>2. QED
        BY <1>2, <4>1 DEF OverStays
    <3>3. QED
      BY <3>1, <3>2
  <2>4. QED
    BY <2>1, <2>2, <2>3 DEF EndIsToldOnce
<1>6. QED
  BY <1>3, <1>4, <1>5 DEF EventsInOrder

\* A step that neither tells nor delivers.
LEMMA SilenceIsInOrder ==
  ASSUME StreamTypeOK, EventsInOrder, OverStays,
         UNCHANGED <<workerOwes, handlerOwes, channel, timers>>
  PROVE  EventsInOrder'
<1>1. \A g \in Handler, u \in Task : TellsEnd(g, u)' <=> TellsEnd(g, u)
  BY DEF TellsEnd
<1>2. /\ WorkersTellTheirOwn' /\ HandlersTellNoWork' /\ TimersAreOver'
      /\ TerminalEventIsLast'
  BY SaidEvents DEF EventsInOrder, OverStays, WorkersTellTheirOwn,
                    HandlersTellNoWork, TimersAreOver, TerminalEventIsLast
<1>3. \A i \in DOMAIN channel : channel[i].task \in Task
  BY SaidEvents, EventFields
<1>4. EndIsToldOnce'
  BY <1>1, <1>3 DEF EventsInOrder, OverStays, EndIsToldOnce
<1>5. QED
  BY <1>2, <1>4 DEF EventsInOrder

\* An owed event is sent, or the listener's queue drops it, or its link cannot
\* be made.
LEMMA PublishIsInOrder ==
  ASSUME StreamTypeOK, EventsInOrder, UNCHANGED <<vars, timers>>,
         NEW e \in Event, Publish(e) \/ LinkRaises(e),
         \A t \in Task : workerOwes'[t] = workerOwes[t] \/ workerOwes'[t] = NoEvent,
         \A h \in Handler : handlerOwes'[h] = handlerOwes[h] \/ handlerOwes'[h] = NoEvent,
         e.event = "terminal" =>
            /\ Over(e.task) /\ workerOwes'[e.task] = NoEvent
            /\ \A h \in Handler :
                 ~(handlerOwes'[h].event = "terminal" /\ handlerOwes'[h].task = e.task),
         \A i \in DOMAIN channel :
            (channel[i].event = "terminal" /\ channel[i].task = e.task) =>
               e.event = "status" /\ e.status # "running"
  PROVE  EventsInOrder'
<1> USE EventFields
<1>1. /\ DOMAIN channel = 1..Len(channel) /\ Len(channel) \in Nat
      /\ \A i \in DOMAIN channel : channel[i] \in Event
  BY SaidEvents
<1>2. \A i \in DOMAIN channel' :
         \/ i \in DOMAIN channel /\ channel'[i] = channel[i]
         \/ i = Len(channel) + 1 /\ channel'[i] = e
  <2>1. channel \in Seq(Event)
    BY DEF StreamTypeOK
  <2>2. channel' = channel \/ channel' = Append(channel, e)
    BY DEF Publish, LinkRaises
  <2>3. QED
    BY <1>1, <2>1, <2>2, AppendProperties
<1>3. OverStays /\ \A t \in Task : Over(t)' <=> Over(t)
  BY DEF OverStays, LeftQueue, Over, Front, vars, queueVars
<1>4. \A g \in Handler, u \in Task : TellsEnd(g, u)' => TellsEnd(g, u)
  BY DEF TellsEnd
<1>5. WorkersTellTheirOwn' /\ HandlersTellNoWork' /\ TimersAreOver'
  BY <1>3, SaidEvents DEF EventsInOrder, OverStays, WorkersTellTheirOwn,
                    HandlersTellNoWork, TimersAreOver
<1>6. TerminalEventIsLast'
  <2>1. SUFFICES ASSUME NEW i \in DOMAIN channel', NEW j \in DOMAIN channel', i < j,
                        channel'[i].event = "terminal",
                        channel'[j].task = channel'[i].task
                 PROVE  channel'[j].event = "status" /\ channel'[j].status # "running"
    BY DEF TerminalEventIsLast
  <2>2. i \in DOMAIN channel /\ channel'[i] = channel[i]
    BY <1>1, <1>2, <2>1
  <2>3. QED
    BY <1>2, <2>1, <2>2 DEF EventsInOrder, TerminalEventIsLast
<1>7. EndIsToldOnce'
  <2>1. ASSUME NEW i \in DOMAIN channel', channel'[i].event = "terminal",
               NEW t, t = channel'[i].task
        PROVE  /\ Over(t)' /\ workerOwes'[t] = NoEvent
               /\ \A h \in Handler : ~TellsEnd(h, t)'
    <3>1. CASE i \in DOMAIN channel /\ channel'[i] = channel[i]
      <4>1. /\ t \in Task /\ Over(t) /\ workerOwes[t] = NoEvent
            /\ \A h \in Handler : ~TellsEnd(h, t)
        BY <1>1, <2>1, <3>1 DEF EventsInOrder, EndIsToldOnce
      <4>2. QED
        BY <1>3, <1>4, <4>1
    <3>2. CASE channel'[i] = e
      BY <1>3, <2>1, <3>2 DEF TellsEnd
    <3>3. QED
      BY <1>2, <3>1, <3>2
  <2>2. ASSUME NEW g \in Handler, NEW t \in Task, TellsEnd(g, t)'
        PROVE  /\ Over(t)' /\ workerOwes'[t] = NoEvent
               /\ \A f \in Handler : TellsEnd(f, t)' => f = g
    BY <1>3, <1>4, <2>2 DEF EventsInOrder, EndIsToldOnce
  <2>3. ASSUME NEW t \in Task, workerOwes'[t].event = "terminal"
        PROVE  Over(t)' /\ \A g \in Handler : ~TellsEnd(g, t)'
    BY <1>3, <1>4, <2>3 DEF EventsInOrder, EndIsToldOnce
  <2>4. QED
    BY <2>1, <2>2, <2>3 DEF EndIsToldOnce
<1>8. QED
  BY <1>5, <1>6, <1>7 DEF EventsInOrder
\* The events of the handlers.
LEMMA StatusIsEvent ==
  ASSUME NEW t \in Task, NEW s \in Active
  PROVE  /\ StatusEvent(t, s) \in Event /\ StatusEvent(t, s).event = "status"
         /\ StatusEvent(t, s).task = t /\ StatusEvent(t, s).status = s
BY DEF StatusEvent, Event

LEMMA TerminalIsEvent ==
  ASSUME NEW t \in Task, NEW s \in Terminal
  PROVE  /\ TerminalEvent(t, s) \in Event /\ TerminalEvent(t, s).event = "terminal"
         /\ TerminalEvent(t, s).task = t
BY DEF TerminalEvent, Event

\* A worker at work has a slot, and its last step is the cleanup.
LEMMA WorkerIsAtWork ==
  ASSUME InductiveInvariant, NEW t \in Task, Worker(t)
  PROVE  /\ pc[t] \notin {"idle", "dead"} /\ t \in running /\ LeftQueue(t) /\ ~Over(t)
         /\ At(t, "cleanup") <=> PostRunCleanup(t)
<1>1. pc[t] \notin {"idle", "dead"} /\ (At(t, "cleanup") <=> PostRunCleanup(t))
  BY DEF Worker, Preflight, MarkRunning, Prepare, Request, Download, Save, LastCheck,
         Succeed, FinalizeCancelled, FinalizeFailed, PostRunCleanup, At
<1>2. t \in running
  BY <1>1 DEF InductiveInvariant, WorkerHoldsSlot, At
<1>3. LeftQueue(t)
  BY <1>2, WaitingMeans
     DEF InductiveInvariant, RunningKnown, QueueDisjoint, TypeOK, LeftQueue
<1>4. QED
  BY <1>1, <1>2, <1>3 DEF Over

LEMMA WorkerEventIsItsOwn ==
  ASSUME StreamTypeOK, NEW t \in Task
  PROVE  \/ WorkerEvent(t) = NoEvent
         \/ /\ WorkerEvent(t) \in Event /\ WorkerEvent(t).task = t
            /\ WorkerEvent(t).event = "terminal" => At(t, "cleanup")
<1>1. verdict[t] # "none" => verdict[t] \in Terminal
  BY DEF StreamTypeOK
<1>2. /\ StatusEvent(t, "running") \in Event
      /\ StatusEvent(t, "running").task = t
      /\ StatusEvent(t, "running").event = "status"
  BY StatusIsEvent DEF Active
<1>3. /\ ProgressEvent(t) \in Event /\ ProgressEvent(t).task = t
      /\ ProgressEvent(t).event = "progress"
  BY DEF ProgressEvent, Event, Active
<1>4. verdict[t] # "none" => /\ TerminalEvent(t, verdict[t]) \in Event
                             /\ TerminalEvent(t, verdict[t]).task = t
  BY <1>1, TerminalIsEvent
<1>5. \/ WorkerEvent(t) \in {StatusEvent(t, "running"), ProgressEvent(t), NoEvent}
      \/ /\ At(t, "cleanup") /\ verdict[t] # "none"
         /\ WorkerEvent(t) = TerminalEvent(t, verdict[t])
  BY DEF WorkerEvent
<1>6. QED
  BY <1>2, <1>3, <1>4, <1>5

LEMMA ServerInOrder ==
  ASSUME InductiveInvariant, StreamTypeOK, EventsInOrder, Server
  PROVE  EventsInOrder'
<1>0. [Next]_vars
  BY StreamStepIsStep DEF StreamNext
<1>1. OverStays
  BY <1>0, StepKeepsOver DEF OverStays, Over
<1>2. ASSUME NEW t \in Task, NEW priority \in BOOLEAN, NEW h \in Handler,
             SubmitTelling(t, priority, h)
      PROVE  EventsInOrder'
  <2>1. HandlerSays(h, StatusEvent(t, "queued"))
    BY <1>2 DEF SubmitTelling
  <2>2. /\ StatusEvent(t, "queued") \in Event
        /\ StatusEvent(t, "queued").event = "status"
        /\ StatusEvent(t, "queued").status # "running"
    BY StatusIsEvent DEF Active
  <2>3. QED
    BY <1>1, <2>1, <2>2, HandlerSaysInOrder
<1>3. ASSUME NEW i \in DOMAIN pending, NEW h \in Handler, CancelPendingTelling(i, h)
      PROVE  EventsInOrder'
  <2>1. pending[i] \in Task
    BY DEF StreamTypeOK, TypeOK
  <2>2. PICK t \in Task : t = pending[i]
    BY <2>1
  <2>3. /\ CancelPending(i)
        /\ HandlerSays(h, UnlessRaised(t, TerminalEvent(t, "cancelled")))
    BY <1>3, <2>2 DEF CancelPendingTelling
  <2>4. ~LeftQueue(t) /\ Over(t)'
    BY <2>2, <2>3, CancelIsTheEnd
  <2>5. /\ TerminalEvent(t, "cancelled") \in Event
        /\ TerminalEvent(t, "cancelled").event = "terminal"
        /\ TerminalEvent(t, "cancelled").task = t
    BY TerminalIsEvent DEF Terminal
  <2>6. UnlessRaised(t, TerminalEvent(t, "cancelled"))
           \in {NoEvent, TerminalEvent(t, "cancelled")}
    BY DEF UnlessRaised
  <2> DEFINE e == UnlessRaised(t, TerminalEvent(t, "cancelled"))
  <2>7. \/ e = NoEvent
        \/ /\ e \in Event /\ e.event = "terminal"
           /\ \E u \in Task : e.task = u /\ ~LeftQueue(u) /\ Over(u)'
    BY <2>4, <2>5, <2>6
  <2> HIDE DEF e
  <2>8. HandlerSays(h, e)
    BY <2>3 DEF e
  <2>9. QED
    BY <1>1, <2>7, <2>8, HandlerSaysInOrder
<1>4. ASSUME NEW t \in Task, NEW h \in Handler, CancelRunningTelling(t, h)
      PROVE  EventsInOrder'
  <2> DEFINE e == UnlessRaised(t, StatusEvent(t, "cancelling"))
  <2>1. HandlerSays(h, e)
    BY <1>4 DEF CancelRunningTelling
  <2>2. /\ StatusEvent(t, "cancelling") \in Event
        /\ StatusEvent(t, "cancelling").event = "status"
        /\ StatusEvent(t, "cancelling").status # "running"
    BY StatusIsEvent DEF Active
  <2>3. e = NoEvent \/ (e \in Event /\ e.event = "status" /\ e.status # "running")
    BY <2>2 DEF UnlessRaised
  <2> HIDE DEF e
  <2>4. QED
    BY <1>1, <2>1, <2>3, HandlerSaysInOrder
<1>5. CASE SilentHandler \/ StopTelling
  BY <1>1, <1>5, SilenceIsInOrder
     DEF SilentHandler, StopTelling, streamVars, serverVars, browserVars
<1>6. CASE ExitTelling
  <2>1. /\ \A t \in Task : workerOwes'[t] = NoEvent
        /\ \A h \in Handler : handlerOwes'[h] = NoEvent
        /\ channel' = <<>> /\ timers' = timers
    BY <1>6 DEF ExitTelling
  <2>2. EndIsToldOnce' /\ WorkersTellTheirOwn' /\ HandlersTellNoWork'
        /\ TerminalEventIsLast'
    BY <2>1, EventFields DEF EndIsToldOnce, WorkersTellTheirOwn, HandlersTellNoWork,
                             TerminalEventIsLast, TellsEnd
  <2>3. TimersAreOver'
    BY <1>1, <2>1, SaidEvents DEF EventsInOrder, TimersAreOver, OverStays
  <2>4. QED
    BY <2>2, <2>3 DEF EventsInOrder
<1>7. ASSUME NEW t \in Task, WorkerTelling(t)
      PROVE  EventsInOrder'
  <2> DEFINE e == WorkerEvent(t)
  <2>1. /\ Worker(t) /\ workerOwes' = [workerOwes EXCEPT ![t] = e]
        /\ UNCHANGED <<handlerOwes, channel, timers>>
    BY <1>7 DEF WorkerTelling, browserVars
  <2>2. LeftQueue(t) /\ ~Over(t) /\ (At(t, "cleanup") => Over(t)')
    BY <2>1, WorkerIsAtWork, CleanupIsTheEnd
  <2>3. \/ e = NoEvent
        \/ e \in Event /\ e.task = t /\ (e.event = "terminal" => Over(t)')
    BY <2>2, WorkerEventIsItsOwn
  <2> HIDE DEF e
  <2>4. QED
    BY <1>1, <2>1, <2>2, <2>3, WorkerSaysInOrder
<1>8. QED
  BY <1>2, <1>3, <1>4, <1>5, <1>6, <1>7 DEF Server

LEMMA ConnectionInOrder ==
  ASSUME InductiveInvariant, StreamTypeOK, EventsInOrder, Connection
  PROVE  EventsInOrder'
<1>1. ASSUME NEW t \in Task, EmitWorker(t)
      PROVE  EventsInOrder'
  <2> DEFINE e == workerOwes[t]
  <2>1. /\ e \in Event /\ e.task = t /\ (Publish(e) \/ LinkRaises(e))
        /\ workerOwes' = [workerOwes EXCEPT ![t] = NoEvent]
        /\ handlerOwes' = handlerOwes /\ UNCHANGED <<vars, timers>>
    BY <1>1, SaidEvents DEF EmitWorker, EventsInOrder, WorkersTellTheirOwn, browserVars
  <2>2. /\ workerOwes'[t] = NoEvent
        /\ \A u \in Task : workerOwes'[u] = workerOwes[u] \/ workerOwes'[u] = NoEvent
    BY <2>1 DEF StreamTypeOK
  <2>3. e.event = "terminal" =>
          /\ Over(e.task) /\ workerOwes'[e.task] = NoEvent
          /\ \A h \in Handler :
               ~(handlerOwes'[h].event = "terminal" /\ handlerOwes'[h].task = e.task)
    BY <2>1, <2>2 DEF EventsInOrder, EndIsToldOnce, TellsEnd
  <2>4. \A i \in DOMAIN channel : ~(channel[i].event = "terminal" /\ channel[i].task = t)
    BY <2>1, EventFields DEF EventsInOrder, EndIsToldOnce
  <2> HIDE DEF e
  <2>5. QED
    BY <2>1, <2>2, <2>3, <2>4, PublishIsInOrder
<1>2. ASSUME NEW h \in Handler, EmitHandler(h)
      PROVE  EventsInOrder'
  <2> DEFINE e == handlerOwes[h]
  <2>1. /\ e \in Event /\ Publish(e)
        /\ handlerOwes' = [handlerOwes EXCEPT ![h] = NoEvent]
        /\ workerOwes' = workerOwes /\ UNCHANGED <<vars, timers>>
    BY <1>2, SaidEvents DEF EmitHandler
  <2>2. /\ handlerOwes'[h] = NoEvent
        /\ \A g \in Handler : g # h => handlerOwes'[g] = handlerOwes[g]
    BY <2>1 DEF StreamTypeOK
  <2>3. e.event = "terminal" => TellsEnd(h, e.task) /\ e.task \in Task
    BY <2>1, EventFields DEF TellsEnd
  <2>4. e.event = "terminal" =>
          /\ Over(e.task) /\ workerOwes'[e.task] = NoEvent
          /\ \A g \in Handler :
               ~(handlerOwes'[g].event = "terminal" /\ handlerOwes'[g].task = e.task)
    <3>1. SUFFICES ASSUME e.event = "terminal", NEW g \in Handler
                   PROVE  /\ Over(e.task) /\ workerOwes'[e.task] = NoEvent
                          /\ ~(/\ handlerOwes'[g].event = "terminal"
                               /\ handlerOwes'[g].task = e.task)
      OBVIOUS
    <3>2. /\ Over(e.task) /\ workerOwes[e.task] = NoEvent
          /\ TellsEnd(g, e.task) => g = h
      BY <2>3, <3>1 DEF EventsInOrder, EndIsToldOnce
    <3>3. QED
      BY <2>1, <2>2, <3>2, EventFields DEF TellsEnd
  <2>5. \A i \in DOMAIN channel :
           (channel[i].event = "terminal" /\ channel[i].task = e.task) =>
              e.event = "status" /\ e.status # "running"
    <3>1. SUFFICES ASSUME NEW i \in DOMAIN channel, channel[i].event = "terminal",
                          channel[i].task = e.task
                   PROVE  e.event = "status" /\ e.status # "running"
      OBVIOUS
    <3>2. ~TellsEnd(h, e.task)
      BY <3>1 DEF EventsInOrder, EndIsToldOnce
    <3>3. QED
      BY <2>1, <2>3, <3>2, EventFields DEF EventsInOrder, HandlersTellNoWork
  <2> HIDE DEF e
  <2>6. QED
    BY <2>1, <2>2, <2>4, <2>5, PublishIsInOrder
<1>4. CASE Subscribe
  <2>1. UNCHANGED vars /\ UNCHANGED <<workerOwes, handlerOwes, channel, timers>>
    BY <1>4 DEF Subscribe, serverVars, browserVars
  <2>2. OverStays
    BY <2>1 DEF OverStays, LeftQueue, Over, Front, vars, queueVars
  <2>3. QED
    BY <2>1, <2>2, SilenceIsInOrder
<1>5. CASE Disconnect
  <2>1. UNCHANGED vars /\ UNCHANGED <<workerOwes, handlerOwes, timers>> /\ channel' = <<>>
    BY <1>5 DEF Disconnect, serverVars, browserVars
  <2>2. \A t : /\ LeftQueue(t)' <=> LeftQueue(t)
               /\ Over(t)' <=> Over(t)
    BY <2>1 DEF LeftQueue, Over, Front, vars, queueVars
  <2>3. QED
    BY <2>1, <2>2 DEF EventsInOrder, WorkersTellTheirOwn, HandlersTellNoWork,
           EndIsToldOnce, TerminalEventIsLast, TimersAreOver, TellsEnd
<1>6. QED
  BY <1>1, <1>2, <1>4, <1>5 DEF Connection
\* The next event of the channel, and those behind it.
LEMMA ChannelTail ==
  ASSUME StreamTypeOK, channel # <<>>
  PROVE  /\ Tail(channel) \in Seq(Event) /\ Len(Tail(channel)) = Len(channel) - 1
         /\ 1 \in DOMAIN channel /\ Head(channel) = channel[1]
         /\ \A i \in DOMAIN Tail(channel) :
              i + 1 \in DOMAIN channel /\ Tail(channel)[i] = channel[i + 1]
         /\ \A i \in DOMAIN channel :
              i # 1 => i - 1 \in DOMAIN Tail(channel) /\ Tail(channel)[i - 1] = channel[i]
<1>1. channel \in Seq(Event) /\ Len(channel) \in Nat \ {0} /\ DOMAIN channel = 1..Len(channel)
  BY EmptySeq DEF StreamTypeOK
<1>2. /\ Tail(channel) \in Seq(Event) /\ Len(Tail(channel)) = Len(channel) - 1
      /\ \A i \in 1..Len(Tail(channel)) : Tail(channel)[i] = channel[i + 1]
  BY <1>1, HeadTailProperties
<1>3. DOMAIN Tail(channel) = 1..(Len(channel) - 1)
  BY <1>2
<1>4. Head(channel) = channel[1]
  BY <1>1
<1>5. QED
  BY <1>1, <1>2, <1>3, <1>4

LEMMA BrowserInOrder ==
  ASSUME InductiveInvariant, StreamTypeOK, EventsInOrder, Browser
  PROVE  EventsInOrder'
<1>0. /\ UNCHANGED <<vars, workerOwes, handlerOwes>>
      /\ OverStays /\ \A t : (LeftQueue(t)' <=> LeftQueue(t)) /\ (Over(t)' <=> Over(t))
  <2>1. UNCHANGED <<vars, workerOwes, handlerOwes>>
    BY DEF Browser, Hello, Refresh, Deliver, ServeFetch, FailFetch, ApplySnapshot,
           ApplyCreated, Timeout, serverVars
  <2>2. QED
    BY <2>1 DEF OverStays, LeftQueue, Over, Front, vars, queueVars
<1>1. CASE \/ Hello \/ Refresh
           \/ \E f \in Fetch : ServeFetch(f) \/ FailFetch(f) \/ ApplySnapshot(f)
           \/ \E t \in Task : ApplyCreated(t)
  <2>1. UNCHANGED <<channel, timers>>
    BY <1>1 DEF Hello, Refresh, ServeFetch, FailFetch, ApplySnapshot, ApplyCreated
  <2>2. QED
    BY <1>0, <2>1, SilenceIsInOrder
<1>2. ASSUME NEW t \in Task, Timeout(t)
      PROVE  EventsInOrder'
  <2>1. channel' = channel /\ timers' \subseteq timers
    BY <1>2 DEF Timeout
  <2>2. QED
    BY <1>0, <2>1
       DEF EventsInOrder, WorkersTellTheirOwn, HandlersTellNoWork, EndIsToldOnce,
           TerminalEventIsLast, TimersAreOver, TellsEnd
<1>3. CASE Deliver
  <2>1. /\ channel # <<>> /\ channel' = Tail(channel)
        /\ \/ timers' = timers
           \/ Head(channel).event = "terminal" /\ timers' = timers \cup {Head(channel).task}
    BY <1>3 DEF Deliver, Settle
  <2>2. /\ 1 \in DOMAIN channel /\ Head(channel) = channel[1]
        /\ \A i \in DOMAIN channel' : i + 1 \in DOMAIN channel /\ channel'[i] = channel[i + 1]
        /\ DOMAIN channel' \subseteq Nat
    BY <2>1, ChannelTail
  <2>3. TimersAreOver'
    <3>1. Head(channel).event = "terminal" => Over(Head(channel).task)
      BY <2>2 DEF EventsInOrder, EndIsToldOnce
    <3>2. QED
      BY <1>0, <2>1, <3>1 DEF EventsInOrder, TimersAreOver
  <2>4. TerminalEventIsLast'
    <3>1. SUFFICES ASSUME NEW i \in DOMAIN channel', NEW j \in DOMAIN channel', i < j,
                          channel'[i].event = "terminal",
                          channel'[j].task = channel'[i].task
                   PROVE  channel'[j].event = "status" /\ channel'[j].status # "running"
      BY DEF TerminalEventIsLast
    <3>2. i + 1 < j + 1
      BY <2>2, <3>1
    <3>3. QED
      BY <2>2, <3>1, <3>2 DEF EventsInOrder, TerminalEventIsLast
  <2>5. WorkersTellTheirOwn' /\ HandlersTellNoWork'
    BY <1>0 DEF EventsInOrder, WorkersTellTheirOwn, HandlersTellNoWork
  <2>6. EndIsToldOnce'
    BY <1>0, <2>2 DEF EventsInOrder, EndIsToldOnce, TellsEnd
  <2>7. QED
    BY <2>3, <2>4, <2>5, <2>6 DEF EventsInOrder
<1>4. QED
  BY <1>1, <1>2, <1>3 DEF Browser

LEMMA NextInOrder ==
  ASSUME InductiveInvariant, StreamTypeOK, EventsInOrder, [StreamNext]_allVars
  PROVE  EventsInOrder'
<1>1. ASSUME UNCHANGED allVars
      PROVE  EventsInOrder'
  <2>1. UNCHANGED <<vars, workerOwes, handlerOwes, channel, timers>>
    BY <1>1 DEF allVars, streamVars, serverVars, browserVars
  <2>2. OverStays
    BY <2>1 DEF OverStays, LeftQueue, Over, Front, vars, queueVars
  <2>3. QED
    BY <2>1, <2>2, SilenceIsInOrder
<1>2. QED
  BY <1>1, ServerInOrder, ConnectionInOrder, BrowserInOrder DEF StreamNext

----------------------------------------------------------------------------
\* Types

LEMMA VerdictIsStatus ==
  ASSUME StreamTypeOK, NEW t \in Task, NoteVerdict(t)
  PROVE  verdict' \in [Task -> {"none"} \cup Terminal]
<1>1. \A s \in {"none", "succeeded", "cancelled", "failed", verdict[t]} :
         s \in {"none"} \cup Terminal
  BY DEF StreamTypeOK, Terminal
<1> DEFINE s == CASE At(t, "succeed") /\ row'[t] = "succeeded" /\ faults' = faults
                                                                 -> "succeeded"
                  [] At(t, "cancel") /\ pc'[t] = "cleanup"       -> "cancelled"
                  [] At(t, "fail") /\ pc'[t] = "cleanup"         -> "failed"
                  [] At(t, "cleanup")                            -> "none"
                  [] OTHER                                       -> verdict[t]
<1>2. verdict' = [verdict EXCEPT ![t] = s] \/ verdict' = verdict
  BY DEF NoteVerdict
<1>3. s \in {"none", "succeeded", "cancelled", "failed", verdict[t]}
  OBVIOUS
<1> HIDE DEF s
<1>4. QED
  BY <1>1, <1>2, <1>3 DEF StreamTypeOK

LEMMA ServerTypes ==
  ASSUME StreamTypeOK, TypeOK', Server
  PROVE  StreamTypeOK'
<1> USE DEF StreamTypeOK, serverVars, browserVars
<1>1. ASSUME NEW h \in Handler, NEW e \in Event \cup {NoEvent}, HandlerSays(h, e)
      PROVE  StreamTypeOK'
  BY <1>1 DEF HandlerSays
<1>2. ASSUME NEW t \in Task, NEW priority \in BOOLEAN, NEW h \in Handler,
             SubmitTelling(t, priority, h)
      PROVE  StreamTypeOK'
  <2>1. StatusEvent(t, "queued") \in Event
    BY StatusIsEvent DEF Active
  <2>2. HandlerSays(h, StatusEvent(t, "queued"))
    BY <1>2 DEF SubmitTelling
  <2>3. QED
    BY <1>1, <2>1, <2>2
<1>3. ASSUME NEW i \in DOMAIN pending, NEW h \in Handler, CancelPendingTelling(i, h)
      PROVE  StreamTypeOK'
  <2>1. pending[i] \in Task
    BY DEF TypeOK
  <2>2. UnlessRaised(pending[i], TerminalEvent(pending[i], "cancelled"))
           \in Event \cup {NoEvent}
    BY <2>1, TerminalIsEvent DEF UnlessRaised, Terminal
  <2>3. HandlerSays(h, UnlessRaised(pending[i], TerminalEvent(pending[i], "cancelled")))
    BY <1>3 DEF CancelPendingTelling
  <2>4. QED
    BY <1>1, <2>2, <2>3
<1>4. ASSUME NEW t \in Task, NEW h \in Handler, CancelRunningTelling(t, h)
      PROVE  StreamTypeOK'
  <2>1. UnlessRaised(t, StatusEvent(t, "cancelling")) \in Event \cup {NoEvent}
    BY StatusIsEvent DEF UnlessRaised, Active
  <2>2. HandlerSays(h, UnlessRaised(t, StatusEvent(t, "cancelling")))
    BY <1>4 DEF CancelRunningTelling
  <2>3. QED
    BY <1>1, <2>1, <2>2
<1>5. CASE SilentHandler \/ StopTelling
  BY <1>5 DEF SilentHandler, StopTelling, streamVars
<1>6. CASE ExitTelling
  <2>1. fetches' \in [Fetch -> {Idle, Asked} \cup {Answered(rows) : rows \in Snapshot}]
    BY <1>6 DEF ExitTelling
  <2>2. channel' \in Seq(Event) /\ Len(channel') <= QueueMax
    BY <1>6, StreamAssumption DEF ExitTelling
  <2>3. QED
    BY <1>6, <2>1, <2>2 DEF ExitTelling
<1>7. ASSUME NEW t \in Task, WorkerTelling(t)
      PROVE  StreamTypeOK'
  <2>1. WorkerEvent(t) \in Event \cup {NoEvent}
    BY WorkerEventIsItsOwn
  <2>2. verdict' \in [Task -> {"none"} \cup Terminal]
    BY <1>7, VerdictIsStatus DEF WorkerTelling
  <2>3. QED
    BY <1>7, <2>1, <2>2 DEF WorkerTelling
<1>8. QED
  BY <1>2, <1>3, <1>4, <1>5, <1>6, <1>7 DEF Server

LEMMA PublishTypes ==
  ASSUME StreamTypeOK, NEW e \in Event, Publish(e) \/ LinkRaises(e)
  PROVE  /\ channel' \in Seq(Event) /\ Len(channel') <= QueueMax
         /\ breaks' \in 0..MaxBreaks /\ unrepaired' \subseteq Task
<1>1. channel \in Seq(Event) /\ Len(channel) \in Nat /\ e.task \in Task
  BY EventFields DEF StreamTypeOK
<1>2. CASE stream # "off" /\ Len(channel) < QueueMax /\ channel' = Append(channel, e)
           /\ UNCHANGED <<breaks, unrepaired>>
  <2>1. Len(channel') = Len(channel) + 1 /\ channel' \in Seq(Event)
    BY <1>1, <1>2, AppendProperties
  <2>2. QED
    BY <1>1, <1>2, <2>1, StreamAssumption DEF StreamTypeOK
<1>3. CASE UNCHANGED <<channel, breaks, unrepaired>>
  BY <1>3 DEF StreamTypeOK
<1>4. CASE UNCHANGED channel /\ breaks < MaxBreaks /\ breaks' = breaks + 1
           /\ unrepaired' = unrepaired \cup {e.task}
  BY <1>1, <1>4, StreamAssumption DEF StreamTypeOK
<1>5. QED
  BY <1>2, <1>3, <1>4 DEF Publish, LinkRaises

LEMMA ConnectionTypes ==
  ASSUME StreamTypeOK, EventsInOrder, TypeOK', Connection
  PROVE  StreamTypeOK'
<1> USE DEF serverVars, browserVars
<1>1. ASSUME NEW t \in Task, EmitWorker(t)
      PROVE  StreamTypeOK'
  <2>1. workerOwes[t] \in Event
    BY <1>1, SaidEvents DEF EmitWorker
  <2>2. /\ channel' \in Seq(Event) /\ Len(channel') <= QueueMax
        /\ breaks' \in 0..MaxBreaks /\ unrepaired' \subseteq Task
    BY <1>1, <2>1, PublishTypes DEF EmitWorker
  <2>3. QED
    BY <1>1, <2>2 DEF EmitWorker, StreamTypeOK
<1>2. ASSUME NEW h \in Handler, EmitHandler(h)
      PROVE  StreamTypeOK'
  <2>1. handlerOwes[h] \in Event /\ handlerOwes[h].task \in Task
    BY <1>2, SaidEvents, EventFields DEF EmitHandler
  <2>2. /\ channel' \in Seq(Event) /\ Len(channel') <= QueueMax
        /\ breaks' \in 0..MaxBreaks /\ unrepaired' \subseteq Task
    BY <1>2, <2>1, PublishTypes DEF EmitHandler
  <2>3. created' \subseteq Task
    BY <1>2, <2>1 DEF EmitHandler, StreamTypeOK
  <2>4. QED
    BY <1>2, <2>2, <2>3 DEF EmitHandler, StreamTypeOK
<1>3. CASE Subscribe
  BY <1>3 DEF Subscribe, StreamTypeOK
<1>4. CASE Disconnect
  <2>1. channel' \in Seq(Event) /\ Len(channel') <= QueueMax
    BY <1>4, StreamAssumption DEF Disconnect
  <2>2. QED
    BY <1>4, <2>1, StreamAssumption DEF Disconnect, StreamTypeOK
<1>5. QED
  BY <1>1, <1>2, <1>3, <1>4 DEF Connection

LEMMA FetchTypes ==
  ASSUME StreamTypeOK, NEW f \in Fetch
  PROVE  /\ fetches[f].state = "answered" => fetches[f].rows \in Snapshot
         /\ Ask(f) \/ fetches' = [fetches EXCEPT ![f] = Idle] =>
              fetches' \in [Fetch -> {Idle, Asked} \cup {Answered(rows) : rows \in Snapshot}]
<1>1. fetches[f] \in {Idle, Asked} \cup {Answered(rows) : rows \in Snapshot}
  BY DEF StreamTypeOK
<1>2. fetches[f].state = "answered" => fetches[f].rows \in Snapshot
  BY <1>1 DEF Idle, Asked, Answered
<1>3. QED
  BY <1>2 DEF StreamTypeOK, Ask

LEMMA BrowserTypes ==
  ASSUME StreamTypeOK, TypeOK', Browser
  PROVE  StreamTypeOK'
<1> USE DEF serverVars
<1>0. \A s \in Active : s \in CardStatus
  BY DEF CardStatus
<1>1. CASE Hello \/ Refresh
  <2>1. fetches' \in [Fetch -> {Idle, Asked} \cup {Answered(rows) : rows \in Snapshot}]
    BY <1>1, FetchTypes DEF Hello, Refresh
  <2>2. QED
    BY <1>1, <2>1 DEF Hello, Refresh, StreamTypeOK
<1>2. ASSUME NEW f \in Fetch, ServeFetch(f)
      PROVE  StreamTypeOK'
  <2> DEFINE rows == [t \in Task |-> IF row[t] \in Active THEN row[t] ELSE "none"]
  <2>1. rows \in Snapshot
    BY DEF Snapshot
  <2> HIDE DEF rows
  <2>2. fetches' = [fetches EXCEPT ![f] = Answered(rows)]
    BY <1>2 DEF ServeFetch, rows
  <2>3. fetches' \in [Fetch -> {Idle, Asked} \cup {Answered(r) : r \in Snapshot}]
    BY <2>1, <2>2 DEF StreamTypeOK
  <2>4. QED
    BY <1>2, <2>3 DEF ServeFetch, StreamTypeOK
<1>3. ASSUME NEW f \in Fetch, FailFetch(f)
      PROVE  StreamTypeOK'
  <2>1. fetches' \in [Fetch -> {Idle, Asked} \cup {Answered(rows) : rows \in Snapshot}]
    BY <1>3, FetchTypes DEF FailFetch
  <2>2. QED
    BY <1>3, <2>1, StreamAssumption DEF FailFetch, StreamTypeOK
<1>4. ASSUME NEW f \in Fetch, ApplySnapshot(f)
      PROVE  StreamTypeOK'
  <2>1. fetches' \in [Fetch -> {Idle, Asked} \cup {Answered(rows) : rows \in Snapshot}]
    BY <1>4, FetchTypes DEF ApplySnapshot
  <2>2. cards' \in Snapshot
    BY <1>4, FetchTypes DEF ApplySnapshot
  <2>3. cards' \in [Task -> CardStatus]
    BY <2>2 DEF Snapshot, CardStatus
  <2>4. unrepaired' \subseteq Task
    BY <1>4 DEF ApplySnapshot
  <2>5. QED
    BY <1>4, <2>1, <2>3, <2>4 DEF ApplySnapshot, StreamTypeOK
<1>5. ASSUME NEW t \in Task, ApplyCreated(t) \/ Timeout(t)
      PROVE  StreamTypeOK'
  <2>1. cards' \in [Task -> CardStatus]
    BY <1>5 DEF ApplyCreated, Timeout, Card, StreamTypeOK, CardStatus, Active
  <2>2. QED
    BY <1>5, <2>1 DEF ApplyCreated, Timeout, StreamTypeOK
<1>6. CASE Deliver
  <2> DEFINE e == Head(channel)
  <2>1. /\ channel' \in Seq(Event) /\ Len(channel') <= QueueMax /\ e \in Event
    <3>1. /\ channel # <<>> /\ channel' = Tail(channel)
      BY <1>6 DEF Deliver
    <3>2. /\ channel' \in Seq(Event) /\ Len(channel') = Len(channel) - 1
          /\ 1 \in DOMAIN channel /\ Head(channel) = channel[1]
      BY <3>1, ChannelTail
    <3>3. QED
      BY <3>2, SaidEvents, StreamAssumption DEF StreamTypeOK
  <2>2. /\ UNCHANGED <<vars, verdict, workerOwes, handlerOwes, stream, created, breaks,
                       unrepaired>>
        /\ \/ e.event # "terminal" /\ Update(e) /\ UNCHANGED timers
           \/ e.event = "terminal" /\ Settle(e) /\ UNCHANGED fetches
    BY <1>6 DEF Deliver
  <2> HIDE DEF e
  <2>3. /\ e.task \in Task
        /\ e.event # "terminal" => e.status \in CardStatus
        /\ "none" \in CardStatus /\ "succeeded" \in CardStatus
    BY <1>0, <2>1, EventFields DEF CardStatus
  <2>4. CASE e.event # "terminal" /\ Update(e) /\ UNCHANGED timers
    <3>1. cards' \in [Task -> CardStatus]
      BY <2>3, <2>4 DEF Update, Card, StreamTypeOK
    <3>2. fetches' \in [Fetch -> {Idle, Asked} \cup {Answered(rows) : rows \in Snapshot}]
      BY <2>4, FetchTypes DEF Update, StreamTypeOK
    <3>3. QED
      BY <2>1, <2>2, <2>4, <3>1, <3>2 DEF StreamTypeOK
  <2>5. CASE e.event = "terminal" /\ Settle(e) /\ UNCHANGED fetches
    <3>1. cards' \in [Task -> CardStatus] /\ timers' \subseteq Task
      BY <2>3, <2>5 DEF Settle, Card, StreamTypeOK
    <3>2. QED
      BY <2>1, <2>2, <2>5, <3>1 DEF StreamTypeOK
  <2>6. QED
    BY <2>2, <2>4, <2>5
<1>7. QED
  BY <1>1, <1>2, <1>3, <1>4, <1>5, <1>6 DEF Browser

LEMMA NextTypes ==
  ASSUME InductiveInvariant, StreamTypeOK, EventsInOrder, [StreamNext]_allVars
  PROVE  StreamTypeOK'
<1>1. TypeOK'
  BY StreamStepIsStep, NextInvariant DEF InductiveInvariant
<1>2. CASE UNCHANGED allVars
  BY <1>1, <1>2 DEF allVars, streamVars, serverVars, browserVars, StreamTypeOK
<1>3. QED
  BY <1>1, <1>2, ServerTypes, ConnectionTypes, BrowserTypes DEF StreamNext
----------------------------------------------------------------------------
\* What a worker has to tell when it comes to its cleanup

LEMMA PumpWorkers ==
  ASSUME NEW q, NEW busy, NEW limit, NEW pcs, Pump(q, busy, limit, pcs), NEW t \in Task
  PROVE  pc'[t] = pcs[t] \/ pc'[t] = "dispatched"
BY DEF Pump

\* The worker notes each last status it writes, and keeps it for the cleanup.
LEMMA VerdictIsNoted ==
  ASSUME StreamTypeOK, NEW t \in Task, NoteVerdict(t)
  PROVE  /\ \A u \in Task : u # t => verdict'[u] = verdict[u]
         /\ At(t, "succeed") /\ row'[t] = "succeeded" /\ faults' = faults
            /\ phase # "shut" => verdict'[t] # "none"
         /\ At(t, "cancel") /\ pc'[t] = "cleanup" => verdict'[t] # "none"
         /\ At(t, "fail") /\ pc'[t] = "cleanup" => verdict'[t] # "none"
         /\ verdict[t] # "none" /\ ~At(t, "cleanup") => verdict'[t] # "none"
<1> DEFINE s == CASE At(t, "succeed") /\ row'[t] = "succeeded" /\ faults' = faults
                                                                 -> "succeeded"
                  [] At(t, "cancel") /\ pc'[t] = "cleanup"       -> "cancelled"
                  [] At(t, "fail") /\ pc'[t] = "cleanup"         -> "failed"
                  [] At(t, "cleanup")                            -> "none"
                  [] OTHER                                       -> verdict[t]
<1>1. CASE At(t, "succeed") /\ phase = "shut" /\ UNCHANGED verdict
  BY <1>1 DEF At
<1>2. CASE verdict' = [verdict EXCEPT ![t] = s]
  <2>1. /\ At(t, "succeed") /\ row'[t] = "succeeded" /\ faults' = faults => s # "none"
        /\ At(t, "cancel") /\ pc'[t] = "cleanup" => s # "none"
        /\ At(t, "fail") /\ pc'[t] = "cleanup" => s # "none"
        /\ verdict[t] # "none" /\ ~At(t, "cleanup") => s # "none"
    BY DEF At
  <2> HIDE DEF s
  <2>2. verdict'[t] = s /\ \A u \in Task : u # t => verdict'[u] = verdict[u]
    BY <1>2 DEF StreamTypeOK
  <2>3. QED
    BY <2>1, <2>2
<1>3. QED
  BY <1>1, <1>2 DEF NoteVerdict

\* The steps that end a worker's run, while the process is up and no error is
\* raised: they write the status that the cleanup will tell.
LEMMA LastWriteIsNoted ==
  ASSUME ManagerInvariant, StreamTypeOK, NEW t \in Task, Worker(t), NoteVerdict(t),
         phase = "up", faults' = 0, ~PostRunCleanup(t),
         (row'[t] # row[t] /\ row'[t] # "running") \/ pc'[t] = "cleanup"
  PROVE  verdict'[t] # "none"
<1> USE DEF At, Goto, GotoUnlessCancelled
<1>1. TypeOK /\ row \in [Task -> RowState] /\ pc \in [Task -> WorkerState]
      /\ faults \in Nat
  BY BoundAssumption DEF StreamTypeOK, TypeOK
<1>2. pc[t] \notin {"idle", "dead"} /\ pc[t] # "cleanup"
  BY WorkerIsAtWork DEF ManagerInvariant
<1>3. HasRow(t)
  BY <1>2 DEF ManagerInvariant, InductiveInvariant, WorkerRowActive, HasRow, Active
<1>4. CASE Succeed(t)
  <2>1. SetRow(t, "succeeded") /\ faults' = faults
    BY <1>1, <1>4 DEF Succeed, SetSucceeded, DbRaises, DbOpen
  <2>2. row'[t] = "succeeded" /\ pc[t] = "succeed"
    BY <1>1, <1>3, <1>4, <2>1 DEF SetRow, Succeed
  <2>3. QED
    BY <2>1, <2>2, VerdictIsNoted
<1>5. ASSUME NEW s, Finalize(t, s)
      PROVE  pc'[t] = "cleanup"
  <2>1. ~SetRowRaises(t, s)
    BY <1>1, RaisedUpdateIsFault
  <2>2. QED
    BY <1>1, <1>5, <2>1 DEF Finalize
<1>6. CASE FinalizeCancelled(t) \/ FinalizeFailed(t)
  BY <1>5, <1>6, VerdictIsNoted DEF FinalizeCancelled, FinalizeFailed
<1>7. CASE Preflight(t) \/ Prepare(t) \/ Request(t) \/ Download(t) \/ LastCheck(t)
           \/ Save(t)
  <2>1. row' = row /\ pc'[t] # "cleanup"
    BY <1>1, <1>7
       DEF Preflight, Prepare, Request, Download, LastCheck, Save, OnlyPc
  <2>2. QED
    BY <2>1
<1>8. CASE MarkRunning(t)
  <2>1. pc'[t] # "cleanup" /\ (row'[t] = row[t] \/ row'[t] = "running")
    BY <1>1, <1>8 DEF MarkRunning, SetRow, SetRowRaises
  <2>2. QED
    BY <2>1
<1>9. QED
  BY <1>4, <1>6, <1>7, <1>8 DEF Worker

LEMMA FaultsStay ==
  ASSUME TypeOK, [Next]_vars
  PROVE  faults' = 0 => faults = 0
<1>0. faults \in Nat
  BY BoundAssumption DEF TypeOK
<1>1. Handlers => faults' = faults \/ faults' = faults + 1
  BY DEF Handlers, Submit, CancelPending, CancelRunning, SetConcurrency, SetQueueCap,
         EraseCheck, EraseImage, EraseRow, SetRowRaises, DbRaises, boundVars
<1>2. ASSUME NEW t \in Task, Worker(t)
      PROVE  faults' = faults \/ faults' = faults + 1
  BY <1>2 DEF Worker, Preflight, MarkRunning, Prepare, Request, Download, Save,
         LastCheck, Succeed, FinalizeCancelled, FinalizeFailed, Finalize,
         PostRunCleanup, OnlyPc, SetRowRaises, DbRaises, boundVars
<1>3. Process => faults' = faults
  BY DEF Process, ShutdownCancel, ShutdownExecutor, CloseStorage, Exit, Start, boundVars
<1>4. UNCHANGED vars => faults' = faults
  BY DEF vars, boundVars
<1>5. QED
  BY <1>0, <1>1, <1>2, <1>3, <1>4 DEF Next

LEMMA OthersKeepCleanup ==
  ASSUME InductiveInvariant, Handlers \/ Process \/ UNCHANGED vars, phase' = "up",
         NEW t \in Task, pc'[t] = "cleanup"
  PROVE  pc[t] = "cleanup" /\ phase = "up"
<1>1. CASE \/ \E u \in Task, priority \in BOOLEAN : Submit(u, priority)
           \/ \E n \in ConcurrencyRange : SetConcurrency(n)
  <2>1. \E q, limit : Pump(q, running, limit, pc) /\ phase' = phase
    BY <1>1 DEF Submit, SetConcurrency
  <2>2. QED
    BY <2>1, PumpWorkers
<1>2. CASE \/ \E i \in DOMAIN pending : CancelPending(i)
           \/ \E u \in Task : CancelRunning(u)
           \/ \E n \in QueueCapRange : SetQueueCap(n)
           \/ \E u \in Task : EraseCheck(u) \/ EraseImage(u) \/ EraseRow(u)
           \/ UNCHANGED vars
  BY <1>2 DEF CancelPending, CancelRunning, SetQueueCap, EraseCheck, EraseImage,
              EraseRow, queueVars, vars
<1>3. CASE Process
  BY <1>3 DEF Process, ShutdownCancel, ShutdownExecutor, CloseStorage, Exit, Start,
              InductiveInvariant, DownIsEmpty, queueVars
<1>4. QED
  BY <1>1, <1>2, <1>3 DEF Handlers

LEMMA NextVerdict ==
  ASSUME ManagerInvariant, StreamTypeOK, VerdictAtCleanup, [StreamNext]_allVars
  PROVE  VerdictAtCleanup'
<1>0. InductiveInvariant /\ TypeOK /\ [Next]_vars
  BY StreamStepIsStep DEF ManagerInvariant, StreamTypeOK
<1>1. SUFFICES ASSUME phase' = "up", faults' = 0, NEW t \in Task, pc'[t] = "cleanup"
               PROVE  verdict'[t] # "none"
  BY DEF VerdictAtCleanup, At
<1>2. faults = 0
  BY <1>0, <1>1, FaultsStay
<1>3. ASSUME Handlers \/ Process \/ UNCHANGED vars, ~Exit, verdict' = verdict
      PROVE  verdict'[t] # "none"
  <2>1. pc[t] = "cleanup" /\ phase = "up"
    BY <1>0, <1>1, <1>3, OthersKeepCleanup
  <2>2. QED
    BY <1>2, <1>3, <2>1 DEF VerdictAtCleanup, At
<1>4. ASSUME NEW u \in Task, WorkerTelling(u)
      PROVE  verdict'[t] # "none"
  <2>1. Worker(u) /\ NoteVerdict(u)
    BY <1>4 DEF WorkerTelling
  <2>2. phase = "up" /\ pc \in [Task -> WorkerState]
    BY <1>0, <1>1, <2>1
       DEF Worker, Preflight, MarkRunning, Prepare, Request, Download, Save, TypeOK,
           LastCheck, Succeed, FinalizeCancelled, FinalizeFailed, Finalize,
           PostRunCleanup, OnlyPc
  <2>3. CASE PostRunCleanup(u)
    <3> DEFINE pcs == [pc EXCEPT ![u] = "idle"]
    <3>1. Pump(pending, running \ {u}, concurrency, pcs)
      BY <2>3 DEF PostRunCleanup
    <3>2. pcs[u] = "idle" /\ \A v \in Task : v # u => pcs[v] = pc[v]
      BY <2>2
    <3> HIDE DEF pcs
    <3>3. u # t /\ pc[t] = "cleanup"
      BY <1>1, <3>1, <3>2, PumpWorkers
    <3>4. QED
      BY <1>2, <2>1, <2>2, <3>3, VerdictIsNoted DEF VerdictAtCleanup, At
  <2>4. CASE ~PostRunCleanup(u) /\ u = t
    BY <1>1, <2>1, <2>2, <2>4, LastWriteIsNoted
  <2>5. CASE ~PostRunCleanup(u) /\ u # t
    <3>1. pc'[t] = pc[t]
      BY <2>1, <2>2, <2>5
         DEF Worker, Preflight, MarkRunning, Prepare, Request, Download, Save,
             LastCheck, Succeed, FinalizeCancelled, FinalizeFailed, Finalize,
             Goto, GotoUnlessCancelled
    <3>2. QED
      BY <1>1, <1>2, <2>1, <2>2, <2>5, <3>1, VerdictIsNoted DEF VerdictAtCleanup, At
  <2>6. QED
    BY <2>3, <2>4, <2>5
<1>5. CASE Server
  <2>1. CASE ExitTelling
    BY <1>1, <2>1 DEF ExitTelling, Exit
  <2>2. CASE \/ \E u \in Task, priority \in BOOLEAN, h \in Handler :
                  SubmitTelling(u, priority, h)
             \/ \E i \in DOMAIN pending, h \in Handler : CancelPendingTelling(i, h)
             \/ \E u \in Task, h \in Handler : CancelRunningTelling(u, h)
             \/ SilentHandler \/ StopTelling
    <3>1. verdict' = verdict
      BY <2>2 DEF SubmitTelling, CancelPendingTelling, CancelRunningTelling,
                  HandlerSays, SilentHandler, StopTelling, streamVars, serverVars
    <3>2. Handlers \/ Process
      BY <2>2 DEF SubmitTelling, CancelPendingTelling, CancelRunningTelling,
                  SilentHandler, StopTelling, Handlers, Process
    <3>3. ~Exit
      BY <1>1 DEF Exit
    <3>4. QED
      BY <1>3, <3>1, <3>2, <3>3
  <2>3. QED
    BY <1>4, <1>5, <2>1, <2>2 DEF Server
<1>6. CASE Connection \/ Browser \/ UNCHANGED allVars
  <2>1. UNCHANGED vars /\ verdict' = verdict
    BY <1>6 DEF Connection, EmitWorker, EmitHandler, Subscribe, Disconnect, Browser,
           Hello, Refresh, Deliver, ServeFetch, FailFetch, ApplySnapshot,
           ApplyCreated, Timeout, allVars, streamVars, serverVars
  <2>2. ~Exit
    BY <1>1 DEF Exit
  <2>3. QED
    BY <1>3, <2>1, <2>2
<1>7. QED
  BY <1>5, <1>6 DEF StreamNext
----------------------------------------------------------------------------
\* The list of the browser: the steps of the server

\* What the step does to the row is on its way to the list, and nothing that
\* was is lost.
ChangeIsTold(t) ==
  /\ TerminalComing(t) => TerminalComing(t)'
  /\ Coming(t) # {} => Coming(t)' # {}
  /\ ~Ended(t) /\ Ended(t)' => TerminalComing(t)'
  /\ Ended(t) /\ ~Ended(t)' => Coming(t)' # {}

LEMMA ComingMeans ==
  ASSUME NEW t, NEW e
  PROVE  /\ e \in Coming(t) <=>
              /\ e \in Event /\ e.task = t
              /\ \/ \E u \in Task : workerOwes[u] = e
                 \/ \E h \in Handler : handlerOwes[h] = e
                 \/ \E i \in DOMAIN channel : channel[i] = e
         /\ e \in Coming(t)' <=>
              /\ e \in Event /\ e.task = t
              /\ \/ \E u \in Task : workerOwes'[u] = e
                 \/ \E h \in Handler : handlerOwes'[h] = e
                 \/ \E i \in DOMAIN channel' : channel'[i] = e
BY DEF Coming, Owed

\* As long as nobody's event gives way to another and the channel keeps what
\* is about the task, it stays on its way.
LEMMA ComingStays ==
  ASSUME NEW t,
         \A u \in Task : workerOwes[u] \in Event /\ workerOwes[u].task = t =>
            \/ workerOwes'[u] = workerOwes[u]
            \/ \E i \in DOMAIN channel' : channel'[i] = workerOwes[u],
         \A h \in Handler : handlerOwes[h] \in Event /\ handlerOwes[h].task = t =>
            \/ handlerOwes'[h] = handlerOwes[h]
            \/ \E i \in DOMAIN channel' : channel'[i] = handlerOwes[h],
         \A i \in DOMAIN channel : channel[i].task = t =>
            \E j \in DOMAIN channel' : channel'[j] = channel[i]
  PROVE  Coming(t) \subseteq Coming(t)'
<1>1. SUFFICES ASSUME NEW e, e \in Coming(t)
               PROVE  e \in Coming(t)'
  OBVIOUS
<1>2. /\ e \in Event /\ e.task = t
      /\ \/ \E u \in Task : workerOwes[u] = e
         \/ \E h \in Handler : handlerOwes[h] = e
         \/ \E i \in DOMAIN channel : channel[i] = e
  BY <1>1, ComingMeans
<1>3. \/ \E u \in Task : workerOwes'[u] = e
      \/ \E h \in Handler : handlerOwes'[h] = e
      \/ \E i \in DOMAIN channel' : channel'[i] = e
  BY <1>2
<1>4. QED
  BY <1>2, <1>3, ComingMeans

\* The row of a task the queue has done with will not call for a card.
LEMMA OverIsEnded ==
  ASSUME ManagerInvariant, phase = "up", faults = 0, NEW t \in Task, Over(t)
  PROVE  Ended(t)
<1>1. ~Owned(t)
  BY DEF Owned, Over, LeftQueue
<1>2. row[t] \notin {"queued", "running"} /\ t \notin running
  BY <1>1 DEF ManagerInvariant, RowsInvariant, QueuedOrRunningOwned, Over
<1>3. QED
  BY <1>2 DEF Ended, Stuck, Active

LEMMA SameRowEnded ==
  ASSUME NEW t, row'[t] = row[t],
         row[t] = "cancelling" => (t \in running' <=> t \in running)
  PROVE  Ended(t)' <=> Ended(t)
BY DEF Ended, Stuck

\* _pump_locked gives slots to queued tasks only.
LEMMA PumpKeepsEnded ==
  ASSUME NEW q, NEW busy \in SUBSET Task, IsFiniteSet(busy), FreshQueue(q, busy),
         NEW limit \in Nat \ {0}, NEW pcs \in [Task -> WorkerState],
         Pump(q, busy, limit, pcs), \A i \in DOMAIN q : row'[q[i]] = "queued",
         NEW t, row'[t] = row[t], t \in busy <=> t \in running
  PROVE  Ended(t)' <=> Ended(t)
<1>1. PICK n \in 0..Len(q) : running' = busy \cup Front(q, n)
  BY PumpFacts
<1>2. \A u \in Front(q, n) : \E j \in DOMAIN q : u = q[j]
  BY DEF Front, FreshQueue
<1>3. row[t] = "cancelling" => (t \in running' <=> t \in running)
  BY <1>1, <1>2
<1>4. QED
  BY <1>3, SameRowEnded

\* A handler's event joins what is on its way.
LEMMA HandlerTells ==
  ASSUME StreamTypeOK, NEW h \in Handler, NEW e, HandlerSays(h, e), NEW t \in Task
  PROVE  /\ TerminalComing(t) => TerminalComing(t)'
         /\ Coming(t) # {} => Coming(t)' # {}
         /\ e \in Event /\ e.task = t => e \in Coming(t)'
<1>1. /\ handlerOwes[h] = NoEvent /\ handlerOwes' = [handlerOwes EXCEPT ![h] = e]
      /\ UNCHANGED <<verdict, workerOwes, channel>>
  BY DEF HandlerSays
<1>2. handlerOwes'[h] = e /\ \A g \in Handler : g # h => handlerOwes'[g] = handlerOwes[g]
  BY <1>1 DEF StreamTypeOK
<1>3. Coming(t) \subseteq Coming(t)'
  BY <1>1, <1>2, EventFields, ComingStays
<1>4. e \in Event /\ e.task = t => e \in Coming(t)'
  BY <1>2, ComingMeans
<1>5. QED
  BY <1>1, <1>3, <1>4 DEF TerminalComing

LEMMA SilenceTells ==
  ASSUME UNCHANGED <<verdict, workerOwes, handlerOwes, channel>>, NEW t
  PROVE  /\ TerminalComing(t) => TerminalComing(t)'
         /\ Coming(t) # {} => Coming(t)' # {}
BY DEF TerminalComing, Coming, Owed

LEMMA SubmitTold ==
  ASSUME ManagerInvariant, StreamTypeOK, NEW u \in Task, NEW priority \in BOOLEAN,
         NEW h \in Handler, SubmitTelling(u, priority, h), NEW t \in Task
  PROVE  ChangeIsTold(t)
<1>0. /\ FreshQueue(pending, running) /\ running \in SUBSET Task
      /\ IsFiniteSet(running) /\ TypeOK /\ pending \in Seq(Task)
      /\ pc \in [Task -> WorkerState] /\ concurrency \in Nat \ {0}
      /\ row \in [Task -> RowState] /\ InductiveInvariant
  BY HeldFresh DEF ManagerInvariant, InductiveInvariant, TypeOK
<1> DEFINE q == IF priority THEN <<u>> \o pending ELSE Append(pending, u)
<1>1. /\ Pump(q, running, concurrency, pc) /\ row[u] = "new"
      /\ row' = [row EXCEPT ![u] = "queued"] /\ HandlerSays(h, StatusEvent(u, "queued"))
  BY DEF Submit, SubmitTelling
<1>2. u \notin running /\ \A i \in DOMAIN pending : pending[i] # u
  BY <1>0, <1>1 DEF InductiveInvariant, RunningKnown, PendingIsQueued
<1>3. q = <<u>> \o pending \/ q = Append(pending, u)
  OBVIOUS
<1> HIDE DEF q
<1>4. /\ FreshQueue(q, running)
      /\ \A i \in DOMAIN q : q[i] = u \/ \E j \in DOMAIN pending : q[i] = pending[j]
  BY <1>0, <1>2, <1>3, SubmitFresh
<1>5. \A i \in DOMAIN q : row'[q[i]] = "queued"
  BY <1>0, <1>1, <1>4 DEF InductiveInvariant, PendingIsQueued
<1>6. /\ TerminalComing(t) => TerminalComing(t)'
      /\ Coming(t) # {} => Coming(t)' # {}
  BY <1>1, HandlerTells
<1>7. CASE t = u
  <2>1. ~Ended(t)'
    BY <1>0, <1>1, <1>7 DEF Ended, Stuck, Active
  <2>2. StatusEvent(u, "queued") \in Event /\ StatusEvent(u, "queued").task = u
    BY StatusIsEvent DEF Active
  <2>3. Coming(t)' # {}
    BY <1>1, <1>7, <2>2, HandlerTells
  <2>4. QED
    BY <1>6, <2>1, <2>3 DEF ChangeIsTold
<1>8. CASE t # u
  <2>1. Ended(t)' <=> Ended(t)
    BY <1>0, <1>1, <1>4, <1>5, <1>8, PumpKeepsEnded
  <2>2. QED
    BY <1>6, <2>1 DEF ChangeIsTold
<1>9. QED
  BY <1>7, <1>8

LEMMA CancelPendingTold ==
  ASSUME ManagerInvariant, StreamTypeOK, NEW i \in DOMAIN pending, NEW h \in Handler,
         CancelPendingTelling(i, h), faults' = 0, NEW t \in Task
  PROVE  ChangeIsTold(t)
<1>0. /\ TypeOK /\ row \in [Task -> RowState] /\ faults \in Nat
      /\ pending[i] \in Task /\ row[pending[i]] = "queued" /\ [Next]_vars
  BY BoundAssumption DEF ManagerInvariant, InductiveInvariant, TypeOK, PendingIsQueued,
         CancelPendingTelling, Next, Handlers
<1>1. PICK u \in Task : u = pending[i]
  BY <1>0
<1>2. /\ running' = running /\ phase = "up"
      /\ SetRow(u, "cancelled") \/ SetRowRaises(u, "cancelled")
      /\ HandlerSays(h, UnlessRaised(u, TerminalEvent(u, "cancelled")))
  BY <1>1 DEF CancelPending, CancelPendingTelling
<1>3. faults = 0 /\ ~SetRowRaises(u, "cancelled")
  BY <1>0, <1>2, FaultsStay, RaisedUpdateIsFault
<1>4. row' = [row EXCEPT ![u] = "cancelled"] /\ HasRow(u)
  BY <1>0, <1>1, <1>2, <1>3 DEF SetRow, HasRow
<1>5. HandlerSays(h, TerminalEvent(u, "cancelled"))
  BY <1>2, <1>3, <1>4 DEF UnlessRaised
<1>6. /\ TerminalComing(t) => TerminalComing(t)'
      /\ Coming(t) # {} => Coming(t)' # {}
  BY <1>5, HandlerTells
<1>7. CASE t = u
  <2>1. Ended(t)'
    BY <1>0, <1>4, <1>7 DEF Ended, Active
  <2>2. /\ TerminalEvent(u, "cancelled") \in Event
        /\ TerminalEvent(u, "cancelled").event = "terminal"
        /\ TerminalEvent(u, "cancelled").task = u
    BY TerminalIsEvent DEF Terminal
  <2>3. TerminalEvent(u, "cancelled") \in Coming(t)'
    BY <1>5, <1>7, <2>2, HandlerTells
  <2>4. TerminalComing(t)'
    BY <2>2, <2>3 DEF TerminalComing
  <2>5. QED
    BY <1>6, <2>1, <2>4 DEF ChangeIsTold
<1>8. CASE t # u
  <2>1. Ended(t)' <=> Ended(t)
    BY <1>0, <1>2, <1>4, <1>8, SameRowEnded
  <2>2. QED
    BY <1>6, <2>1 DEF ChangeIsTold
<1>9. QED
  BY <1>7, <1>8

LEMMA CancelRunningTold ==
  ASSUME ManagerInvariant, StreamTypeOK, NEW u \in Task, NEW h \in Handler,
         CancelRunningTelling(u, h), faults' = 0, NEW t \in Task
  PROVE  ChangeIsTold(t)
<1>0. /\ TypeOK /\ row \in [Task -> RowState] /\ faults \in Nat /\ [Next]_vars
  BY BoundAssumption DEF StreamTypeOK, TypeOK, CancelRunningTelling, Next, Handlers
<1>1. /\ running' = running /\ phase = "up" /\ u \in running
      /\ SetRow(u, "cancelling") \/ SetRowRaises(u, "cancelling")
      /\ HandlerSays(h, UnlessRaised(u, StatusEvent(u, "cancelling")))
  BY DEF CancelRunning, CancelRunningTelling
<1>2. faults = 0 /\ ~SetRowRaises(u, "cancelling")
  BY <1>0, <1>1, FaultsStay, RaisedUpdateIsFault
<1>3. /\ row' = IF HasRow(u) THEN [row EXCEPT ![u] = "cancelling"] ELSE row
      /\ faults' = faults
  BY <1>1, <1>2 DEF SetRow
<1>4. /\ TerminalComing(t) => TerminalComing(t)'
      /\ Coming(t) # {} => Coming(t)' # {}
  BY <1>1, HandlerTells
<1>5. CASE t = u /\ HasRow(u)
  <2>1. ~Ended(t)'
    BY <1>0, <1>1, <1>3, <1>5 DEF Ended, Stuck, Active
  <2>2. HandlerSays(h, StatusEvent(u, "cancelling"))
    BY <1>1, <1>3, <1>5 DEF UnlessRaised
  <2>3. StatusEvent(u, "cancelling") \in Event /\ StatusEvent(u, "cancelling").task = u
    BY StatusIsEvent DEF Active
  <2>4. Coming(t)' # {}
    BY <1>5, <2>2, <2>3, HandlerTells
  <2>5. QED
    BY <1>4, <2>1, <2>4 DEF ChangeIsTold
<1>6. CASE t # u \/ ~HasRow(u)
  <2>1. Ended(t)' <=> Ended(t)
    BY <1>0, <1>1, <1>3, <1>6, SameRowEnded
  <2>2. QED
    BY <1>4, <2>1 DEF ChangeIsTold
<1>7. QED
  BY <1>5, <1>6

LEMMA SilentTold ==
  ASSUME ManagerInvariant, StreamTypeOK, VerdictAtCleanup, SilentHandler,
         phase = "up", faults' = 0, NEW t \in Task
  PROVE  ChangeIsTold(t)
<1>0. /\ FreshQueue(pending, running) /\ running \in SUBSET Task
      /\ IsFiniteSet(running) /\ TypeOK /\ pending \in Seq(Task)
      /\ pc \in [Task -> WorkerState] /\ row \in [Task -> RowState]
      /\ InductiveInvariant /\ [Next]_vars
  BY HeldFresh DEF ManagerInvariant, InductiveInvariant, TypeOK, SilentHandler, Next,
         Handlers
<1>1. faults = 0
  BY <1>0, FaultsStay
<1>2. UNCHANGED streamVars
  BY DEF SilentHandler
<1>3. /\ TerminalComing(t) => TerminalComing(t)'
      /\ Coming(t) # {} => Coming(t)' # {}
  BY <1>2, SilenceTells DEF streamVars, serverVars
<1>4. ASSUME NEW n \in ConcurrencyRange, SetConcurrency(n)
      PROVE  ChangeIsTold(t)
  <2>1. /\ Pump(pending, running, n, pc) /\ n \in Nat \ {0} /\ row' = row
    BY <1>4, ConfigAssumption DEF SetConcurrency, ConcurrencyRange
  <2>2. \A i \in DOMAIN pending : row'[pending[i]] = "queued"
    BY <1>0, <2>1 DEF InductiveInvariant, PendingIsQueued
  <2>3. Ended(t)' <=> Ended(t)
    BY <1>0, <2>1, <2>2, PumpKeepsEnded
  <2>4. QED
    BY <1>3, <2>3 DEF ChangeIsTold
<1>5. ASSUME NEW u \in Task, EraseRow(u), row'[t] # row[t]
      PROVE  ChangeIsTold(t)
  <2>1. /\ u = t /\ row'[t] = "deleted" /\ erasing[t] = "row"
    BY <1>0, <1>5 DEF EraseRow
  <2>2. Ended(t)'
    BY <2>1 DEF Ended, Active
  <2>3. ASSUME ~Ended(t)
        PROVE  TerminalComing(t)
    <3>1. row[t] \in Active /\ (row[t] = "cancelling" => t \in running)
      BY <2>3 DEF Ended, Stuck
    <3>2. /\ pc[t] \in {"idle", "cleanup", "dead"}
          /\ \A i \in DOMAIN pending : pending[i] # t
      BY <1>0, <2>1 DEF InductiveInvariant, ErasingSettled
    <3>3. t \in running
      <4>1. row[t] \in {"queued", "running"} => Owned(t)
        BY <1>1 DEF ManagerInvariant, RowsInvariant, QueuedOrRunningOwned
      <4>2. QED
        BY <1>0, <3>1, <3>2, <4>1, OwnedMeans DEF Active
    <3>4. pc[t] = "cleanup"
      BY <1>0, <1>1, <3>2, <3>3 DEF ManagerInvariant, RowsInvariant, SlotHasWorker, At
    <3>5. verdict[t] # "none"
      BY <1>1, <3>4 DEF VerdictAtCleanup, At
    <3>6. QED
      BY <3>5 DEF TerminalComing
  <2>4. QED
    BY <1>3, <2>2, <2>3 DEF ChangeIsTold
<1>6. ASSUME row'[t] = row[t], running' = running
      PROVE  ChangeIsTold(t)
  <2>1. Ended(t)' <=> Ended(t)
    BY <1>6, SameRowEnded
  <2>2. QED
    BY <1>3, <2>1 DEF ChangeIsTold
<1>7. ASSUME NEW u \in Task, EraseRow(u)
      PROVE  running' = running
  BY <1>7 DEF EraseRow, queueVars
<1>8. ASSUME \/ \E n \in QueueCapRange : SetQueueCap(n)
             \/ \E u \in Task : EraseCheck(u) \/ EraseImage(u)
      PROVE  row' = row /\ running' = running
  BY <1>8 DEF SetQueueCap, EraseCheck, EraseImage, queueVars
<1>9. QED
  BY <1>4, <1>5, <1>6, <1>7, <1>8 DEF SilentHandler
LEMMA WorkerTold ==
  ASSUME ManagerInvariant, StreamTypeOK, VerdictAtCleanup, NEW u \in Task,
         WorkerTelling(u), phase = "up", faults' = 0, NEW t \in Task
  PROVE  ChangeIsTold(t)
<1>0. /\ FreshQueue(pending, running) /\ running \in SUBSET Task
      /\ IsFiniteSet(running) /\ TypeOK /\ pending \in Seq(Task)
      /\ pc \in [Task -> WorkerState] /\ row \in [Task -> RowState]
      /\ concurrency \in Nat \ {0}
      /\ InductiveInvariant /\ [Next]_vars
  BY HeldFresh DEF ManagerInvariant, InductiveInvariant, TypeOK, WorkerTelling, Next
<1>1. /\ Worker(u) /\ NoteVerdict(u) /\ workerOwes[u] = NoEvent
      /\ workerOwes' = [workerOwes EXCEPT ![u] = WorkerEvent(u)]
      /\ UNCHANGED <<handlerOwes, channel>>
  BY DEF WorkerTelling
<1>2. faults = 0
  BY <1>0, FaultsStay
<1>3. /\ workerOwes'[u] = WorkerEvent(u)
      /\ \A v \in Task : v # u => workerOwes'[v] = workerOwes[v]
  BY <1>1 DEF StreamTypeOK
<1>4. Coming(t) \subseteq Coming(t)'
  BY <1>1, <1>3, EventFields, ComingStays
<1>5. CASE PostRunCleanup(u)
  <2>1. pc[u] = "cleanup" /\ verdict[u] # "none" /\ verdict[u] \in Terminal
    BY <1>2, <1>5 DEF PostRunCleanup, VerdictAtCleanup, At, StreamTypeOK
  <2>2. ~CleanupRaises
    BY DEF CleanupRaises, ExecutorOpen
  <2>3. WorkerEvent(u) = TerminalEvent(u, verdict[u])
    BY <2>1, <2>2 DEF WorkerEvent, Passed, At
  <2>4. /\ TerminalEvent(u, verdict[u]) \in Event
        /\ TerminalEvent(u, verdict[u]).event = "terminal"
        /\ TerminalEvent(u, verdict[u]).task = u
    BY <2>1, TerminalIsEvent
  <2>5. TerminalEvent(u, verdict[u]) \in Coming(u)'
    BY <1>3, <2>3, <2>4, ComingMeans
  <2>6. TerminalComing(u)' /\ Coming(u)' # {}
    BY <2>4, <2>5 DEF TerminalComing
  <2>7. CASE t # u
    <3> DEFINE pcs == [pc EXCEPT ![u] = "idle"]
    <3>1. Pump(pending, running \ {u}, concurrency, pcs) /\ row' = row
      BY <1>5 DEF PostRunCleanup
    <3>2. /\ running \ {u} \in SUBSET Task /\ IsFiniteSet(running \ {u})
          /\ FreshQueue(pending, running \ {u}) /\ pcs \in [Task -> WorkerState]
      BY <1>0, FS_RemoveElement DEF FreshQueue, WorkerState
    <3> HIDE DEF pcs
    <3>3. \A i \in DOMAIN pending : row'[pending[i]] = "queued"
      BY <1>0, <3>1 DEF InductiveInvariant, PendingIsQueued
    <3>4. t \in running \ {u} <=> t \in running
      BY <2>7
    <3>5. row'[t] = row[t]
      BY <3>1
    <3>6. Ended(t)' <=> Ended(t)
      BY <1>0, <3>1, <3>2, <3>3, <3>4, <3>5, PumpKeepsEnded
    <3>7. verdict'[t] = verdict[t]
      BY <1>1, <2>7, VerdictIsNoted
    <3>8. QED
      BY <1>4, <3>6, <3>7 DEF ChangeIsTold, TerminalComing
  <2>8. QED
    BY <2>6, <2>7 DEF ChangeIsTold
<1>6. CASE ~PostRunCleanup(u)
  <2>1. /\ running' = running
        /\ \A v \in Task : v # u => row'[v] = row[v]
    BY <1>0, <1>1, <1>6
       DEF Worker, Preflight, MarkRunning, Prepare, Request, Download, Save,
           LastCheck, Succeed, SetSucceeded, FinalizeCancelled, FinalizeFailed,
           Finalize, OnlyPc, SetRow, SetRowRaises
  <2>2. verdict[t] # "none" => verdict'[t] # "none"
    BY <1>0, <1>1, <1>6, VerdictIsNoted, WorkerIsAtWork
  <2>3. TerminalComing(t) => TerminalComing(t)'
    BY <1>4, <2>2 DEF TerminalComing
  <2>4. CASE t # u
    <3>1. Ended(t)' <=> Ended(t)
      BY <2>1, <2>4, SameRowEnded
    <3>2. QED
      BY <1>4, <2>3, <3>1 DEF ChangeIsTold
  <2>5. CASE t = u
    <3>1. u \in running /\ row[u] \in Active
      BY <1>0, <1>1, <1>6, WorkerIsAtWork DEF InductiveInvariant, WorkerRowActive, At
    <3>2. ~Ended(u)
      BY <3>1 DEF Ended, Stuck
    <3>3. ASSUME Ended(u)'
          PROVE  TerminalComing(u)'
      <4>1. row'[u] \notin Active
        BY <2>1, <3>1, <3>3 DEF Ended, Stuck
      <4>2. row'[u] # row[u] /\ row'[u] # "running"
        BY <3>1, <4>1 DEF Active
      <4>3. verdict'[u] # "none"
        BY <1>1, <1>6, <4>2, LastWriteIsNoted
      <4>4. QED
        BY <4>3 DEF TerminalComing
    <3>4. QED
      BY <1>4, <2>3, <2>5, <3>2, <3>3 DEF ChangeIsTold
  <2>6. QED
    BY <2>4, <2>5
<1>7. QED
  BY <1>5, <1>6

----------------------------------------------------------------------------
\* The list of the browser: all steps

\* A step that tells what it changes and leaves card and timeout alone.
LEMMA ToldIsRepaired ==
  ASSUME NEW t \in Task, CardIsRepaired(t), ChangeIsTold(t), cards'[t] = cards[t],
         t \in timers => t \in timers'
  PROVE  CardIsRepaired(t)'
BY DEF CardIsRepaired, ChangeIsTold

LEMMA ServerKeepsPhase ==
  ASSUME Server, ~StopTelling, ~ExitTelling
  PROVE  phase' = phase
<1>1. Handlers => phase' = phase
  BY DEF Handlers, Submit, CancelPending, CancelRunning, SetConcurrency, SetQueueCap,
         EraseCheck, EraseImage, EraseRow
<1>2. ASSUME NEW u \in Task, Worker(u)
      PROVE  phase' = phase
  BY <1>2 DEF Worker, Preflight, MarkRunning, Prepare, Request, Download, Save,
         LastCheck, Succeed, FinalizeCancelled, FinalizeFailed, Finalize,
         PostRunCleanup, OnlyPc
<1>3. Handlers \/ \E u \in Task : Worker(u)
  BY DEF Server, SubmitTelling, CancelPendingTelling, CancelRunningTelling,
         SilentHandler, WorkerTelling, Handlers
<1>4. QED
  BY <1>1, <1>2, <1>3

LEMMA ServerRepairs ==
  ASSUME ManagerInvariant, StreamTypeOK, VerdictAtCleanup, DownIsOff, ListIsRepaired,
         Server
  PROVE  ListIsRepaired'
<1>1. SUFFICES ASSUME ListServed', NEW t \in Task \ unrepaired'
               PROVE  CardIsRepaired(t)'
  BY DEF ListIsRepaired
<1>2. phase' = "up" /\ stream' = "open" /\ faults' = 0
  BY <1>1 DEF ListServed
<1>3. TypeOK /\ [Next]_vars
  BY StreamStepIsStep DEF StreamNext, StreamTypeOK
<1>4. ~ExitTelling
  BY <1>2 DEF ExitTelling, Exit
<1>5. UNCHANGED <<stream, cards, fetches, timers, unrepaired>>
  BY <1>4 DEF Server, SubmitTelling, CancelPendingTelling, CancelRunningTelling,
         HandlerSays, SilentHandler, StopTelling, WorkerTelling, streamVars,
         browserVars
<1>6. ~StopTelling
  BY <1>2, <1>5 DEF StopTelling, ShutdownCancel, ShutdownExecutor, CloseStorage,
         Start, DownIsOff
<1>7. phase = "up"
  BY <1>2, <1>4, <1>6, ServerKeepsPhase
<1>8. faults = 0
  BY <1>2, <1>3, FaultsStay
<1>9. CardIsRepaired(t)
  BY <1>1, <1>2, <1>5, <1>7, <1>8 DEF ListIsRepaired, ListServed
<1>10. ChangeIsTold(t)
  BY <1>2, <1>4, <1>6, <1>7, SubmitTold, CancelPendingTold, CancelRunningTold,
     SilentTold, WorkerTold DEF Server
<1>11. QED
  BY <1>5, <1>9, <1>10, ToldIsRepaired

\* Steps of connection and browser do nothing to the row.
LEMMA SameTask ==
  ASSUME UNCHANGED <<vars, verdict>>, NEW t
  PROVE  /\ Ended(t)' <=> Ended(t)
         /\ Coming(t) \subseteq Coming(t)' => ChangeIsTold(t)
<1>1. Ended(t)' <=> Ended(t)
  BY DEF Ended, Stuck, vars, queueVars
<1>2. QED
  BY <1>1 DEF ChangeIsTold, TerminalComing

\* An event is sent, or its task is noted as left wrong.
LEMMA PublishRepairs ==
  ASSUME StreamTypeOK, ListIsRepaired, NEW e \in Event, Publish(e) \/ LinkRaises(e),
         UNCHANGED <<vars, verdict, stream, cards, fetches, timers>>,
         \A u \in Task : workerOwes'[u] = workerOwes[u] \/ workerOwes[u] = e,
         \A h \in Handler : handlerOwes'[h] = handlerOwes[h] \/ handlerOwes[h] = e
  PROVE  ListIsRepaired'
<1>1. SUFFICES ASSUME ListServed', NEW t \in Task \ unrepaired'
               PROVE  CardIsRepaired(t)'
  BY DEF ListIsRepaired
<1>2. ListServed /\ stream = "open"
  BY <1>1 DEF ListServed, vars, boundVars
<1>3. channel \in Seq(Event) /\ DOMAIN channel = 1..Len(channel) /\ Len(channel) \in Nat
  BY SaidEvents DEF StreamTypeOK
<1>4. /\ t \notin unrepaired
      /\ \A i \in DOMAIN channel : \E j \in DOMAIN channel' : channel'[j] = channel[i]
      /\ e.task = t => \E j \in DOMAIN channel' : channel'[j] = e
  <2>1. CASE channel' = Append(channel, e) /\ unrepaired' = unrepaired
    <3>1. /\ Len(channel') = Len(channel) + 1 /\ channel' \in Seq(Event)
          /\ \A i \in 1..Len(channel) : channel'[i] = channel[i]
          /\ channel'[Len(channel) + 1] = e
      BY <1>3, <2>1, AppendProperties
    <3>2. DOMAIN channel' = 1..(Len(channel) + 1)
      BY <3>1
    <3>3. Len(channel) + 1 \in DOMAIN channel' /\ \A i \in DOMAIN channel : i \in DOMAIN channel'
      BY <1>3, <3>2
    <3>4. QED
      BY <1>1, <1>3, <2>1, <3>1, <3>3
  <2>2. CASE channel' = channel /\ unrepaired' = unrepaired \cup {e.task}
    BY <1>1, <2>2
  <2>3. QED
    BY <1>2, <2>1, <2>2 DEF Publish, LinkRaises
<1>5. Coming(t) \subseteq Coming(t)'
  BY <1>4, ComingStays
<1>6. ChangeIsTold(t)
  BY <1>5, SameTask
<1>7. CardIsRepaired(t)
  BY <1>1, <1>2, <1>4 DEF ListIsRepaired
<1>8. QED
  BY <1>6, <1>7, ToldIsRepaired

LEMMA ConnectionRepairs ==
  ASSUME StreamTypeOK, ListIsRepaired, Connection
  PROVE  ListIsRepaired'
<1>1. ASSUME NEW t \in Task, EmitWorker(t)
      PROVE  ListIsRepaired'
  <2> DEFINE e == workerOwes[t]
  <2>1. /\ e \in Event /\ (Publish(e) \/ LinkRaises(e))
        /\ UNCHANGED <<vars, verdict, stream, cards, fetches, timers, handlerOwes>>
        /\ \A u \in Task : workerOwes'[u] = workerOwes[u] \/ workerOwes[u] = e
    BY <1>1, SaidEvents DEF EmitWorker, browserVars, StreamTypeOK
  <2> HIDE DEF e
  <2>2. QED
    BY <2>1, PublishRepairs
<1>2. ASSUME NEW h \in Handler, EmitHandler(h)
      PROVE  ListIsRepaired'
  <2> DEFINE e == handlerOwes[h]
  <2>1. /\ e \in Event /\ Publish(e)
        /\ UNCHANGED <<vars, verdict, stream, cards, fetches, timers, workerOwes>>
        /\ \A g \in Handler : handlerOwes'[g] = handlerOwes[g] \/ handlerOwes[g] = e
    BY <1>2, SaidEvents DEF EmitHandler, StreamTypeOK
  <2> HIDE DEF e
  <2>2. QED
    BY <2>1, PublishRepairs
<1>3. CASE Subscribe \/ Disconnect
  BY <1>3 DEF ListIsRepaired, Subscribe, Disconnect, ListServed
<1>4. QED
  BY <1>1, <1>2, <1>3 DEF Connection

\* An event of another task comes out of the channel.
LEMMA DeliverKeepsOthers ==
  ASSUME StreamTypeOK, Deliver, NEW t \in Task,
         Head(channel).task # t \/ Head(channel).event # "terminal"
  PROVE  /\ Head(channel).task # t => Coming(t) \subseteq Coming(t)'
         /\ TerminalComing(t) => TerminalComing(t)'
<1>1. /\ channel # <<>> /\ channel' = Tail(channel)
      /\ UNCHANGED <<vars, verdict, workerOwes, handlerOwes>>
  BY DEF Deliver, serverVars
<1>2. /\ Head(channel) = channel[1]
      /\ \A i \in DOMAIN channel :
           i # 1 => \E j \in DOMAIN channel' : channel'[j] = channel[i]
  BY <1>1, ChannelTail
<1>3. ASSUME NEW e, e \in Coming(t), e # Head(channel)
      PROVE  e \in Coming(t)'
  <2>1. /\ e \in Event /\ e.task = t
        /\ \/ \E u \in Task : workerOwes[u] = e
           \/ \E h \in Handler : handlerOwes[h] = e
           \/ \E i \in DOMAIN channel : channel[i] = e
    BY <1>3, ComingMeans
  <2>2. \/ \E u \in Task : workerOwes'[u] = e
        \/ \E h \in Handler : handlerOwes'[h] = e
        \/ \E i \in DOMAIN channel' : channel'[i] = e
    BY <1>1, <1>2, <1>3, <2>1
  <2>3. QED
    BY <2>1, <2>2, ComingMeans
<1>4. QED
  BY <1>1, <1>3, ComingMeans DEF TerminalComing

LEMMA DeliverRepairs ==
  ASSUME ManagerInvariant, StreamTypeOK, EventsInOrder, ListIsRepaired, Deliver
  PROVE  ListIsRepaired'
<1>1. SUFFICES ASSUME ListServed', NEW t \in Task \ unrepaired'
               PROVE  CardIsRepaired(t)'
  BY DEF ListIsRepaired
<1> DEFINE e == Head(channel)
<1>2. /\ channel # <<>>
      /\ UNCHANGED <<vars, verdict, stream, unrepaired>>
      /\ \/ e.event # "terminal" /\ Update(e) /\ UNCHANGED timers
         \/ e.event = "terminal" /\ Settle(e) /\ UNCHANGED fetches
  BY DEF Deliver, serverVars
<1>3. e \in Event /\ e.task \in Task /\ \E i \in DOMAIN channel : channel[i] = e
  BY <1>2, ChannelTail, SaidEvents, EventFields
<1>4. e.task # t => Coming(t) \subseteq Coming(t)'
  BY DeliverKeepsOthers
<1>5. e.event # "terminal" => (TerminalComing(t) => TerminalComing(t)')
  BY DeliverKeepsOthers
<1> HIDE DEF e
<1>6. Ended(t)' <=> Ended(t)
  BY <1>2, SameTask
<1>7. CASE e.event # "terminal"
  <2>1. \A f \in Fetch : fetches'[f] = Idle
    BY <1>1 DEF ListServed
  <2>2. Update(e) /\ UNCHANGED timers
    BY <1>2, <1>7
  <2>3. ~\E f \in Fetch : Ask(f)
    BY <2>1 DEF Ask, StreamTypeOK, Idle, Asked
  <2>4. /\ cards[e.task] # "none" /\ cards' = [cards EXCEPT ![e.task] = e.status]
        /\ fetches' = fetches
    BY <2>2, <2>3 DEF Update, Card
  <2>5. e.status # "none"
    BY <1>3, <1>7, EventFields DEF Active
  <2>6. CardIsRepaired(t)
    BY <1>1, <1>2, <2>4 DEF ListIsRepaired, ListServed, vars, boundVars
  <2>7. CASE t = e.task
    <3>1. cards[t] # "none" /\ cards'[t] # "none"
      BY <2>4, <2>5, <2>7 DEF StreamTypeOK
    <3>2. QED
      BY <1>5, <1>6, <1>7, <2>2, <2>6, <3>1 DEF CardIsRepaired
  <2>8. CASE t # e.task
    <3>1. cards'[t] = cards[t]
      BY <2>4, <2>8 DEF StreamTypeOK
    <3>2. ChangeIsTold(t)
      BY <1>2, <1>4, <2>8, SameTask
    <3>3. QED
      BY <2>2, <2>6, <3>1, <3>2, ToldIsRepaired
  <2>9. QED
    BY <2>7, <2>8
<1>8. CASE e.event = "terminal"
  <2>1. Settle(e) /\ fetches' = fetches
    BY <1>2, <1>8
  <2>2. ListServed /\ CardIsRepaired(t)
    BY <1>1, <1>2, <2>1 DEF ListIsRepaired, ListServed, vars, boundVars
  <2>3. CASE t = e.task
    <3>1. Over(t)
      BY <1>3, <1>8, <2>3 DEF EventsInOrder, EndIsToldOnce
    <3>2. Ended(t)'
      BY <1>6, <2>2, <3>1, OverIsEnded DEF ListServed
    <3>3. t \in timers' \/ cards'[t] = "none"
      BY <2>1, <2>3 DEF Settle, Card, StreamTypeOK
    <3>4. QED
      BY <3>2, <3>3 DEF CardIsRepaired
  <2>4. CASE t # e.task
    <3>1. cards'[t] = cards[t] /\ (t \in timers => t \in timers')
      BY <2>1, <2>4 DEF Settle, Card, StreamTypeOK
    <3>2. ChangeIsTold(t)
      BY <1>2, <1>4, <2>4, SameTask
    <3>3. QED
      BY <2>2, <3>1, <3>2, ToldIsRepaired
  <2>5. QED
    BY <2>3, <2>4
<1>9. QED
  BY <1>7, <1>8

LEMMA BrowserRepairs ==
  ASSUME ManagerInvariant, StreamTypeOK, EventsInOrder, ListIsRepaired, Browser
  PROVE  ListIsRepaired'
<1>1. CASE Deliver
  BY <1>1, DeliverRepairs
<1>2. CASE Hello \/ Refresh \/ \E f \in Fetch : ServeFetch(f)
  <2>1. \E f \in Fetch : fetches'[f] # Idle
    BY <1>2 DEF Hello, Refresh, ServeFetch, Ask, StreamTypeOK, Idle, Asked, Answered
  <2>2. QED
    BY <2>1 DEF ListIsRepaired, ListServed
<1>3. ASSUME NEW f \in Fetch, FailFetch(f)
      PROVE  ListIsRepaired'
  BY <1>3 DEF ListIsRepaired, FailFetch
<1>4. ASSUME UNCHANGED <<vars, serverVars, channel>>, NEW t \in Task
      PROVE  /\ Ended(t)' <=> Ended(t)
             /\ Coming(t)' = Coming(t)
             /\ TerminalComing(t)' <=> TerminalComing(t)
  BY <1>4 DEF serverVars, vars, queueVars, Ended, Stuck, Coming, Owed, TerminalComing
<1>5. ASSUME NEW f \in Fetch, ApplySnapshot(f)
      PROVE  ListIsRepaired'
  <2>1. SUFFICES ASSUME NEW t \in Task \ unrepaired'
                 PROVE  CardIsRepaired(t)'
    BY DEF ListIsRepaired
  <2>2. ~LeftWrong(t, cards'[t]) /\ UNCHANGED <<vars, serverVars, channel>>
    BY <1>5, <2>1 DEF ApplySnapshot
  <2>3. QED
    BY <1>4, <2>2 DEF LeftWrong, CardIsRepaired, Ended
<1>6. ASSUME NEW u \in Task, ApplyCreated(u)
      PROVE  ListIsRepaired'
  <2>1. SUFFICES ASSUME ListServed', NEW t \in Task \ unrepaired'
                 PROVE  CardIsRepaired(t)'
    BY DEF ListIsRepaired
  <2>2. /\ cards' = [cards EXCEPT ![u] = "queued"]
        /\ unrepaired' = IF LeftWrong(u, "queued") THEN unrepaired \cup {u} ELSE unrepaired
        /\ UNCHANGED <<vars, serverVars, channel, stream, fetches, timers>>
    BY <1>6 DEF ApplyCreated, Card
  <2>3. ListServed
    BY <2>1, <2>2 DEF ListServed, vars, boundVars
  <2>4. CardIsRepaired(t)
    BY <2>1, <2>2, <2>3 DEF ListIsRepaired
  <2>5. CASE t = u
    <3>1. cards'[t] = "queued" /\ ~LeftWrong(t, "queued")
      BY <2>1, <2>2, <2>5 DEF StreamTypeOK
    <3>2. QED
      BY <1>4, <2>2, <3>1 DEF LeftWrong, CardIsRepaired, Ended
  <2>6. CASE t # u
    <3>1. cards'[t] = cards[t]
      BY <2>2, <2>6 DEF StreamTypeOK
    <3>2. QED
      BY <1>4, <2>2, <2>4, <3>1 DEF CardIsRepaired
  <2>7. QED
    BY <2>5, <2>6
<1>7. ASSUME NEW u \in Task, Timeout(u)
      PROVE  ListIsRepaired'
  <2>1. SUFFICES ASSUME ListServed', NEW t \in Task \ unrepaired'
                 PROVE  CardIsRepaired(t)'
    BY DEF ListIsRepaired
  <2>2. /\ cards' = [cards EXCEPT ![u] = "none"] /\ u \in timers
        /\ timers' = timers \ {u}
        /\ UNCHANGED <<vars, serverVars, channel, stream, fetches, unrepaired>>
    BY <1>7 DEF Timeout, Card
  <2>3. ListServed
    BY <2>1, <2>2 DEF ListServed, vars, boundVars
  <2>4. CardIsRepaired(t)
    BY <2>1, <2>2, <2>3 DEF ListIsRepaired
  <2>5. CASE t = u
    <3>1. cards'[t] = "none"
      BY <2>2, <2>5 DEF StreamTypeOK
    <3>2. Ended(t)
      BY <2>2, <2>3, <2>5, OverIsEnded DEF EventsInOrder, TimersAreOver, ListServed
    <3>3. QED
      BY <1>4, <2>2, <3>1, <3>2 DEF CardIsRepaired
  <2>6. CASE t # u
    <3>1. cards'[t] = cards[t] /\ (t \in timers => t \in timers')
      BY <2>2, <2>6 DEF StreamTypeOK
    <3>2. QED
      BY <1>4, <2>2, <2>4, <3>1 DEF CardIsRepaired
  <2>7. QED
    BY <2>5, <2>6
<1>8. QED
  BY <1>1, <1>2, <1>3, <1>5, <1>6, <1>7 DEF Browser

LEMMA NextRepairs ==
  ASSUME ManagerInvariant, StreamInvariant, [StreamNext]_allVars
  PROVE  ListIsRepaired' /\ DownIsOff'
<1>1. /\ StreamTypeOK /\ EventsInOrder /\ VerdictAtCleanup /\ DownIsOff /\ ListIsRepaired
  BY DEF StreamInvariant, EventsInOrder
<1>2. CASE UNCHANGED allVars
  BY <1>1, <1>2
     DEF allVars, vars, queueVars, boundVars, streamVars, serverVars, browserVars,
         ListIsRepaired, ListServed, CardIsRepaired, DownIsOff, Ended, Stuck, Coming,
         Owed, TerminalComing
<1>3. ListIsRepaired'
  BY <1>1, <1>2, ServerRepairs, ConnectionRepairs, BrowserRepairs DEF StreamNext
<1>4. DownIsOff'
  <2>1. CASE Server
    <3>1. CASE ExitTelling
      BY <3>1 DEF ExitTelling, DownIsOff
    <3>2. CASE ~ExitTelling
      <4>1. stream' = stream
        BY <2>1, <3>2
           DEF Server, SubmitTelling, CancelPendingTelling, CancelRunningTelling,
               HandlerSays, SilentHandler, StopTelling, WorkerTelling, streamVars
      <4>2. phase' = "down" => phase = "down"
        <5>1. StopTelling => phase' # "down"
          BY DEF StopTelling, ShutdownCancel, ShutdownExecutor, CloseStorage, Start
        <5>2. QED
          BY <2>1, <3>2, <5>1, ServerKeepsPhase
      <4>3. QED
        BY <1>1, <4>1, <4>2 DEF DownIsOff
    <3>3. QED
      BY <3>1, <3>2
  <2>2. CASE Connection \/ Browser
    <3>1. UNCHANGED vars
      BY <2>2 DEF Connection, EmitWorker, EmitHandler, Subscribe, Disconnect, Browser,
             Hello, Refresh, Deliver, ServeFetch, FailFetch, ApplySnapshot,
             ApplyCreated, Timeout
    <3>2. phase' = phase /\ (phase = "down" => stream' = stream \/ stream' = "off")
      BY <1>1, <2>2, <3>1
         DEF vars, DownIsOff, Connection, EmitWorker, EmitHandler, Subscribe,
             Disconnect, Browser, Hello, Refresh, Deliver, ServeFetch, FailFetch,
             ApplySnapshot, ApplyCreated, Timeout
    <3>3. QED
      BY <1>1, <3>2 DEF DownIsOff
  <2>3. QED
    BY <1>2, <2>1, <2>2 DEF StreamNext, DownIsOff
<1>5. QED
  BY <1>3, <1>4
----------------------------------------------------------------------------
\* The invariant

LEMMA StreamInitInvariant == StreamInit => StreamInvariant
<1> SUFFICES ASSUME StreamInit
             PROVE  StreamInvariant
  OBVIOUS
<1>1. StreamTypeOK
  <2>1. TypeOK
    BY InitInvariant DEF StreamInit, InductiveInvariant
  <2>2. channel \in Seq(Event) /\ Len(channel) <= QueueMax /\ breaks \in 0..MaxBreaks
    BY StreamAssumption DEF StreamInit
  <2>3. QED
    BY <2>1, <2>2 DEF StreamInit, StreamTypeOK, CardStatus
<1>2. /\ \A t \in Task : workerOwes[t] = NoEvent
      /\ \A h \in Handler : handlerOwes[h] = NoEvent
      /\ channel = <<>> /\ timers = {} /\ stream = "off" /\ phase = "up"
      /\ \A t \in Task : pc[t] = "idle"
  BY DEF StreamInit, Init
<1>3. /\ WorkersTellTheirOwn /\ HandlersTellNoWork /\ EndIsToldOnce
      /\ TerminalEventIsLast /\ TimersAreOver
  BY <1>2, EventFields DEF WorkersTellTheirOwn, HandlersTellNoWork, EndIsToldOnce,
                           TerminalEventIsLast, TimersAreOver, TellsEnd
<1>4. VerdictAtCleanup /\ DownIsOff /\ ListIsRepaired
  BY <1>2 DEF VerdictAtCleanup, DownIsOff, ListIsRepaired, ListServed, At
<1>5. QED
  BY <1>1, <1>3, <1>4 DEF StreamInvariant

LEMMA NextStreamInvariant ==
  ManagerInvariant /\ StreamInvariant /\ [StreamNext]_allVars => StreamInvariant'
<1> SUFFICES ASSUME ManagerInvariant, StreamInvariant, [StreamNext]_allVars
             PROVE  StreamInvariant'
  OBVIOUS
<1>1. InductiveInvariant /\ StreamTypeOK /\ EventsInOrder /\ VerdictAtCleanup
  BY DEF ManagerInvariant, StreamInvariant, EventsInOrder
<1>2. StreamTypeOK' /\ EventsInOrder' /\ VerdictAtCleanup'
  BY <1>1, NextTypes, NextInOrder, NextVerdict
<1>3. ListIsRepaired' /\ DownIsOff'
  BY NextRepairs
<1>4. QED
  BY <1>2, <1>3 DEF StreamInvariant, EventsInOrder

\* Server, connection and browser stay in step, through every interleaving of
\* handlers, workers, snapshots and callbacks, broken connections, errors,
\* stops and restarts.
THEOREM StreamInvariance == StreamSpec => []StreamInvariant
<1>1. StreamSpec => []ManagerInvariant
  BY StreamImplementsManager, RowsInvariance, PTL
<1>2. QED
  BY <1>1, StreamInitInvariant, NextStreamInvariant, PTL DEF StreamSpec

\* Each variable of stream and list keeps its type, the channel its bound.
THEOREM StreamTypeCorrect == StreamSpec => []StreamTypeOK
<1>1. StreamInvariant => StreamTypeOK
  BY DEF StreamInvariant
<1>2. QED
  BY <1>1, StreamInvariance, PTL

\* No sign of work and no second end follows a terminal event.
THEOREM TerminalEventsAreLast == StreamSpec => []TerminalEventIsLast
<1>1. StreamInvariant => TerminalEventIsLast
  BY DEF StreamInvariant
<1>2. QED
  BY <1>1, StreamInvariance, PTL

\* Once nothing is on its way, the list of the browser shows the active
\* tasks, whatever was told, dropped, cut off and asked for before.
THEOREM QuietListsAreRight == StreamSpec => []QuietListIsRight
<1>1. StreamInvariant => QuietListIsRight
  <2>1. SUFFICES ASSUME StreamInvariant, faults = 0, NEW t \in Task, Quiet(t)
                 PROVE  \/ cards[t] # "none" <=> row[t] \in Active
                        \/ Stuck(t)
                        \/ t \in unrepaired
    BY DEF QuietListIsRight
  <2>2. /\ ListServed /\ Coming(t) = {} /\ verdict[t] = "none" /\ t \notin timers
    BY <2>1 DEF Quiet, ListServed
  <2>3. ~TerminalComing(t)
    BY <2>2 DEF TerminalComing
  <2>4. t \notin unrepaired => CardIsRepaired(t)
    BY <2>1, <2>2 DEF ListIsRepaired, StreamInvariant
  <2>5. QED
    BY <2>2, <2>3, <2>4 DEF CardIsRepaired, Ended
<1>2. QED
  BY <1>1, StreamInvariance, PTL
=============================================================================
