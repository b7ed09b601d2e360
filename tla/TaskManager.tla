---------------------------- MODULE TaskManager ----------------------------
(***************************************************************************)
(* The task queue of the backend: core/task_manager.py with the worker's   *)
(* generation steps of core/generator.py, the task rows of                 *)
(* core/storage.py, DELETE /api/history/{id} of api/history.py and the     *)
(* start and stop of main.py.                                              *)
(*                                                                         *)
(* A task is an id.  Request handlers and worker threads interleave: an    *)
(* action is either one critical section of TaskManager._lock, one         *)
(* statement on the database, one call on the object store, or one         *)
(* upstream call with the cancel check that follows it.                    *)
(***************************************************************************)
EXTENDS Integers, Sequences, FiniteSets

CONSTANTS
  Task,                \* the ids uuid4() can return; never reused
  MaxConcurrency,      \* executor.max_concurrency
  MaxQueueSize,        \* executor.max_queue_size
  DefaultConcurrency,  \* executor.default_concurrency
  DefaultQueueSize,    \* executor.default_queue_size
  MaxFaults,           \* bound: errors raised by sqlite or the object store
  MaxRestarts          \* bound: how often the process ends

\* ExecutorConfig asks for positive numbers and does not relate the defaults
\* to the maxima.
ASSUME ConfigAssumption ==
  /\ MaxConcurrency \in Nat \ {0}
  /\ MaxQueueSize \in Nat \ {0}
  /\ DefaultConcurrency \in Nat \ {0}
  /\ DefaultQueueSize \in Nat \ {0}
ASSUME BoundAssumption == MaxFaults \in Nat /\ MaxRestarts \in Nat

VARIABLES
  phase,        \* the process, see Phase
  row,          \* the status column of the task's row, see RowState
  image,        \* the rendered image and the row's image_path, see ImageState
  pending,      \* TaskManager._pending
  running,      \* the keys of TaskManager._running
  cancelEvent,  \* the live handles whose cancel_event is set
  pc,           \* where the task's worker thread is, see WorkerState
  concurrency,  \* TaskManager._concurrency
  queueCap,     \* TaskManager._queue_cap
  erasing,      \* the DELETE /api/history handler at work on the task
  faults,       \* counts errors, up to MaxFaults
  restarts      \* counts ends of the process, up to MaxRestarts

queueVars == <<pending, running, pc, cancelEvent>>
settingVars == <<concurrency, queueCap>>
boundVars == <<faults, restarts>>
vars == <<phase, row, image, queueVars, settingVars, erasing, boundVars>>

----------------------------------------------------------------------------
\* "draining": manager.shutdown has set the cancel events; "shut": the
\* executor takes no more work; "closed": storage is closed; "down": no
\* process.
Phase == {"up", "draining", "shut", "closed", "down"}

Active == {"queued", "running", "cancelling"}
Terminal == {"succeeded", "failed", "cancelled"}
RowState == {"new", "deleted"} \cup Active \cup Terminal

\* "saved": the object exists, no row names it; "linked": the object exists
\* and the row's image_path names it; "gone": the row names a deleted object.
ImageState == {"none", "saved", "linked", "gone"}

\* "idle": no worker; "dispatched": handed to the executor; "dead": an
\* exception or an early return left the thread without _post_run_cleanup.
WorkerState == {"idle", "dispatched", "mark", "prepare", "request", "download",
                "save", "saved", "succeed", "cancel", "fail", "cleanup", "dead"}

HasRow(t) == row[t] \notin {"new", "deleted"}

TypeOK ==
  /\ phase \in Phase
  /\ row \in [Task -> RowState]
  /\ image \in [Task -> ImageState]
  /\ pending \in Seq(Task)
  /\ running \in SUBSET Task /\ IsFiniteSet(running)
  /\ cancelEvent \in SUBSET Task
  /\ pc \in [Task -> WorkerState]
  /\ concurrency \in Nat \ {0}
  /\ queueCap \in Nat \ {0}
  /\ erasing \in [Task -> {"no", "image", "row"}]
  /\ faults \in 0..MaxFaults
  /\ restarts \in 0..MaxRestarts

Init ==
  /\ phase = "up"
  /\ row = [t \in Task |-> "new"]
  /\ image = [t \in Task |-> "none"]
  /\ pending = <<>>
  /\ running = {}
  /\ cancelEvent = {}
  /\ pc = [t \in Task |-> "idle"]
  /\ concurrency = DefaultConcurrency
  /\ queueCap = DefaultQueueSize
  /\ erasing = [t \in Task |-> "no"]
  /\ faults = 0
  /\ restarts = 0

----------------------------------------------------------------------------
\* Storage

DbOpen == phase # "closed"

\* A statement raises: the connection is closed, or sqlite reports an error.
DbRaises ==
  \/ /\ ~DbOpen
     /\ UNCHANGED faults
  \/ /\ DbOpen
     /\ faults < MaxFaults
     /\ faults' = faults + 1

\* update_task_fields(t, status=s): no row, no update (TaskNotFoundError).
SetRow(t, s) == row' = IF HasRow(t) THEN [row EXCEPT ![t] = s] ELSE row

\* It raises: at its UPDATE, or at the get_task behind a finished UPDATE,
\* where a stopping process may have closed the connection in between.
SetRowRaises(t, s) ==
  \/ DbRaises /\ UNCHANGED row
  \/ DbRaises /\ DbOpen /\ SetRow(t, s)
  \/ phase = "shut" /\ SetRow(t, s) /\ UNCHANGED faults

----------------------------------------------------------------------------
\* Scheduling.  Every caller of _pump_locked holds the lock.

\* Slip: the cap counts the queue only.
QueueLoad == Len(pending)

Load == Len(pending) + Cardinality(running)

ExecutorOpen == phase \in {"up", "draining"}

\* Slips of the scheduling loop: `<=` for `<`, `if` for `while`, popping the
\* wrong end, reading the head without popping it, popping once too often.
TakenAtLimit(q, busy, limit) ==
  IF q # <<>> /\ Cardinality(busy) <= limit THEN 1 ELSE 0
TakenOnce(q, busy, limit) ==
  IF q # <<>> /\ Cardinality(busy) < limit THEN 1 ELSE 0
NewestFront(q, n) == {q[i] : i \in (Len(q) - n + 1)..Len(q)}
KeptRest(q, n) == q
ShortRest(q, n) == SubSeq(q, n + 2, Len(q))

\* How many handles the loop of _pump_locked takes off q.  After
\* executor.shutdown the first executor.submit raises, when its handle is
\* already in _running.
Taken(q, busy, limit) ==
  LET free == limit - Cardinality(busy)
      room == IF ExecutorOpen \/ free < 1 THEN free ELSE 1
  IN  CASE room < 0      -> 0
        [] room > Len(q) -> Len(q)
        [] OTHER         -> room

Front(q, n) == {q[i] : i \in 1..n}

Rest(q, n) == SubSeq(q, n + 1, Len(q))

\* _pump_locked with queue q, _running = busy and worker states pcs.
Pump(q, busy, limit, pcs) ==
  LET n == Taken(q, busy, limit)
  IN  /\ pending' = Rest(q, n)
      /\ running' = busy \cup Front(q, n)
      /\ pc' = IF ExecutorOpen
               THEN [t \in Task |->
                      IF t \in Front(q, n) THEN "dispatched" ELSE pcs[t]]
               ELSE pcs

----------------------------------------------------------------------------
\* Request handlers

\* TaskManager.submit.  A refused submission (queue_full) changes nothing.
Submit(t, priority) ==
  /\ phase = "up"
  /\ row[t] = "new"
  /\ Load < queueCap
  /\ row' = [row EXCEPT ![t] = "queued"]
  /\ Pump(IF priority THEN <<t>> \o pending ELSE Append(pending, t),
          running, concurrency, pc)
  /\ UNCHANGED <<phase, image, cancelEvent, settingVars, erasing, boundVars>>

\* Slips: leave the handle in the queue; drop the newest handle.
DropNothing(i) == pending' = pending

DropPending(i) ==
  pending' = SubSeq(pending, 1, i - 1) \o SubSeq(pending, i + 1, Len(pending))

\* TaskManager.cancel, the task is in _pending: the handle is dropped before
\* the row is written.
CancelPending(i) ==
  /\ phase = "up"
  /\ DropPending(i)
  /\ \/ SetRow(pending[i], "cancelled") /\ UNCHANGED faults
     \/ SetRowRaises(pending[i], "cancelled")
  /\ UNCHANGED <<phase, image, running, cancelEvent, pc, settingVars, erasing,
                 restarts>>

\* TaskManager.cancel, the task is in _running: whatever the worker has
\* already written, the row becomes "cancelling".
CancelRunning(t) ==
  /\ phase = "up"
  /\ t \in running
  /\ cancelEvent' = cancelEvent \cup {t}
  /\ \/ SetRow(t, "cancelling") /\ UNCHANGED faults
     \/ SetRowRaises(t, "cancelling")
  /\ UNCHANGED <<phase, image, pending, running, pc, settingVars, erasing,
                 restarts>>

\* set_concurrency and set_queue_cap refuse what is out of range.
ConcurrencyRange == 1..MaxConcurrency
QueueCapRange == 1..MaxQueueSize

\* TaskManager.set_concurrency: a new pool, and the queue is pumped into it.
SetConcurrency(n) ==
  /\ phase = "up"
  /\ n # concurrency
  /\ concurrency' = n
  /\ Pump(pending, running, n, pc)
  /\ UNCHANGED <<phase, row, image, cancelEvent, queueCap, erasing, boundVars>>

\* TaskManager.set_queue_cap.
SetQueueCap(n) ==
  /\ phase = "up"
  /\ queueCap' = n
  /\ UNCHANGED <<phase, row, image, queueVars, concurrency, erasing, boundVars>>

\* Slip: any task may be erased.
MayEraseAny(t) == HasRow(t)

MayErase(t) == row[t] \in Terminal

\* delete_history reads the row; a row that is not active may be erased.
EraseCheck(t) ==
  /\ phase = "up"
  /\ erasing[t] = "no"
  /\ MayErase(t)
  /\ erasing' = [erasing EXCEPT ![t] =
                   IF image[t] \in {"linked", "gone"} THEN "image" ELSE "row"]
  /\ UNCHANGED <<phase, row, image, queueVars, settingVars, boundVars>>

\* delete_history removes the object; a StorageError is only logged.
EraseImage(t) ==
  /\ erasing[t] = "image"
  /\ \/ image' = [image EXCEPT ![t] = "gone"] /\ UNCHANGED faults
     \/ /\ faults < MaxFaults
        /\ faults' = faults + 1
        /\ UNCHANGED image
  /\ erasing' = [erasing EXCEPT ![t] = "row"]
  /\ UNCHANGED <<phase, row, queueVars, settingVars, restarts>>

\* delete_history drops the row, without looking at it again.
EraseRow(t) ==
  /\ erasing[t] = "row"
  /\ erasing' = [erasing EXCEPT ![t] = "no"]
  /\ \/ row' = [row EXCEPT ![t] = "deleted"] /\ UNCHANGED faults
     \/ DbRaises /\ UNCHANGED row
  /\ UNCHANGED <<phase, image, queueVars, settingVars, restarts>>

----------------------------------------------------------------------------
\* Worker threads: TaskManager._run_task and generate_image

At(t, s) == pc[t] = s
Goto(t, s) == pc' = [pc EXCEPT ![t] = s]

\* _check_cancel, then on to s.
GotoUnlessCancelled(t, s) == Goto(t, IF t \in cancelEvent THEN "cancel" ELSE s)

OnlyPc == UNCHANGED <<phase, row, image, pending, running, cancelEvent,
                      settingVars, erasing, boundVars>>

Preflight(t) ==
  /\ At(t, "dispatched")
  /\ GotoUnlessCancelled(t, "mark")
  /\ OnlyPc

\* The row becomes "running".  An exception, or a missing row, ends the
\* thread with the handle still in _running.
MarkRunning(t) ==
  /\ At(t, "mark")
  /\ \/ /\ DbOpen
        /\ SetRow(t, "running")
        /\ Goto(t, IF HasRow(t) THEN "prepare" ELSE "dead")
        /\ UNCHANGED faults
     \/ SetRowRaises(t, "running") /\ Goto(t, "dead")
  /\ UNCHANGED <<phase, image, pending, running, cancelEvent, settingVars,
                 erasing, restarts>>

\* Provider lookup, reference images, and generate_image's first check.
Prepare(t) ==
  /\ At(t, "prepare")
  /\ GotoUnlessCancelled(t, "request") \/ Goto(t, "fail")
  /\ OnlyPc

\* The upstream call, its parsing, and the check behind it.
Request(t) ==
  /\ At(t, "request")
  /\ GotoUnlessCancelled(t, "download") \/ Goto(t, "fail")
  /\ OnlyPc

\* The image download and the check behind it.
Download(t) ==
  /\ At(t, "download")
  /\ GotoUnlessCancelled(t, "save") \/ Goto(t, "fail")
  /\ OnlyPc

\* Slip: a failed save is taken for a success.
SaveUnchecked(t) ==
  /\ At(t, "save")
  /\ image' \in {image, [image EXCEPT ![t] = "saved"]}
  /\ Goto(t, "saved")
  /\ UNCHANGED <<phase, row, pending, running, cancelEvent, settingVars,
                 erasing, boundVars>>

Save(t) ==
  /\ At(t, "save")
  /\ \/ image' = [image EXCEPT ![t] = "saved"] /\ Goto(t, "saved")
     \/ Goto(t, "fail") /\ UNCHANGED image
  /\ UNCHANGED <<phase, row, pending, running, cancelEvent, settingVars,
                 erasing, boundVars>>

\* The last check; a cancel that comes later is not seen.
LastCheck(t) ==
  /\ At(t, "saved")
  /\ GotoUnlessCancelled(t, "succeed")
  /\ OnlyPc

\* update_task_fields(t, status="succeeded", image_path=...).
SetSucceeded(t) ==
  /\ SetRow(t, "succeeded")
  /\ image' = IF ~HasRow(t) THEN image
              ELSE [image EXCEPT ![t] = IF @ = "saved" THEN "linked" ELSE "gone"]

\* The success branch of _run_task; `finally` reaches the cleanup either way,
\* also when the statement or the read behind it raises.
Succeed(t) ==
  /\ At(t, "succeed")
  /\ Goto(t, "cleanup")
  /\ \/ DbOpen /\ SetSucceeded(t) /\ UNCHANGED faults
     \/ DbRaises /\ UNCHANGED <<row, image>>
     \/ DbRaises /\ DbOpen /\ SetSucceeded(t)
  /\ UNCHANGED <<phase, pending, running, cancelEvent, settingVars, erasing,
                 restarts>>

\* The row gets its last status; an exception here skips the cleanup.
Finalize(t, s) ==
  /\ \/ DbOpen /\ SetRow(t, s) /\ Goto(t, "cleanup") /\ UNCHANGED faults
     \/ SetRowRaises(t, s) /\ Goto(t, "dead")
  /\ UNCHANGED <<phase, image, pending, running, cancelEvent, settingVars,
                 erasing, restarts>>

FinalizeCancelled(t) == At(t, "cancel") /\ Finalize(t, "cancelled")

\* Slip: a failure does not give its slot back.
FinalizeFailedLeaking(t) ==
  /\ At(t, "fail")
  /\ SetRow(t, "failed")
  /\ Goto(t, "dead")
  /\ UNCHANGED <<phase, image, pending, running, cancelEvent, settingVars,
                 erasing, boundVars>>

FinalizeFailed(t) == At(t, "fail") /\ Finalize(t, "failed")

\* _post_run_cleanup: give the slot back and pump, in one critical section.
PostRunCleanup(t) ==
  /\ At(t, "cleanup")
  /\ Pump(pending, running \ {t}, concurrency, [pc EXCEPT ![t] = "idle"])
  /\ cancelEvent' = cancelEvent \ {t}
  /\ UNCHANGED <<phase, row, image, settingVars, erasing, boundVars>>

----------------------------------------------------------------------------
\* The process

\* manager.shutdown, first half.  The server has finished its requests.
ShutdownCancel ==
  /\ phase = "up"
  /\ restarts < MaxRestarts
  /\ \A t \in Task : erasing[t] = "no"
  /\ phase' = "draining"
  /\ cancelEvent' = cancelEvent \cup running
  /\ UNCHANGED <<row, image, pending, running, pc, settingVars, erasing,
                 boundVars>>

\* manager.shutdown, second half: executor.shutdown(wait=False).
ShutdownExecutor ==
  /\ phase = "draining"
  /\ phase' = "shut"
  /\ UNCHANGED <<row, image, queueVars, settingVars, erasing, boundVars>>

\* storage.close(), while workers may still be busy.
CloseStorage ==
  /\ phase = "shut"
  /\ phase' = "closed"
  /\ UNCHANGED <<row, image, queueVars, settingVars, erasing, boundVars>>

\* The process ends, after a stop or by a crash; rows and objects stay.
Exit ==
  /\ phase # "down"
  /\ restarts < MaxRestarts
  /\ phase' = "down"
  /\ restarts' = restarts + 1
  /\ pending' = <<>>
  /\ running' = {}
  /\ cancelEvent' = {}
  /\ pc' = [t \in Task |-> "idle"]
  /\ erasing' = [t \in Task |-> "no"]
  /\ UNCHANGED <<row, image, settingVars, faults>>

\* Slips: queued rows are forgotten, cancelled rows are taken for orphans.
OrphanedBusy == {"running", "cancelling"}
OrphanedUnfinished == Active \cup {"cancelled"}

Orphaned == {"queued", "running", "cancelling"}

\* _lifespan: mark_orphaned_running_as_failed, then a new TaskManager.
Start ==
  /\ phase = "down"
  /\ phase' = "up"
  /\ row' = [t \in Task |-> IF row[t] \in Orphaned THEN "failed" ELSE row[t]]
  /\ concurrency' = DefaultConcurrency
  /\ queueCap' = DefaultQueueSize
  /\ UNCHANGED <<image, queueVars, erasing, boundVars>>

----------------------------------------------------------------------------
Handlers ==
  \/ \E t \in Task, priority \in BOOLEAN : Submit(t, priority)
  \/ \E i \in DOMAIN pending : CancelPending(i)
  \/ \E t \in Task : CancelRunning(t)
  \/ \E n \in ConcurrencyRange : SetConcurrency(n)
  \/ \E n \in QueueCapRange : SetQueueCap(n)
  \/ \E t \in Task : EraseCheck(t) \/ EraseImage(t) \/ EraseRow(t)

Worker(t) ==
  \/ Preflight(t) \/ MarkRunning(t) \/ Prepare(t) \/ Request(t) \/ Download(t)
  \/ Save(t) \/ LastCheck(t) \/ Succeed(t) \/ FinalizeCancelled(t)
  \/ FinalizeFailed(t) \/ PostRunCleanup(t)

Process == ShutdownCancel \/ ShutdownExecutor \/ CloseStorage \/ Exit \/ Start

Next == Handlers \/ (\E t \in Task : Worker(t)) \/ Process

Spec == Init /\ [][Next]_vars

\* A thread of the pool keeps running, and so does a request handler that has
\* started; every blocking call of a worker has a timeout
\* (request_timeout_seconds) or is local.
FairSpec ==
  /\ Spec
  /\ \A t \in Task : WF_vars(Worker(t)) /\ WF_vars(EraseImage(t) \/ EraseRow(t))
=============================================================================
