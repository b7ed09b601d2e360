----------------------- MODULE TaskManagerProperties -----------------------
(***************************************************************************)
(* What the task queue must guarantee, each property with the code         *)
(* behaviour it is about.                                                  *)
(***************************************************************************)
EXTENDS TaskManager

Held == Len(pending) + Cardinality(running)
Owned(t) == t \in Front(pending, Len(pending)) \cup running

----------------------------------------------------------------------------
\* Invariants of the queue

\* The queue holds no task twice, and none that has a worker or a slot: a
\* handle goes from _pending to _running once, whatever submit, cancel,
\* set_concurrency and the workers' cleanups do in between.
QueueDisjoint ==
  /\ \A i, j \in DOMAIN pending : pending[i] = pending[j] => i = j
  /\ \A i \in DOMAIN pending : pending[i] \notin running

\* A task waiting in _pending is "queued" in the database: no cancel or
\* history delete settles the row of a task that may still be dispatched.
PendingIsQueued == \A i \in DOMAIN pending : row[pending[i]] = "queued"

\* A worker thread occupies its slot of _running as long as it lives: the
\* slot is given back once, by the thread's own cleanup.
WorkerHoldsSlot == \A t \in Task : ~At(t, "idle") => t \in running

\* Until a worker writes its last status the row of its task exists and is
\* active: nobody settles or deletes it under the worker (delete_history
\* looks at the row long before it drops it).
WorkerRowActive ==
  \A t \in Task : pc[t] \notin {"idle", "cleanup", "dead"} => row[t] \in Active

\* No slot is idle while a task waits: submit, set_concurrency and the
\* cleanup all pump enough.
WorkConserving == pending # <<>> => Cardinality(running) >= concurrency

----------------------------------------------------------------------------
\* Invariants of rows and images

\* When no error is raised, every row that says "queued" or "running" in a
\* live process belongs to a task the manager holds: no row waits for a
\* worker that will not come, after a restart neither.
QueuedOrRunningOwned ==
  (phase = "up" /\ faults = 0) =>
     \A t \in Task : row[t] \in {"queued", "running"} => Owned(t)

\* A task nobody will settle before the next start: its worker has died, or
\* its row says "queued" or "running" and no worker will write it.
Stranded(t) ==
  \/ At(t, "dead")
  \/ row[t] \in {"queued", "running"} /\ (~Owned(t) \/ At(t, "cleanup"))

\* Errors do not spread: in a live process there are at most as many stranded
\* tasks as statements have raised, whatever cancels, history deletes,
\* settings changes and other workers do around them, and a start settles
\* what the process before has left (task_manager.py:221, 437, 477, 496).
ErrorsStrandOneTaskEach ==
  phase = "up" => Cardinality({t \in Task : Stranded(t)}) <= faults

\* A row that says "succeeded" names an object that exists, from the moment
\* it appears in the history until a delete of that very row has removed the
\* object (a crash or an error in the middle of the delete leaves the row).
SucceededHasImage ==
  \A t \in Task :
     row[t] = "succeeded" =>
        \/ image[t] = "linked"
        \/ image[t] = "gone" /\ (erasing[t] = "row" \/ faults + restarts > 0)

\* When no error is raised, a history delete never drops a row whose
\* image_path still names an object: no worker links an image between the
\* handler's read of the row and its delete, and a handler cut off by a
\* crash is finished by the next one.
DeletedRowHasNoLinkedImage ==
  faults = 0 => \A t \in Task : row[t] = "deleted" => image[t] # "linked"

----------------------------------------------------------------------------
\* The inductive invariant behind the invariants of the queue

\* A slot is taken by a task that was submitted.
RunningKnown == \A t \in running : row[t] # "new"

\* A history delete is at work on submitted tasks only, and on none that
\* waits or whose worker has still a status to write.
ErasingSettled ==
  \A t \in Task : erasing[t] # "no" =>
     /\ row[t] # "new"
     /\ pc[t] \in {"idle", "cleanup", "dead"}
     /\ \A i \in DOMAIN pending : pending[i] # t

\* Nothing of a process outlives it.
DownIsEmpty ==
  phase = "down" =>
     /\ pending = <<>>
     /\ running = {}
     /\ \A t \in Task : pc[t] = "idle" /\ erasing[t] = "no"

\* The invariants of the queue need each other: a queue without duplicates
\* fills exactly the free slots, and a queued row is what keeps the history
\* delete away from a task that is about to get a worker.
InductiveInvariant ==
  /\ TypeOK
  /\ QueueDisjoint
  /\ PendingIsQueued
  /\ WorkerHoldsSlot
  /\ WorkerRowActive
  /\ WorkConserving
  /\ RunningKnown
  /\ ErasingSettled
  /\ DownIsEmpty

----------------------------------------------------------------------------
\* The inductive invariant behind the invariants of rows and images

\* Between the save and the write of the result the object is there.
SavedImageExists ==
  \A t \in Task : pc[t] \in {"saved", "succeed"} => image[t] = "saved"

\* History deletes are over when the process begins to stop.
ErasingWhileUp == \A t \in Task : erasing[t] # "no" => phase = "up"

\* A history delete comes to the row when it has removed the object.
ErasesImageFirst ==
  faults = 0 => \A t \in Task : erasing[t] = "row" => image[t] # "linked"

\* A task in a slot has a worker; only an error ends one without a cleanup.
SlotHasWorker ==
  phase = "up" =>
     /\ \A t \in running : ~At(t, "idle")
     /\ faults = 0 => \A t \in Task : ~At(t, "dead")

\* A worker cleans up behind its last write.
CleanupIsSettled ==
  (phase = "up" /\ faults = 0) =>
     \A t \in Task : At(t, "cleanup") => row[t] \notin {"queued", "running"}

RowsInvariant ==
  /\ SavedImageExists
  /\ ErasingWhileUp
  /\ ErasesImageFirst
  /\ SlotHasWorker
  /\ CleanupIsSettled
  /\ QueuedOrRunningOwned
  /\ SucceededHasImage
  /\ DeletedRowHasNoLinkedImage

\* Only the success branch links an image: before it, and behind a cancel of
\* a waiting task, no row names one, and no history delete removes one.
UnlinkedUntilSuccess ==
  \A t \in Task :
     /\ \/ row[t] \in {"new", "queued", "running", "cancelled"}
        \/ pc[t] \notin {"idle", "cleanup", "dead"}
        => image[t] \in {"none", "saved"}
     /\ erasing[t] = "image" => image[t] \in {"linked", "gone"}

\* The rows need the queue: what a history delete or a success may do to an
\* object follows from who may still write the row.
ManagerInvariant == InductiveInvariant /\ RowsInvariant /\ UnlinkedUntilSuccess

----------------------------------------------------------------------------
\* Action properties

\* A step that gives slots away stays within the concurrency in force after
\* it: lowering it lets running tasks finish and starts nothing above it.
DispatchWithinConcurrency ==
  [][~(running' \subseteq running) => Cardinality(running') <= concurrency']_vars

\* The load grows only up to the cap in force, and a cap lowered under the
\* load refuses submissions until the load has fallen below it.
LoadWithinCap == [][Held' > Held => Held' <= queueCap']_vars

\* Tasks leave the queue for a worker in queue order: a dispatched task
\* leaves nobody behind that was ahead of it.
DispatchInQueueOrder ==
  [][\A i, j \in DOMAIN pending :
       (i < j /\ pending[j] \in running') => pending[i] \in running']_vars

\* A settled row changes only by a history delete or by a cancel that still
\* finds the task in _running, because its worker has not cleaned up yet or,
\* after an error, never will.
TerminalReopensOnlyBeforeCleanup ==
  [][\A t \in Task :
       (row[t] \in Terminal /\ row'[t] # row[t]) =>
          \/ row'[t] = "deleted" /\ erasing[t] = "row"
          \/ row'[t] = "cancelling" /\ t \in running
             /\ (At(t, "cleanup") \/ (At(t, "dead") /\ faults > 0))]_vars

----------------------------------------------------------------------------
\* What a cancel is good for

BeforeLastCheck ==
  {"dispatched", "mark", "prepare", "request", "download", "save", "saved"}

\* A cancel has found the task in the queue, or its worker, still before the
\* last check, will find the event.
CancelledInTime(t) ==
  row[t] = "cancelled" \/ (t \in cancelEvent /\ pc[t] \in BeforeLastCheck)

\* A task that was cancelled in time never succeeds, and its image is never
\* shown: not by a worker that has all its steps from the pre-flight check to
\* the save before it and overwrites "cancelling" on the way, not by a handle
\* that a pump finds later, not after a restart (task_manager.py:219-236, 334,
\* 340, 437, generator.py:80).
CancelledNeverSucceeds ==
  \A t \in Task :
    [](CancelledInTime(t) => [](row[t] # "succeeded" /\ image[t] \in {"none", "saved"}))

----------------------------------------------------------------------------
\* Liveness, under FairSpec: as long as the process is up and no error has
\* been raised, after a restart too

Undisturbed == phase = "up" /\ faults = 0

\* The manager drains: nobody waits for ever in the queue or holds a slot for
\* ever once submissions stop, through every cancel and settings change.
Drains == []<>(Undisturbed => pending = <<>> /\ running = {})

\* Every task that was accepted comes to a worker or is cancelled, and no
\* worker leaves its row "running".
AcceptedTaskSettles ==
  \A t \in Task : row[t] \in {"queued", "running"} ~>
                   (Undisturbed => row[t] \notin {"queued", "running"})

----------------------------------------------------------------------------
\* Refinement

\* Where a task stands in the pool that callers see.
PoolStage(t) ==
  IF t \in Front(pending, Len(pending)) THEN "waiting"
  ELSE IF t \in running THEN "active"
  ELSE IF row[t] = "new" THEN "fresh"
  ELSE "over"

Pool == INSTANCE JobPool
          WITH Job <- Task,
               stage <- [t \in Task |-> PoolStage(t)], limit <- concurrency,
               Limits <- 1..MaxConcurrency \cup {DefaultConcurrency}

\* The manager, with its queue, its workers and the stop of the executor, is
\* a pool of jobs: every handler and every worker step is one operation of
\* the pool or invisible to it.
ImplementsJobPool == Pool!PoolSpec

----------------------------------------------------------------------------
\* What interface.md says of DELETE /api/tasks/{id} ("the status becomes
\* cancelling, and cancelled when the worker has finished"), and the code
\* does not do

\* The end of the worker takes the row out of "cancelling".
CancellingResolves ==
  \A t \in Task : row[t] = "cancelling" ~> row[t] # "cancelling"
=============================================================================
