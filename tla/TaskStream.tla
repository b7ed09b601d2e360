----------------------------- MODULE TaskStream -----------------------------
(***************************************************************************)
(* The task queue seen from one browser: the events TaskManager._emit      *)
(* sends after its critical sections, the SSE connection of api/tasks.py   *)
(* and the task list of the frontend (useTaskStream.ts, useTaskStore.ts),  *)
(* which is kept by events, by snapshots and by the answers of POST        *)
(* /api/tasks.  Every step of TaskManager is one here, with its events.    *)
(*                                                                         *)
(* Progress values are left out: a progress event carries "running".       *)
(***************************************************************************)
EXTENDS TaskManager

CONSTANTS
  Handler,   \* bound: request threads that have an event still to emit
  Fetch,     \* bound: requests GET /api/tasks under way
  QueueMax,  \* the size of a connection's queue.Queue, 1024 in the code
  MaxBreaks  \* bound: broken connections, overflows, lost links, failed requests

ASSUME StreamAssumption == QueueMax \in Nat \ {0} /\ MaxBreaks \in Nat

VARIABLES
  verdict,      \* the last status a worker has written and not yet told
  workerOwes,   \* the event the task's worker thread emits next
  handlerOwes,  \* the event a request thread emits next
  stream,       \* the browser's EventSource: "off", "greeting", "open"
  channel,      \* what its listener has queued, oldest first
  cards,        \* useTaskStore.tasksById: the status of the card, or "none"
  fetches,      \* the snapshot requests: see Idle, Asked and Answered
  created,      \* tasks whose POST answer is on its way to the browser
  timers,       \* tasks whose card a timeout will remove
  breaks,       \* counts breaks, up to MaxBreaks
  unrepaired    \* history: tasks whose card was left wrong by an answer older
                \* than the events, an overflow, a lost link of a success or a
                \* failed request

serverVars == <<verdict, workerOwes, handlerOwes>>
browserVars == <<cards, fetches, created, timers>>
streamVars == <<serverVars, stream, channel, browserVars, breaks, unrepaired>>
allVars == <<vars, streamVars>>

----------------------------------------------------------------------------
\* Events

Event == [event : {"status", "progress"}, task : Task, status : Active]
         \cup [event : {"terminal"}, task : Task, status : Terminal]
NoEvent == [event |-> "none"]

StatusEvent(t, s) == [event |-> "status", task |-> t, status |-> s]
ProgressEvent(t) == [event |-> "progress", task |-> t, status |-> "running"]
TerminalEvent(t, s) == [event |-> "terminal", task |-> t, status |-> s]

CardStatus == {"none", "succeeded"} \cup Active
Snapshot == [Task -> {"none"} \cup Active]

\* The states of a request: not in use, under way, answered with the rows.
Idle == [state |-> "idle"]
Asked == [state |-> "asked"]
Answered(rows) == [state |-> "answered", rows |-> rows]

StreamTypeOK ==
  /\ TypeOK
  /\ verdict \in [Task -> {"none"} \cup Terminal]
  /\ workerOwes \in [Task -> Event \cup {NoEvent}]
  /\ handlerOwes \in [Handler -> Event \cup {NoEvent}]
  /\ stream \in {"off", "greeting", "open"}
  /\ channel \in Seq(Event) /\ Len(channel) <= QueueMax
  /\ cards \in [Task -> CardStatus]
  /\ fetches \in [Fetch -> {Idle, Asked} \cup {Answered(rows) : rows \in Snapshot}]
  /\ created \subseteq Task
  /\ timers \subseteq Task
  /\ breaks \in 0..MaxBreaks
  /\ unrepaired \subseteq Task

StreamInit ==
  /\ Init
  /\ verdict = [t \in Task |-> "none"]
  /\ workerOwes = [t \in Task |-> NoEvent]
  /\ handlerOwes = [h \in Handler |-> NoEvent]
  /\ stream = "off"
  /\ channel = <<>>
  /\ cards = [t \in Task |-> "none"]
  /\ fetches = [f \in Fetch |-> Idle]
  /\ created = {}
  /\ timers = {}
  /\ breaks = 0
  /\ unrepaired = {}

----------------------------------------------------------------------------
\* The server: TaskManager's steps and the events they leave to emit

HandlerSays(h, e) ==
  /\ handlerOwes[h] = NoEvent
  /\ handlerOwes' = [handlerOwes EXCEPT ![h] = e]
  /\ UNCHANGED <<verdict, workerOwes, stream, channel, browserVars, breaks,
                 unrepaired>>

\* The event is lost if update_task_fields raises.
UnlessRaised(t, e) == IF HasRow(t) /\ faults' = faults THEN e ELSE NoEvent

SubmitTelling(t, priority, h) ==
  Submit(t, priority) /\ HandlerSays(h, StatusEvent(t, "queued"))

CancelPendingTelling(i, h) ==
  /\ CancelPending(i)
  /\ LET t == pending[i] IN
       HandlerSays(h, UnlessRaised(t, TerminalEvent(t, "cancelled")))

CancelRunningTelling(t, h) ==
  /\ CancelRunning(t)
  /\ HandlerSays(h, UnlessRaised(t, StatusEvent(t, "cancelling")))

\* Settings and history deletes emit nothing.
SilentHandler ==
  /\ \/ \E n \in ConcurrencyRange : SetConcurrency(n)
     \/ \E n \in QueueCapRange : SetQueueCap(n)
     \/ \E t \in Task : EraseCheck(t) \/ EraseImage(t) \/ EraseRow(t)
  /\ UNCHANGED streamVars

\* The worker writes its last status, and tells it after the cleanup; a
\* success whose read-back raises is not told.
NoteVerdict(t) ==
  \/ verdict' = [verdict EXCEPT ![t] =
       CASE At(t, "succeed") /\ row'[t] = "succeeded" /\ faults' = faults
                                                      -> "succeeded"
         [] At(t, "cancel") /\ pc'[t] = "cleanup"     -> "cancelled"
         [] At(t, "fail") /\ pc'[t] = "cleanup"       -> "failed"
         [] At(t, "cleanup")                          -> "none"
         [] OTHER                                     -> @]
  \/ At(t, "succeed") /\ phase = "shut" /\ UNCHANGED verdict

\* _on_progress follows a passed cancel check.
Passed(t) ==
  <<pc[t], pc'[t]>> \in {<<"prepare", "request">>, <<"request", "download">>,
                         <<"download", "save">>, <<"saved", "succeed">>}

\* A cleanup whose executor.submit raises never comes to its event.
CleanupRaises == ~ExecutorOpen /\ ~(running' \subseteq running)

WorkerEvent(t) ==
  CASE At(t, "mark") /\ pc'[t] = "prepare" -> StatusEvent(t, "running")
    [] Passed(t) /\ DbOpen /\ HasRow(t)    -> ProgressEvent(t)
    [] At(t, "cleanup") /\ verdict[t] # "none" /\ ~CleanupRaises
                                           -> TerminalEvent(t, verdict[t])
    [] OTHER                               -> NoEvent

WorkerTelling(t) ==
  /\ workerOwes[t] = NoEvent
  /\ Worker(t)
  /\ NoteVerdict(t)
  /\ workerOwes' = [workerOwes EXCEPT ![t] = WorkerEvent(t)]
  /\ UNCHANGED <<handlerOwes, stream, channel, browserVars, breaks, unrepaired>>

\* The server stops after its requests; the end of the process ends its
\* threads and connections.
StopTelling ==
  /\ \/ ShutdownCancel /\ \A h \in Handler : handlerOwes[h] = NoEvent
     \/ ShutdownExecutor
     \/ CloseStorage
     \/ Start
  /\ UNCHANGED streamVars

ExitTelling ==
  /\ Exit
  /\ verdict' = [t \in Task |-> "none"]
  /\ workerOwes' = [t \in Task |-> NoEvent]
  /\ handlerOwes' = [h \in Handler |-> NoEvent]
  /\ stream' = "off"
  /\ channel' = <<>>
  /\ fetches' = [f \in Fetch |-> IF fetches[f] = Asked THEN Idle ELSE fetches[f]]
  /\ UNCHANGED <<cards, created, timers, breaks, unrepaired>>

----------------------------------------------------------------------------
\* The connection

\* Slip: the listener's queue has no limit.
PublishUnbounded(e) ==
  /\ channel' = IF stream = "off" THEN channel ELSE Append(channel, e)
  /\ UNCHANGED <<breaks, unrepaired>>

\* _emit calls the listener, which drops what its queue cannot take.
Publish(e) ==
  \/ /\ stream = "off"
     /\ UNCHANGED <<channel, breaks, unrepaired>>
  \/ /\ stream # "off"
     /\ Len(channel) < QueueMax
     /\ channel' = Append(channel, e)
     /\ UNCHANGED <<breaks, unrepaired>>
  \/ /\ stream # "off"
     /\ Len(channel) = QueueMax
     /\ breaks < MaxBreaks
     /\ breaks' = breaks + 1
     /\ unrepaired' = unrepaired \cup {e.task}
     /\ UNCHANGED channel

\* to_url makes the link of a success before its event is emitted, and may
\* raise: nobody is told.
LinkRaises(e) ==
  /\ e.event = "terminal" /\ e.status = "succeeded"
  /\ breaks < MaxBreaks
  /\ breaks' = breaks + 1
  /\ unrepaired' = unrepaired \cup {e.task}
  /\ UNCHANGED channel

EmitWorker(t) ==
  /\ workerOwes[t] # NoEvent
  /\ Publish(workerOwes[t]) \/ LinkRaises(workerOwes[t])
  /\ workerOwes' = [workerOwes EXCEPT ![t] = NoEvent]
  /\ UNCHANGED <<vars, verdict, handlerOwes, stream, browserVars>>

\* The handler emits and then answers; the answer to a submission may go to
\* this browser.
EmitHandler(h) ==
  /\ handlerOwes[h] # NoEvent
  /\ Publish(handlerOwes[h])
  /\ handlerOwes' = [handlerOwes EXCEPT ![h] = NoEvent]
  /\ created' \in IF handlerOwes[h].status = "queued"
                  THEN {created, created \cup {handlerOwes[h].task}}
                  ELSE {created}
  /\ UNCHANGED <<vars, verdict, workerOwes, stream, cards, fetches, timers>>

\* stream_events registers its listener before it sends "hello"; the
\* browser reconnects by itself.
Subscribe ==
  /\ phase = "up"
  /\ stream = "off"
  /\ stream' = "greeting"
  /\ UNCHANGED <<vars, serverVars, channel, browserVars, breaks, unrepaired>>

Disconnect ==
  /\ stream # "off"
  /\ breaks < MaxBreaks
  /\ breaks' = breaks + 1
  /\ stream' = "off"
  /\ channel' = <<>>
  /\ UNCHANGED <<vars, serverVars, browserVars, unrepaired>>

----------------------------------------------------------------------------
\* The browser

Card(t, s) == cards' = [cards EXCEPT ![t] = s]

\* fetchActive: the request leaves.
Ask(f) == fetches[f] = Idle /\ fetches' = [fetches EXCEPT ![f] = Asked]

\* Slip: the stream is opened without a snapshot.
HelloAlone ==
  /\ stream = "greeting"
  /\ stream' = "open"
  /\ UNCHANGED <<vars, serverVars, channel, browserVars, breaks, unrepaired>>

\* "hello" asks for a snapshot.
Hello ==
  /\ stream = "greeting"
  /\ stream' = "open"
  /\ \E f \in Fetch : Ask(f)
  /\ UNCHANGED <<vars, serverVars, channel, cards, created, timers, breaks,
                 unrepaired>>

\* The task list page asks for one when it is opened, and on its button.
Refresh ==
  /\ \E f \in Fetch : Ask(f)
  /\ UNCHANGED <<vars, serverVars, stream, channel, cards, created, timers,
                 breaks, unrepaired>>

\* list_tasks reads the active rows.
ServeFetch(f) ==
  /\ phase = "up"
  /\ fetches[f] = Asked
  /\ fetches' = [fetches EXCEPT ![f] =
       Answered([t \in Task |-> IF row[t] \in Active THEN row[t] ELSE "none"])]
  /\ UNCHANGED <<vars, serverVars, stream, channel, cards, created, timers,
                 breaks, unrepaired>>

\* A request fails; refreshTask ignores that.
FailFetch(f) ==
  /\ fetches[f] = Asked
  /\ breaks < MaxBreaks
  /\ breaks' = breaks + 1
  /\ fetches' = [fetches EXCEPT ![f] = Idle]
  /\ unrepaired' = Task
  /\ UNCHANGED <<vars, serverVars, stream, channel, cards, created, timers>>

Owed == {workerOwes[t] : t \in Task} \cup {handlerOwes[h] : h \in Handler}
Coming(t) ==
  {e \in Event : e.task = t /\ (e \in Owed \/ \E i \in DOMAIN channel : channel[i] = e)}
TerminalComing(t) ==
  verdict[t] # "none" \/ \E e \in Coming(t) : e.event = "terminal"

\* A cancel came between the worker's last write and its cleanup: nobody
\* will write the row again.
Stuck(t) == row[t] = "cancelling" /\ t \notin running

\* A card that nothing on its way will put right.
LeftWrong(t, shown) ==
  \/ /\ shown # "none"
     /\ row[t] \notin Active \/ Stuck(t)
     /\ ~TerminalComing(t)
  \/ shown = "none" /\ row[t] \in Active /\ Coming(t) = {}

\* fetchActive: the answer replaces the list.
ApplySnapshot(f) ==
  /\ fetches[f].state = "answered"
  /\ cards' = fetches[f].rows
  /\ fetches' = [fetches EXCEPT ![f] = Idle]
  /\ unrepaired' = {t \in Task : LeftWrong(t, fetches[f].rows[t])}
  /\ UNCHANGED <<vars, serverVars, stream, channel, created, timers, breaks>>

\* The drawer upserts the row its POST was answered with.
ApplyCreated(t) ==
  /\ t \in created
  /\ created' = created \ {t}
  /\ Card(t, "queued")
  /\ unrepaired' = IF LeftWrong(t, "queued") THEN unrepaired \cup {t}
                   ELSE unrepaired
  /\ UNCHANGED <<vars, serverVars, stream, channel, fetches, timers, breaks>>

\* applyStatus and applyProgress; about an unknown task they ask for a
\* snapshot.
Update(e) ==
  \/ /\ cards[e.task] # "none"
     /\ Card(e.task, e.status)
     /\ UNCHANGED fetches
  \/ /\ cards[e.task] = "none"
     /\ \E f \in Fetch : Ask(f)
     /\ UNCHANGED cards

\* applyTerminal: a success is shown until a timeout removes it.
Settle(e) ==
  \/ /\ e.status = "succeeded"
     /\ IF cards[e.task] # "none" THEN Card(e.task, "succeeded")
        ELSE UNCHANGED cards
     /\ timers' = timers \cup {e.task}
  \/ /\ e.status # "succeeded"
     /\ Card(e.task, "none")
     /\ UNCHANGED timers

Deliver ==
  /\ stream = "open"
  /\ channel # <<>>
  /\ channel' = Tail(channel)
  /\ LET e == Head(channel) IN
       \/ e.event # "terminal" /\ Update(e) /\ UNCHANGED timers
       \/ e.event = "terminal" /\ Settle(e) /\ UNCHANGED fetches
  /\ UNCHANGED <<vars, serverVars, stream, created, breaks, unrepaired>>

Timeout(t) ==
  /\ t \in timers
  /\ timers' = timers \ {t}
  /\ Card(t, "none")
  /\ UNCHANGED <<vars, serverVars, stream, channel, fetches, created, breaks,
                 unrepaired>>

----------------------------------------------------------------------------
Server ==
  \/ \E t \in Task, priority \in BOOLEAN, h \in Handler :
       SubmitTelling(t, priority, h)
  \/ \E i \in DOMAIN pending, h \in Handler : CancelPendingTelling(i, h)
  \/ \E t \in Task, h \in Handler : CancelRunningTelling(t, h)
  \/ SilentHandler \/ StopTelling \/ ExitTelling
  \/ \E t \in Task : WorkerTelling(t)

Connection ==
  \/ \E t \in Task : EmitWorker(t)
  \/ \E h \in Handler : EmitHandler(h)
  \/ Subscribe \/ Disconnect

Browser ==
  \/ Hello \/ Refresh \/ Deliver
  \/ \E f \in Fetch : ServeFetch(f) \/ FailFetch(f) \/ ApplySnapshot(f)
  \/ \E t \in Task : ApplyCreated(t) \/ Timeout(t)

StreamNext == Server \/ Connection \/ Browser

StreamSpec == StreamInit /\ [][StreamNext]_allVars

\* Threads go on, requests are answered, the browser reconnects and runs its
\* callbacks.
FairStreamSpec ==
  /\ StreamSpec
  /\ \A t \in Task : WF_allVars(WorkerTelling(t)) /\ WF_allVars(EmitWorker(t))
                     /\ WF_allVars(ApplyCreated(t)) /\ WF_allVars(Timeout(t))
  /\ \A h \in Handler : WF_allVars(EmitHandler(h))
  /\ \A f \in Fetch : WF_allVars(ServeFetch(f)) /\ WF_allVars(ApplySnapshot(f))
  /\ WF_allVars(Subscribe) /\ WF_allVars(Hello) /\ WF_allVars(Deliver)
=============================================================================
