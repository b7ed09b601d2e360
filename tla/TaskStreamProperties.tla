----------------------- MODULE TaskStreamProperties ------------------------
(***************************************************************************)
(* What the browser's task list owes its user, and the order of the events *)
(* it is fed with.                                                         *)
(***************************************************************************)
EXTENDS TaskStream, TaskManagerProperties

\* Nothing about task t is on its way to the list.
Quiet(t) ==
  /\ phase = "up" /\ stream = "open"
  /\ Coming(t) = {} /\ verdict[t] = "none"
  /\ \A f \in Fetch : fetches[f] = Idle
  /\ t \notin created \cup timers

\* When nothing is on its way, the list shows exactly the active tasks,
\* unless the row is stuck, or an answer older than the events, an overflow,
\* a lost link or a failed request left the card wrong: subscribing before the snapshot,
\* asking for a snapshot about unknown tasks and telling every change leaves
\* no other gap.
QuietListIsRight ==
  faults = 0 => \A t \in Task :
     Quiet(t) => \/ cards[t] # "none" <=> row[t] \in Active
                 \/ Stuck(t)
                 \/ t \in unrepaired

\* Behind a task's terminal event comes no other one and no sign of work: a
\* task that was cancelled in the queue is never run, and a worker says
\* nothing after its last word.
TerminalEventIsLast ==
  \A i, j \in DOMAIN channel :
     (i < j /\ channel[i].event = "terminal" /\ channel[j].task = channel[i].task)
        => channel[j].event = "status" /\ channel[j].status # "running"

----------------------------------------------------------------------------
\* The inductive invariant behind both

\* The task was submitted and does not wait, or not any more; the queue has
\* done with it when it has no slot either.
LeftQueue(t) == row[t] # "new" /\ t \notin Front(pending, Len(pending))
Over(t) == LeftQueue(t) /\ t \notin running

TellsEnd(h, t) == handlerOwes[h].event = "terminal" /\ handlerOwes[h].task = t

\* A worker tells of its own task, and of none that still waits.
WorkersTellTheirOwn ==
  \A t \in Task : workerOwes[t] # NoEvent =>
     workerOwes[t].task = t /\ LeftQueue(t)

\* A request handler tells of no work.
HandlersTellNoWork ==
  \A h \in Handler :
     handlerOwes[h] # NoEvent =>
        \/ handlerOwes[h].event = "terminal"
        \/ handlerOwes[h].event = "status" /\ handlerOwes[h].status # "running"

\* Who tells the end of a task is the only one: the queue has done with the
\* task, its worker owes nothing else, and no other handler tells it.
EndIsToldOnce ==
  /\ \A i \in DOMAIN channel : channel[i].event = "terminal" =>
       LET t == channel[i].task
       IN  /\ Over(t) /\ workerOwes[t] = NoEvent
           /\ \A h \in Handler : ~TellsEnd(h, t)
  /\ \A h \in Handler, t \in Task : TellsEnd(h, t) =>
       /\ Over(t) /\ workerOwes[t] = NoEvent
       /\ \A g \in Handler : TellsEnd(g, t) => g = h
  /\ \A t \in Task : workerOwes[t].event = "terminal" =>
       Over(t) /\ \A h \in Handler : ~TellsEnd(h, t)

\* A timeout removes the card of a task the queue has done with.
TimersAreOver == \A t \in timers : Over(t)

\* A worker comes to its cleanup with a status to tell.
VerdictAtCleanup ==
  (phase = "up" /\ faults = 0) =>
     \A t \in Task : At(t, "cleanup") => verdict[t] # "none"

DownIsOff == phase = "down" => stream = "off"

\* The row says that the list shall not show the task, now and later.
Ended(t) == row[t] \notin Active \/ Stuck(t)

\* The list is served, with no snapshot under way.
ListServed ==
  /\ phase = "up" /\ stream = "open" /\ faults = 0
  /\ \A f \in Fetch : fetches[f] = Idle

\* A card that shall go is removed by a terminal event to come or by its
\* timeout; a task without a card that shall have one has an event to come,
\* which will ask for a snapshot.
CardIsRepaired(t) ==
  /\ (cards[t] # "none" /\ Ended(t)) => TerminalComing(t) \/ t \in timers
  /\ (cards[t] = "none" /\ ~Ended(t)) => Coming(t) # {}

ListIsRepaired == ListServed => \A t \in Task \ unrepaired : CardIsRepaired(t)

\* The list needs the order of the events: a terminal event that removes a
\* card comes when the queue has done with the task.
StreamInvariant ==
  /\ StreamTypeOK
  /\ WorkersTellTheirOwn
  /\ HandlersTellNoWork
  /\ EndIsToldOnce
  /\ TerminalEventIsLast
  /\ TimersAreOver
  /\ VerdictAtCleanup
  /\ DownIsOff
  /\ ListIsRepaired

----------------------------------------------------------------------------
\* What the documents say, and the code does not do

\* useTaskStore.ts relies on the stream to catch up: the card of a task that
\* has ended leaves the list.
EndedCardLeaves ==
  \A t \in Task : (cards[t] # "none" /\ row[t] \in Terminal) ~> cards[t] = "none"
=============================================================================
