------------------------------ MODULE Requests ------------------------------
(***************************************************************************)
(* The requests that use several components one after the other: POST      *)
(* /api/uploads/temp (api/uploads.py) and POST /api/tasks (api/tasks.py),  *)
(* with the deletion of credentials, the tasks that will read the          *)
(* reference images, and ends of the process at any point.                 *)
(*                                                                         *)
(* An upload is an async handler on the event loop, the others run in      *)
(* threads.  Of the task manager there is the load and its cap; the        *)
(* template that a creation may save first is left to Startup.  There is   *)
(* one provider, which takes images, and requests name it.                 *)
(***************************************************************************)
EXTENDS ObjectStore, FiniteSets

CONSTANTS
  Task,         \* bound: tasks that are accepted
  Uploader,     \* bound: uploads under way
  Creator,      \* bound: creations under way
  Credential,   \* keys of the provider; their ids are never used again
  MaxN,         \* bound: tasks of one request; 50 in schemas.py
  Cap,          \* the queue cap of the task manager
  Configured,   \* the backends that may be configured
  MaxFaults     \* bound: failing calls and statements, and ends of the process

ASSUME RequestAssumption ==
  /\ MaxN \in Nat \ {0} /\ Cap \in Nat \ {0} /\ MaxFaults \in Nat
  /\ Configured \subseteq Backend
  /\ None \notin Credential

VARIABLES
  storage,    \* the configured backend
  images,     \* the object of a reference image: "none", "torn" or "whole"
  uploads,    \* the uploads under way: their image and next step
  answered,   \* images whose key a client was given
  creates,    \* the creations: see Creation
  tasks,      \* the tasks: see Unused
  keys,       \* the credentials that are stored
  faults,     \* counts faults, up to MaxFaults
  marred      \* history: images whose file was left in the middle of its write

vars == <<storage, images, uploads, answered, creates, tasks, keys, faults, marred>>

----------------------------------------------------------------------------
NoUpload == [image |-> None, step |-> "none"]

\* TaskCreateRequest: both forms of the reference images, and how many tasks.
\* Bound: one image in a list.
Lists == {<<>>} \cup {<<i>> : i \in Upload}
Demand == [key : Credential, legacy : Upload \cup {None}, list : Lists, n : 1..MaxN]
\* Why a request is refused before its first submit, and how it may end else:
\* with 201, a full queue, an exception (500), or a link that cannot be made.
Refused == {"key", "conflict", "input", "storage"}
Ended == Refused \cup {"created", "full", "error", "link"}
\* A creation has made some tasks when it does its next step, or ends.
Creation == [demand : Demand, known : BOOLEAN,
             made : {made \in SUBSET Task : IsFiniteSet(made)},
             step : {"keys", "creds", "inputs", "submit", "url"} \cup Ended]
NoCreation == [step |-> "none"]

Unused == [state |-> "unused", inputs |-> <<>>]
Row == [state : {"active", "ended"}, inputs : Lists]

TypeOK ==
  /\ storage \in Configured
  /\ images \in [Upload -> {"none", "torn", "whole"}]
  /\ uploads \in [Uploader -> {NoUpload} \cup [image : Upload, step : {"check", "save", "write"}]]
  /\ answered \subseteq Upload
  /\ creates \in [Creator -> {NoCreation} \cup Creation]
  /\ tasks \in [Task -> {Unused} \cup Row]
  /\ keys \subseteq Credential
  /\ faults \in 0..MaxFaults
  /\ marred \subseteq Upload

Init ==
  /\ storage \in Configured
  /\ images = [i \in Upload |-> "none"]
  /\ uploads = [u \in Uploader |-> NoUpload]
  /\ answered = {}
  /\ creates = [c \in Creator |-> NoCreation]
  /\ tasks = [t \in Task |-> Unused]
  /\ keys = Credential
  /\ faults = 0
  /\ marred = {}

----------------------------------------------------------------------------
\* Calls of the backend

\* How a call ends: as it should, or with a fault.
Ends(outcome, good) ==
  \/ outcome = good /\ UNCHANGED faults
  \/ outcome \in {"refused", "broken"} /\ faults < MaxFaults /\ faults' = faults + 1

Exists(i, answer) ==
  \E o \in Outcome :
    /\ Ends(o, IF images[i] = "none" THEN "missing" ELSE "ok")
    /\ answer = Adapter(storage).exists[o]

----------------------------------------------------------------------------
\* POST /api/uploads/temp.  Contents that are no image, or too long, end it
\* with an error before anything is done.

Receive(u, i) ==
  /\ uploads[u] = NoUpload
  /\ uploads' = [uploads EXCEPT ![u] = [image |-> i, step |-> "check"]]
  /\ UNCHANGED <<storage, images, answered, creates, tasks, keys, faults, marred>>

\* Slip: a handler in a thread of its own.
ThreadOfItsOwn(u) == TRUE

\* From the last chunk to its answer the handler awaits nothing, so no other
\* upload is in between.
OnLoop(u) == \A v \in Uploader \ {u} : uploads[v].step \in {"none", "check"}

UploadUnchanged == UNCHANGED <<storage, creates, tasks, keys>>

Answer(u) ==
  /\ uploads' = [uploads EXCEPT ![u] = NoUpload]
  /\ answered' = answered \cup {uploads[u].image}

Fail(u) == uploads' = [uploads EXCEPT ![u] = NoUpload] /\ UNCHANGED answered

\* Slip: the object is written again.
SavesAlways(answer) == answer \in {"yes", "no"}

Saves(answer) == answer = "no"

\* The object is stored only if it does not exist.  A link that cannot be made
\* ends the upload like a look-up that fails.
UploadCheck(u) ==
  /\ uploads[u].step = "check" /\ OnLoop(u)
  /\ \E answer \in {"yes", "no", "error", "raise"} :
       /\ Exists(uploads[u].image, answer)
       /\ \/ /\ Saves(answer)
             /\ uploads' = [uploads EXCEPT ![u].step = "save"] /\ UNCHANGED answered
          \/ ~Saves(answer) /\ answer = "yes" /\ Answer(u)
          \/ answer \in {"error", "raise"} /\ Fail(u)
  /\ UNCHANGED <<images, marred>> /\ UploadUnchanged

\* LocalBackend.save: write_bytes creates the file, then writes it.
UploadOpen(u) ==
  /\ uploads[u].step = "save" /\ storage = "local"
  /\ \/ /\ images' = [images EXCEPT ![uploads[u].image] = "torn"]
        /\ uploads' = [uploads EXCEPT ![u].step = "write"]
        /\ UNCHANGED <<answered, faults>>
     \/ \E o \in Outcome \ {"ok"} : Ends(o, "ok") /\ Fail(u) /\ UNCHANGED images
  /\ UNCHANGED marred /\ UploadUnchanged

UploadWrite(u) ==
  LET i == uploads[u].image IN
  /\ uploads[u].step = "write"
  /\ \E o \in Outcome :
       /\ Ends(o, "ok")
       /\ IF LocalSave[o] = "ok"
          THEN images' = [images EXCEPT ![i] = "whole"] /\ Answer(u) /\ UNCHANGED marred
          ELSE Fail(u) /\ marred' = marred \cup {i} /\ UNCHANGED images
  /\ UploadUnchanged

\* put_object of the others stores all of the object or nothing; it may have
\* done so when the call fails, and the link of what is stored may fail too.
UploadPut(u) ==
  LET i == uploads[u].image IN
  /\ uploads[u].step = "save" /\ storage # "local"
  /\ \E o \in Outcome :
       /\ Ends(o, "ok")
       /\ \/ images' = [images EXCEPT ![i] = "whole"]
          \/ o # "ok" /\ UNCHANGED images
       /\ IF Adapter(storage).save[o] = "ok" THEN Answer(u) ELSE Fail(u)
  /\ UNCHANGED marred /\ UploadUnchanged

UploadStep(u) == UploadCheck(u) \/ UploadOpen(u) \/ UploadWrite(u) \/ UploadPut(u)

----------------------------------------------------------------------------
\* POST /api/tasks

CreateUnchanged == UNCHANGED <<storage, images, uploads, answered, keys, marred>>

Create(c, demand) ==
  /\ creates[c].step \in {"none"} \cup Ended
  /\ creates' = [creates EXCEPT ![c] =
       [demand |-> demand, made |-> {}, known |-> demand.key \in keys,
        step |-> "keys"]]
  /\ UNCHANGED <<tasks, faults>> /\ CreateUnchanged

Goto(c, step) == creates' = [creates EXCEPT ![c].step = step]

\* Slip: the key is not looked for.
AnyKey(c) == TRUE

HasKey(c) == creates[c].demand.key \in keys

\* _resolve_task_input: list_keys, then get_key_credentials.
ListKeys(c) ==
  /\ creates[c].step = "keys"
  /\ IF HasKey(c) THEN Goto(c, "creds") ELSE Goto(c, "key")
  /\ UNCHANGED <<tasks, faults>> /\ CreateUnchanged

GetCredentials(c) ==
  /\ creates[c].step = "creds"
  /\ IF HasKey(c) THEN Goto(c, "inputs") ELSE Goto(c, "key")
  /\ UNCHANGED <<tasks, faults>> /\ CreateUnchanged

\* _normalise_requested_input_images.
Conflict(d) == d.list # <<>> /\ d.legacy # None /\ d.list # <<d.legacy>>

Inputs(d) == InputPaths(d.legacy, d.list)

\* Slip: a reference image is not looked for.
AnyInput(answer) == answer \in {"yes", "no"}

\* _validate_input_image_path.
GoodInput(answer) == answer = "yes"

CheckInputs(c) ==
  LET d == creates[c].demand IN
  /\ creates[c].step = "inputs"
  /\ \/ Conflict(d) /\ Goto(c, "conflict") /\ UNCHANGED faults
     \/ ~Conflict(d) /\ Inputs(d) = <<>> /\ Goto(c, "submit") /\ UNCHANGED faults
     \/ /\ ~Conflict(d) /\ Inputs(d) # <<>>
        /\ \E answer \in {"yes", "no", "error", "raise"} :
             /\ Exists(Inputs(d)[1], answer)
             /\ \/ GoodInput(answer) /\ Goto(c, "submit")
                \/ ~GoodInput(answer) /\ answer = "no" /\ Goto(c, "input")
                \/ answer \in {"error", "raise"} /\ Goto(c, "storage")
  /\ UNCHANGED tasks /\ CreateUnchanged

Load == Cardinality({t \in Task : tasks[t].state = "active"})

\* Slip: the submissions go on until the queue is full.
EnoughNever(c) == FALSE

\* Slip: one task too few.
EnoughOneLess(c) == Cardinality(creates[c].made) + 2 >= creates[c].demand.n

Enough(c) == Cardinality(creates[c].made) + 1 = creates[c].demand.n

\* TaskManager.submit inserts the row of a task, and then starts what it can.
MayInsert(c) == creates[c].step = "submit" /\ Load < Cap

Insert(c, t, step) ==
  /\ tasks[t] = Unused
  /\ tasks' = [tasks EXCEPT ![t] =
       [state |-> "active", inputs |-> Inputs(creates[c].demand)]]
  /\ creates' = [creates EXCEPT ![c].made = @ \cup {t}, ![c].step = step]

\* One of the n submissions.
Submit(c, t) ==
  /\ MayInsert(c)
  /\ Insert(c, t, IF Enough(c) THEN "url" ELSE "submit")
  /\ UNCHANGED faults /\ CreateUnchanged

\* executor.submit raises, when the row is there and the handle in a slot: the
\* request ends with 500.  What became of the task is left open.
SubmitRaises(c, t) ==
  /\ MayInsert(c)
  /\ faults < MaxFaults /\ faults' = faults + 1
  /\ Insert(c, t, "error")
  /\ CreateUnchanged

\* A look-up or the INSERT raises: 500, too.  The tasks of the submissions
\* before it stay.
StatementRaises(c) ==
  /\ creates[c].step \in {"keys", "creds"} \/ MayInsert(c)
  /\ faults < MaxFaults /\ faults' = faults + 1
  /\ Goto(c, "error")
  /\ UNCHANGED tasks /\ CreateUnchanged

QueueFull(c) ==
  /\ creates[c].step = "submit" /\ Load >= Cap
  /\ Goto(c, "full")
  /\ UNCHANGED <<tasks, faults>> /\ CreateUnchanged

\* _build_task_item asks the backend for the links; signing one may fail.
BuildItems(c) ==
  /\ creates[c].step = "url"
  /\ \/ Goto(c, "created") /\ UNCHANGED faults
     \/ /\ Inputs(creates[c].demand) # <<>> /\ storage # "local"
        /\ faults < MaxFaults /\ faults' = faults + 1
        /\ Goto(c, "link")
  /\ UNCHANGED tasks /\ CreateUnchanged

CreateStep(c) ==
  \/ ListKeys(c) \/ GetCredentials(c) \/ CheckInputs(c) \/ QueueFull(c)
  \/ BuildItems(c) \/ StatementRaises(c)
  \/ \E t \in Task : Submit(c, t) \/ SubmitRaises(c, t)

----------------------------------------------------------------------------
\* The rest of the server

\* delete_key of the provider store.
DeleteKey(k) ==
  /\ k \in keys
  /\ keys' = keys \ {k}
  /\ UNCHANGED <<storage, images, uploads, answered, creates, tasks, faults, marred>>

\* A task ends, cancelled in the queue or after its worker, which has read the
\* reference images (_build_reference_images) by then.
EndTask(t) ==
  /\ tasks[t].state = "active"
  /\ tasks' = [tasks EXCEPT ![t] = [state |-> "ended", inputs |-> <<>>]]
  /\ UNCHANGED <<storage, images, uploads, answered, creates, keys, faults, marred>>

\* The process ends and starts again; unfinished tasks are failed.
Restart ==
  /\ faults < MaxFaults /\ faults' = faults + 1
  /\ marred' = marred \cup {uploads[u].image : u \in {v \in Uploader : uploads[v].step = "write"}}
  /\ uploads' = [u \in Uploader |-> NoUpload]
  /\ creates' = [c \in Creator |-> NoCreation]
  /\ tasks' = [t \in Task |-> IF tasks[t] = Unused THEN Unused
                              ELSE [state |-> "ended", inputs |-> <<>>]]
  /\ UNCHANGED <<storage, images, answered, keys>>

----------------------------------------------------------------------------
Next ==
  \/ \E u \in Uploader : UploadStep(u) \/ \E i \in Upload : Receive(u, i)
  \/ \E c \in Creator : CreateStep(c) \/ \E demand \in Demand : Create(c, demand)
  \/ \E k \in Credential : DeleteKey(k)
  \/ \E t \in Task : EndTask(t)
  \/ Restart

Spec == Init /\ [][Next]_vars
=============================================================================
