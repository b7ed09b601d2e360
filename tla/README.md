# vibe-image: a TLA+ development

vibe-image is a small web application that generates images with an upstream
HTTP API. A FastAPI backend (`src/backend/app`) queues generation tasks, runs
them on a thread pool, keeps them in SQLite and stores the images through an
object-store adapter. A Vue frontend (`src/frontend/src`) shows the active
tasks live over Server-Sent Events, the history, prompt templates and provider
settings. Two scripts work on the same data: one initialises the database, one
moves local pictures to object storage.

This directory models the parts of it whose correctness depends on the order
of steps, checks them with TLC on small instances, and proves theorems about
them for every value of the constants with TLAPS.

## 1. Inventory

| component | state | operations | hard behaviour | what makes it correct |
|---|---|---|---|---|
| Task manager `core/task_manager.py`, worker steps `core/generator.py` | `_pending`, `_running`, `_concurrency`, `_queue_cap`, cancel events, worker threads | submit, cancel, set_concurrency, set_queue_cap, shutdown, `_pump_locked`, `_run_task` and its ends | handlers and workers interleave; a cancel races each step of its worker; the pool is replaced while it runs; an error skips the cleanup | no task lost, doubled or reordered; no idle slot; no dispatch above the concurrency; a row is settled by who owns it |
| Task rows `core/storage.py`, history delete `api/history.py` | the `tasks` table, one connection behind an RLock | insert, update, delete, list, search, orphan marking, close | the three steps of a delete against a worker; close under busy workers | a succeeded row has its image, a dropped row leaves none behind |
| Process `main.py` | start, stop, crash | lifespan | stop with workers in any state | every row that a dead process left is settled at the start |
| Settings `api/settings.py` | none of its own | PUT: concurrency, then cap | the second setter refuses after the first has been applied | a refused request changes nothing |
| Task events and stream `api/tasks.py`, `useTaskStream.ts`, `useTaskStore.ts` | listeners, a bounded queue per connection, the browser's card map, timers | emit, subscribe, hello, deliver, snapshot, POST answer | events leave after the lock; snapshots, answers, events and timers overtake each other; overflow; reconnect | once nothing is on its way the list shows the active tasks |
| Task creation `api/tasks.py`, `schemas.py` | none | key look-ups, reference images, n submissions, links | the queue fills in the middle of n; the key goes between two look-ups; an image is read long after its check | the answer says what happened; what was checked is still true when a worker uses it |
| Uploads `api/uploads.py` | content-addressed objects | check, save | two uploads of one image; skip if it exists; a crash in the middle of a write | an object has the content its name says |
| Provider store `core/provider_store.py`, `api/providers.py` | keys, configs, models, default key | CRUD, refresh over the network, resolve credentials | state read before an upstream call and used after it; several statements in autocommit mode | no model or default outlives its key |
| Database initialisation `core/storage.py`, `scripts/init_db.py` | columns, backfilled lists, seed templates | `init_db`, seed import | two initialisers at once; a crash between two ALTER TABLEs | what serves has the current columns; a start that failed succeeds the next time |
| Secrets `core/secret_box.py`, `main.py` | master key file, demo token file, environment, config.yaml | resolve, generate | a crash in the middle of the write; the environment changes between starts | stored credentials can be opened; invitations stay valid |
| Prompt templates `core/storage.py`, `api/prompts.py` | the `prompt_templates` table | save, update, delete, import | imports race with requests of another process | the text of a user is changed by users only |
| Storage backends `core/storage_backend.py`, `core/storage_backends/` | objects | save, exists, delete, links | which vendor error becomes which answer | an error is never taken for an answer |
| Migration `scripts/migrate_to_oss.py` | rows, local and remote objects | batch with retries and limits | killed between any two steps, run again, beside history deletes | no picture is lost; rows name stored objects; reruns finish |
| Browser forms: provider picker, history view, drawer | form state | watchers, debounced searches | a value captured before an await; an old answer overtakes a new one | see section 7 |
| Upstream provider, cryptography, remaining configuration, packaging, other views | little or none | I/O | vendor behaviour | see section 7 |

How they interact: request handlers and worker threads share the manager's
lock; the manager calls the storage under its lock and emits events after
releasing it; a connection's listener runs on the emitting thread and hands
the event to a queue that the server sends from; the browser combines three
sources (events, snapshots, POST answers) in one map. The history delete does
not take the manager's lock. An upload is an async handler: it runs on the
event loop and gives it up only while it reads its body; creations run in
threads beside it. The lifespan of `main.py` creates and destroys all of this.
The scripts share the database and the object store with the server and none
of its locks.

`PROJECT.json` lists the hazards, each at its line, with the properties that
cover it or the reason why none does.

## 2. Modules

| module | models | lines up with |
|---|---|---|
| `TaskManager` | queue, workers, rows, images, history delete, process | an action per critical section, statement or blocking call |
| `TaskManagerProperties` | invariants, action properties, liveness, the refinement mapping, what the documents say | |
| `JobPool` | abstract: jobs run once, a limit, no idle slot | nothing in the code: it is the promise |
| `TaskManagerProofs` | theorems: the invariant, the dispatch properties | |
| `TaskRowsProofs` | theorems: rows, images, cancels, errors and the load | |
| `TaskManagerRefinement` | theorem: `TaskManager` implements `JobPool` | |
| `TaskStream` | `TaskManager` composed with its events, one connection and one browser | every action of `TaskManager` with the event it leaves to emit, plus the steps of connection and browser |
| `TaskStreamProperties` | properties of the above, the inductive invariant | |
| `TaskStreamProofs` | theorems: the composition implements `TaskManager`, its invariant, the order of events, the list | |
| `ProviderStore` | keys, models, config and default key of one provider, with the requests on them | an action per statement of sqlite or upstream call |
| `ProviderStoreProperties` | invariants, the refinement mapping, what the documents say | |
| `ProviderCatalog` | abstract: every operation of the store at once | `InMemoryProviderStore`, the store's other implementation |
| `ProviderStoreProofs` | theorems of `ProviderStore` | |
| `ObjectStore` | the storage backends and the paths of the tasks table, as functions | the methods of each adapter; used by the next two |
| `MigrateToOss`, `MigrateToOssProperties` | the migration script, history deletes beside it, the operator | an action per backend call, UPDATE, kill |
| `MigrateToOssProofs` | theorems of `MigrateToOss` | |
| `Requests`, `RequestsProperties` | uploads and task creations, composed with deletes of keys, ends of tasks and restarts | an action per look-up, call of the backend or submission |
| `RequestsProofs` | theorems of `Requests` | |
| `Startup`, `StartupProperties` | configuration, `init_db` in the server and in the script, master key, demo token, template requests | an action per statement, file open or file write |
| `StartupProofs` | theorems of `Startup` | |
| `MCTaskManager`, `MCTaskStream`, `MCProviderStore`, `MCMigrateToOss`, `MCRequests`, `MCStartup` | TLC instances | |

### TaskManager

Correspondence of the state:

* `pending`, `running`, `concurrency`, `queueCap` are the manager's fields;
  `running` keeps the keys only. `cancelEvent` is the set of live handles whose
  event is set.
* `row` is the status column, with "new" before the insert and "deleted" after
  a history delete. Ids come from `uuid4()` and are not used twice.
* `image` relates the object store to the row's `image_path`.
* `pc` is the point where the worker thread of a task stands. The points are
  chosen so that between two of them there is exactly one effect another
  thread can see: a critical section, a statement, a store call, or an
  upstream call with the cancel check behind it.
* `erasing` is the point of `delete_history`.
* `phase` is the state of the process: `_lifespan` calls `manager.shutdown`
  (two steps: cancel events, executor), then `storage.close`, and the process
  ends later or crashes earlier.

A critical section of `_lock` is one action with everything it calls:
`Submit`, `SetConcurrency` and `PostRunCleanup` include `_pump_locked`, whose
loop is written as its result (`Taken`, `Front`, `Rest`), including that
`executor.submit` raises after the executor has been shut down, at a moment
when the handle has already moved to `_running`.

Errors: `DbRaises` lets every statement raise, by an sqlite error (counted by
`faults`) or because the connection is closed. `SetRowRaises` covers that
`update_task_fields` reads the row back and may raise after its UPDATE; for
the last write of a success that is an alternative of `Succeed`.

Abstracted: progress, title and metadata columns (nothing decides by them);
the upstream call, parsing and download are their outcome; the executor
threads beyond the worker itself (a dispatched handle may wait for a thread,
which "dispatched" allows). Two errors of `submit` are left out here: an INSERT
that raises leaves the manager as it was, and a thread that cannot be started
although the executor is open is the operating system's refusal. What a request
of several submissions leaves when one of them raises is in `Requests`
(`StatementRaises`, `SubmitRaises`).

### TaskStream

`TaskStream` EXTENDS `TaskManager` and conjoins to each of its actions the
event that the code emits after leaving the lock: a request thread or a worker
owes at most one event (`handlerOwes`, `workerOwes`) and emits it in a later
step. The connection is `stream_events`: the listener is registered when the
request arrives ("greeting"), its queue drops what does not fit, hello is sent
behind it. The browser is `useTaskStream.ts` and `useTaskStore.ts`: hello asks
for a snapshot, events about unknown tasks ask for one too, an answer replaces
the whole map, a terminal event removes the card (for a success after a
timeout), and the answer of a POST upserts its tasks.

`verdict` remembers which terminal event the worker is about to emit.
Its write may raise behind the UPDATE; then the row says how the task ended and
no event does. The link that goes into the event of a success may fail, too
(`LinkRaises`: `to_url` raises between the cleanup and the emit). `unrepaired`
is a history variable: the tasks whose card was left wrong by an answer older
than the events, by an overflow, by a failed request or by a lost link. No
action reads it.

Abstracted: progress values and the ETA, the other pages, EventSource's
back-off (it reconnects at some time), a second browser (it shares nothing
with the first but the rows).

### ProviderStore

The connection of `SqliteProviderStore` is in autocommit mode, so the unit of
atomicity is the statement. The store's RLock keeps other requests from coming
between the statements of one operation, but neither an error nor the end of
the process does. Hence:

* `keys`, `models`, `config` are the rows of the three tables for one provider
  (every statement names its provider, so providers share nothing). The row of
  `provider_configs` is never deleted; a `url` of `None` says it is not there.
* `lock` is the request inside an operation of several statements, `at` the
  statement each request executes next, `arg` what it has in hand: the key
  and config of the request, the rest of an upstream answer, the row that
  `upsert_config` has read.
* A statement of an operation of one statement needs the lock to be free
  (`MayRead`); the first of several takes it (`Acquire`), the last gives it
  back (`Release`).
* `put_config` is `PutConfig`, `Lookup`, `UpsertSelect`, `UpsertWrite`;
  `delete_key` is `DeleteRow`, `Cascade`, `ClearDefault`; a refresh is
  `CheckKey` (the check behind POST refresh; POST keys goes straight on),
  `GetCredentials`, `ResolveBaseUrl`, `Fetch`, `Purge` and one `InsertModel`
  per model. An answer that lists a model twice runs into the primary key: the
  statement raises and what has been inserted stays (`CanInsert`).
* `Raise` lets any statement of a handler raise, `Restart` ends the process
  between any two statements. `faults` counts both.
* `issued` are the key ids clients were told of: a request names no others.

`excused` and `before` are history variables that no guard reads. `excused`
marks a leftover at the moment its reason appears: a refresh under way when
its key is deleted, a request that names a key after its delete, an error.
`before` keeps the rows the operation under way started from; from the first
error on it keeps the rows shown last, so that the refinement of
`ProviderCatalog` speaks of the time up to then and says nothing afterwards
(a `delete_key` that is cut off leaves models without a key, which no
operation of the catalog does).

Abstracted: labels, ciphertexts, timestamps and `default_model` (a request that
names only a default model is the one that names neither URL nor key); which
base URL a refresh uses; the check of the base URL's form; reads that decide
nothing (GET routes).

### ObjectStore

A call of a vendor SDK ends well, with a 404, with another error of the SDK's
own classes, or with an exception the adapter does not know (`Outcome`). An
adapter is a table from outcomes to answers: `S3Exists`, `AliyunDelete` and
the rest, one per method and vendor, translated from the except clauses;
`Adapter` is `build_storage_backend`. A path of the tasks table is a form and a
name (`Form` lists the five forms that releases have written), and `ToUrl`,
`LegacyKey`, `InputPaths` say what `to_url`, `_legacy_path_to_key` and
`_normalise_input_image_paths` make of one. A generated image has a name of its
own, a reference image the hash of its content, so names stand for contents.

### MigrateToOss

`cells` are the path columns of each row; `disk` and `remote` the two stores.
`pc` is the point of the script inside `_migrate`: at a cell (`Cached`,
`LookUp`), before one more `Save` of `_save_with_retry`, before the `Write` of
the column that is complete. `cache` is `migrated_cache`, which lives as long
as its row. `Kill` ends a run anywhere, and so does an exception that nobody
catches (`Die`). `verified` remembers that a full run has ended without a
failure: the script leaves the local files alone, and an operator who trusts
its report may then remove them (`CleanUp`). `erase` is a `delete_history` beside the script.
`excused` is a history variable: rows whose delete overlapped with the script,
or was refused by the backend.

Abstracted: http(s) URLs and Windows paths in cells (the script skips the
former and treats the latter as it treats "outside"), rows added while the
script runs (they hold keys from the start), the statistics beyond whether
anything failed. `--limit 0` is here what the script's default is: no limit.

### Requests

An upload reads its body (`Receive`), and then goes through look-up, save and
answer without giving the event loop up: `OnLoop` says that at most one upload
is between these, and that nothing else is excluded; creations and workers
run in threads. `LocalBackend.save` is two steps (`write_bytes` creates the file, then
fills it), `put_object` of the others is one. A creation is `Create`,
`ListKeys`, `GetCredentials`, `CheckInputs`, one `Submit` per task (or
`QueueFull`) and `BuildItems`, in the order of `create_tasks`. Any of them may
raise, and then the request ends with a 500 ("error"): `StatementRaises` is a
look-up or an INSERT, `SubmitRaises` an executor that starts no worker for a
row that is there already. The tasks of the submissions before it stay. `made`
has the tasks of a creation; its record stays until the next one, with the way
it ended, so that properties can compare the answer with what happened. `EndTask`, `DeleteKey` and `Restart` are what goes
on beside them. `marred` is a history variable: images whose file was left in
the middle of its write.

Abstracted: of the task manager there is the load against the cap
(`TaskManager` has the rest); one provider, named and able to take images; one
reference image per list; contents that are no image or too large (refused
before anything happens); the template a creation may save first (`Startup`).

### Startup

`Plan` is `init_db` as the list of its statements. The server and the script
walk along it independently (`at`), with what each has probed (`cols`); the
script walks twice. An `ALTER TABLE` that finds its column there, and an INSERT
that finds its id there, raises, and the process ends (`Abort`). `schema` has
the columns that some migration or statement is about; `unfilled` the rows whose
`input_image_paths` the backfill has still to write.

`phase` is the server: down, in `init_db`, at its secrets, at the write of one
of the two files, serving. `Effective` is the precedence of the configuration
layers; `MasterKey` shows that `SecretBox` looks at the environment only, while
the demo token is taken from the effective setting. `write_bytes` and
`write_text` are two steps with a "torn" file between them. `sealed` has the
keys that stored credentials were encrypted with, `invited` the generated
tokens that were valid once. `SetEnvironment` is the operator, between starts.

Abstracted: all other settings, columns that exist in every version, the
fields of a template beyond whose text it has, the ids of a base beyond the
bound `MaxSuffix`. A database comes from some release (`SchemaAssumption`): it
has no other columns than those the statements know, and each of the tables of
tasks and templates is either not there or there with each renamed column under
one of its two names, because one `CREATE TABLE` makes it.

## 3. Runs

| run | what it asks | bounds |
|---|---|---|
| `tm_queue` | rows of workers are left alone, no idle slot, dispatch within the concurrency and in queue order, load within the cap | 3 tasks, concurrency 1..3, cap 1..3, no error, no end of the process |
| `tm_restart` | the inductive invariant, how many tasks errors strand, images, a cancel in time that nothing undoes, `JobPool` and liveness, through errors, stops and restarts | 2 tasks, concurrency 1..2, 1 error, 1 end of the process, `FairSpec` |
| `cancel_stuck` | violation: what `interface.md` says of cancelling | 2 tasks |
| `stream` | the list is right when nothing is on its way, the inductive invariant | 1 task, 1 owed event, 2 snapshot requests, queue of 1, 1 break (of the connection, or a lost link), 1 end of the process |
| `stream_events` | no sign of work behind a terminal event | 2 tasks on 1 worker, a browser that only listens |
| `card_stays` | violation: what the task store says of ended tasks | 1 task |
| `providers` | models are of one answer, leftovers are explained, the store is `ProviderCatalog` until the first error | 1 key, 3 requests, 2 URLs, 2 answers (one lists a model twice), 1 error or restart |
| `partial_update` | violation: what `interface.md` says of PUT config | 2 requests |
| `migrate` | no picture is lost, rows name stored objects, a verified run has moved everything, orphans are explained, reruns finish, the inductive invariant | 2 rows with 4 and 2 cells in all but one of the forms, 3 states of the disk, 2 failing calls, 1 kill, limits none and 1, 2 attempts per save |
| `batches` | violation: what the repository's README says of `--limit` | the same rows, nothing fails |
| `startup` | what serves has the current schema, keys and tokens stay, user text stays, restarts succeed, the inductive invariant | 4 old databases, 6 environments, 1 seed, 2 rows to backfill, 1 crash, 2 generated secrets |
| `requests` | answers of uploads and creations mean what they say, also when a submission in the middle raises, references hold, the inductive invariant | 2 images, 2 uploaders, 1 creator, 3 tasks, at most 2 per request, a cap of 2, 1 key, 2 faults, a local and a cloud backend |

Why these bounds are enough to be interesting. Three tasks over one to three
workers have, at the same time, a task that waits, one that runs and one that
is cancelled; the dispatch order needs two waiting tasks behind one that leaves
its slot. Raising the concurrency from one to three frees two slots at once:
with less, a loop that runs once passes for one that runs until the slots are
full. One error and one end of the process reach every error path and every
state the process can die in; two of them would have to meet in one task to
show more, and the proofs cover any number. Liveness is checked with two tasks:
with three the graph of the fair specification does not fit the time limit.

A card is about one task only, so the stream has one (a task that waits in the
queue needs a second, in `stream_events`); two snapshot requests are what it
takes for answers to overtake each other; a queue of one event is full at the
second, and events behind each other are in `stream_events`. In the provider
store everything is about one key: three requests are what it takes for a
delete to fall between two refreshes, or between the read and the write of
another request; two answers that differ, one of them cut short by its
duplicate, show a mixture if there is one.

The first row of `migrate` names one input three times, in two columns and two
forms, one of them with a directory of its own: the per-row cache, the order of
the columns and the loss of `temp/` in a key all come into play. Two failing
calls exhaust the two attempts of a save (the code makes three) or hit a save
and a history delete. In `startup` one crash falls anywhere in the server or
the script; with the script as second initialiser, every pair of statements is
interleaved. The four databases are none, the first version, one with the old
names, and one from before `input_image_paths`; the six environments have each
way a mode and a key can be given, missing or wrong. In `requests` two uploads
meet on one image or not; a cap of two is reached by one request of two tasks
and one earlier task, so that the queue fills in the middle.

Deadlock is checked in every run: there is always a request, a start or a
deletion that can happen.

The bounds on what the model leaves unlimited: `MaxFaults`, `MaxRestarts`,
`MaxBreaks`, `MaxKills`, `MaxCrashes`, `MaxN`, `MaxSuffix`, the number of
generated secrets (`Random`); one history delete per task at a time, one beside
the migration; one template request at a time; the members of `Handler`
(request threads that have still to emit), `Fetch` (snapshot requests under
way: an event about an unknown task waits for a free one), `Uploader`,
`Creator` and `Request`.

Every property of a passing run has a mutant: a definition marked "Slip" in
the module, with a plausible mistake in the modelled code, that breaks it.

## 4. Fairness

`FairSpec` assumes weak fairness of each worker's next step: a pool thread is
scheduled, and each of its blocking calls ends (the upstream calls have
`request_timeout_seconds`, the rest is local). A worker has always at most one
kind of step, so weak fairness of the disjunction is what a thread gives.
History deletes that have begun go on. Submissions, cancels and settings
changes are never forced. `FairStreamSpec` adds that threads emit what they
owe, requests are answered and applied, timers fire, the browser reconnects
and runs its callbacks; an event in a queue is sent.

The migration: a run and a history delete that have begun go on; the operator
starts a full run again and again (strong fairness, since other runs may get
in between). `BatchSpec` has weak fairness of the batches instead.

The start: weak fairness of `ServerStep`, because `docker-compose.yml` says
`restart: unless-stopped` and the server, once started, runs. Nobody has to
crash it, to run the script or to send requests.

## 5. Findings

1. `cancel_stuck`: a cancel between the worker's last write and its cleanup
   reopens a settled row as "cancelling"; nothing settles it before a restart.
2. `card_stays`: a snapshot that is older than a terminal event brings the
   card back and nothing removes it.
3. `partial_update`: `put_config` looks for a configuration outside the lock
   and upserts later. A first request that names only a default model or key
   goes on with the provider's default base URL, and overwrites the base URL
   that another request has stored in between.
4. `batches`: `--limit n` takes the first n rows that look local, and keys look
   local too. Rows that were migrated are taken again, and "in batches" never
   gets past the first batch.

Observed while modelling, without a run of its own:

* A cancel between the pre-flight check of `_run_task` and its write of
  "running" is overwritten in the row; one after the last check of
  `generate_image` is overwritten by "succeeded".
* A creation of n tasks that ends with 429 or 500 may have made some of them:
  the answer does not say which, and they run. A retry makes them again.
* The event "running" may reach the browser before "queued".
* A success whose link cannot be made emits no terminal event: its card stays
  until the next snapshot.
* No statement adds `tasks.title` to a database of the first version, though
  `docs/prd.md:218` describes an `ALTER TABLE ADD COLUMN title`. The model has
  the column (`task_title`), and `ServesCurrentSchema` names the exception.
* Seeds are imported at each start of the server, so a seed that a user deleted
  comes back; `docs/prd.md:225` has them imported by the script only.
* An upload that is cut off in the middle leaves a short file under the hash of
  the whole content, and every later upload of the image is answered with it;
  `AnsweredIsWhole` names the exception (`marred`).
* A master key file that is cut off in the middle ends every later start until
  somebody removes it (`Unserviceable`); a demo token file that is cut off is
  used as it is.
* A PUT of the settings whose second half is refused has changed the first.

## 6. Proofs

`TaskManagerProofs` proves, for any set of tasks, any configuration that
`ConfigAssumption` allows and any number of errors and restarts:

* `Invariance`: `Spec => []InductiveInvariant`, and from it `TypeCorrect`,
  `QueueIsDisjoint`, `WorkersRowsAreActive`, `NoIdleSlot`;
* `DispatchStaysWithinConcurrency` and `DispatchKeepsQueueOrder`, two action
  properties.

The argument. None of the invariants is inductive alone. That `_pump_locked`
fills exactly the free slots (`NoIdleSlot`) needs the cardinality of what it
moves, hence a queue without duplicates that is disjoint from `running`. A
queue without duplicates needs that a submitted id is not in the queue yet:
its row is "new", while waiting tasks are "queued" and running ones not "new"
(`PendingIsQueued`, `RunningKnown`). That a waiting row stays "queued" needs
that no history delete is about to drop it (`ErasingSettled`), and that needs
that the row of a live worker is active (`WorkerRowActive`), so that
`delete_history` turns it away. `WorkerHoldsSlot` ties threads to slots, and
`DownIsEmpty` starts the next process from nothing. `InductiveInvariant` is
their conjunction; `NextInvariant` proves it step by step, one lemma per
handler, with the common part about `Pump` in `PumpFacts`.

The lemmas on `Taken`, `Front` and `Rest` (bounds, cardinality of a duplicate
free front, freshness of the rest) are stated once.

`TaskRowsProofs` goes on from there, for the same constants: `RowsInvariance`
(`Spec => []ManagerInvariant`, which `tm_restart` checks), and from it
`ActiveRowsAreOwned`, `SucceededRowsHaveImages`, `DeletedRowsLeaveNoImage`; and
`SettledRowsStay`, `CancelsAreNotUndone`, `ErrorsDoNotSpread` and
`LoadStaysWithinCap`. The argument: a worker about to write its success has
saved its object (`SavedImageExists`), and the history delete, which alone
removes objects, is turned away from its row (`WorkerRowActive`). A delete
reaches the row only behind the object (`ErasesImageFirst`) and never outlives
a stop (`ErasingWhileUp`), so what it leaves is settled. A row that says
"queued" or "running" is owned because `_pump_locked` loses no handle
(`PumpKeepsHandles`), a handle in a slot has a worker (`SlotHasWorker`), and a
worker that gives its slot back has written its last status
(`CleanupIsSettled`). Ownership holds as long as no error has been raised: an
error in a worker's last write skips the cleanup, and then the row does stay.

How far that damage goes is `ErrorsDoNotSpread`: in a live process at most one
task per raised error is `Stranded`. A step that raises nothing strands nobody
(`HandlerStrands`, `WorkerStrands`: a pump keeps every owner, a worker that
leaves its row has settled it), one that raises strands the task it is about,
and a start settles all. `NextStranded` counts with that. `CancelsAreNotUndone`
speaks of whole behaviours: a task whose cancel was in time (its row says
"cancelled", or its event is set while its worker is before the last check)
never succeeds afterwards. The states such a task can be in from then on
(`Doomed`) include the ones where its row says "cancelling" or "running" again
or its worker has saved the object; `EveryTaskStep` lists what any step of
anybody may do to one task, and none of it leads out of `Doomed`
(`DoomedStays`). That its image is never named needs `UnlinkedUntilSuccess`:
only the success branch links an image.

`TaskManagerRefinement` proves `ManagerIsJobPool`: `Spec => ImplementsJobPool`,
again through errors, stops and restarts. Under the mapping `PoolStage` a
submission is an `Accept`, a cancel of a waiting task a `Withdraw`, a change of
the concurrency and a start a `Resize`, a cleanup a `Finish`, the end of the
process a `Stop`; every other step leaves the pool alone. `PumpFills` is the
heart of it: the loop of `_pump_locked` moves a front of the queue (so what it
moves was waiting, and what it leaves is still waiting: `FrontAndRest`), within
the limit, until a slot or the queue runs out. In a closed executor the loop
stops after one handle; that is still a `Fill`, because the caller is a cleanup
that freed one slot of a full pool (`WorkConserving`).

`ProviderStoreProofs` proves, for any keys, models, answers and requests and
any number of errors and restarts between any two statements:
`StoreInvariance`, and from it `StoreTypeCorrect`, `ModelsAreOfOneAnswer`,
`OrphansHaveAnExcuse`, `DefaultHasAnExcuse`. The argument: only the holder of
the lock writes (`LockHeld`), so what it has read under the lock is still true
when it writes (`RowIsCurrent`) and the models between its `Purge` and its last
insert are of its own answer (`InsertsOneAnswer`). A request that is not inside
the store may be late: it deals with an issued key (`KeysIssued`), and if that
key has gone, the delete has excused it (`LateRefreshIsExcused`). Leftovers are
excused or about to be removed by the delete under way (`OrphanSettled`,
`DefaultSettled`).

`ProviderStoreProofs` also proves `OperationsAreTracked` and `StoreIsCatalog`:
until the first error every operation takes effect at its last statement, as
one operation of the in-memory store. It needs to know what an operation has
done so far to the rows it started from (`OperationUnderWay`), and that
whoever upserts without a base URL has seen a configuration that stays
(`UrlStays`); else the upsert would create a row without a URL, which the
in-memory store refuses.

`RequestsProofs` proves, for any images, uploaders, creators, tasks and keys,
any cap and any number of faults: `RequestInvariance`, and from it
`AnswersHold`, `TasksHaveTheirImages`, `AnswersAreTrue`,
`AcceptedTasksHadTheirKey` and `ImagesAreFinal`. The argument has two halves.
For the uploads it is who may write a file: one upload at most is between its
look-up and its answer (`OneBusy`), the file it saves was absent and, once
opened, is short and its own (`UploadsKnowTheirImage`), and every other short
file is there because a write was interrupted (`TornIsExplained`). So what is
answered is whole, and nobody writes what is whole. For the creations it is how
far each has come (`Progress`): before the first submit nothing is made,
between two submits fewer than were asked for, behind the last all of them;
behind the look-ups the key was stored when the request came, and behind the
check the images exist (`CheckedExist`), which nothing takes back. The tasks
that a creation has counted are there and name the images it asked for, since
no other creation touches them (`MadeAreThere`); so a refusal has left no task,
and what a queue that filled up or an error in the middle leaves is part of
what was asked for.

`MigrateToOssProofs` proves, for any rows and files that releases can have left
(`TableAssumption`), any cloud backend, any limits and any number of attempts,
failing calls and kills: `MigrationInvariance`, and from it `FullRunsMigrate`,
`DeletesLeaveNoOrphans`, `WritesNameStoredObjects` and `NoPictureIsLost`. The
heart of it is what `migrated_cache` says. A key in it belongs to a path of the
row at hand whose file is on disk (`CacheIsOfRow`), and is stored
(`CacheIsStored`), because an adapter says "yes" or "ok" of nothing else
(`CloudAnswers`); what may take a stored object away is the delete of a row,
the object is that of the row's own image (`PictureIsOwn`), and the row is
excused if it is the one at hand (`OverlapIsExcused`). So an UPDATE writes
stored keys (`WrittenIsStored`), and a column that is behind the script without
a failure has nothing on disk that is not stored (`ColumnsBehind`), then a row
(`RowsBehind`), then, at the end of a full run, the table
(`VerifiedIsMigrated`). What a full run does not take as a candidate are paths
without a directory, which only the script writes (`BareIsStored`). Removing
the files loses no picture because a link to the disk is no key, while
everything on disk is. A script that goes on brings nobody's deleted image
back: what it saves is of the row at hand (`StoresKeepsRows`).

`TaskStreamProofs` proves, for any tasks, handlers, snapshot requests and bound
of the channel, and any number of breaks, errors and restarts:
`StreamImplementsManager` (`StreamSpec => Spec`: what emits, carries and shows
events takes no step of the queue away and adds none, so that `ManagerInvariant`
and everything else proved of the manager holds here), `StreamInvariance`, and
from it `StreamTypeCorrect`, `TerminalEventsAreLast` and `QuietListsAreRight`.
The first half of the argument is about order. A task that has left the queue
does not come back to it (`LeftQueue`), and one that is over stays so (`Over`).
A worker tells of its own task only, in the order of its points
(`WorkersTellTheirOwn`, `VerdictAtCleanup`); a handler tells of queueing and of
the cancel of a waiting task, never of work (`HandlersTellNoWork`); so of all
that is owed and all that is in the channel at most one event tells of an end,
and behind it there is no sign of work (`EndIsToldOnce`). The second half is about
the list. While the page listens and no snapshot is under way, a card that
shall go has a terminal event to come or a timeout set, and a task without a
card that shall have one has an event to come (`CardIsRepaired`). That holds of
every task but the marked ones (`ListIsRepaired`): an answer that was overtaken,
an event that did not fit, a request that failed and a link that could not be
made mark a task `unrepaired` when they leave its card wrong. It holds until the first error, which may leave
a worker without its event (`VerdictAtCleanup`). When nothing is on its way no
repair is left to come, so the card is right.

`StartupProofs` proves, for any old databases, environments, seed files and
number of crashes, and with the script beside every start: `StartInvariance`,
and from it `CredentialsOpen`, `LinksStayValid`, `UserTextStays` and
`CurrentSchemaIsServed`. A file is
written only behind the open that found it absent, and is short in between
(`OpenedIsTorn`); a short or absent file means that nothing has been encrypted
with, or given out from, a generated secret (`GeneratedKeyKept`,
`InvitedIsKept` and that no secret equals the marks for such files); a server
holds what the file holds or what the environment says (`BoxIsKept`,
`TokenIsKept`). For the templates: whoever has found the id of a seed absent is
at the INSERT of that very seed (`AbsentIsCurrent`), and an INSERT of an id
that has appeared in the meantime raises.

The schema (`SchemaInvariant`) is the argument with two initialisers and no
lock. What a statement has done stays done whoever goes on (`DoneStays`): a
rename takes away an old name only, no statement takes a current column, and no
row loses its list. So all that an initialiser has passed is done
(`DoneBehind`), if the statement at hand does its own part. The danger is a
statement that is skipped because of an outdated probe. It is skipped because
the probe has seen the new column, which is then still there
(`ProbedIsThere`), or, for a rename, because the probe has not seen the old one;
but whoever renames has probed a table that its own `CREATE TABLE` statement
had left there (`RenameHasSeen`), with each such column under one of its names
(`TablesAreWhole`), so it has seen the new one. A statement that cannot be
executed ends the process, and a later start begins with the first statement
again. When the server leaves `init_db`, all 17 statements are done
(`AllDone`), and that is the current schema.

The assumptions are those of the modules: positive limits
(`ConfigAssumption`), natural bounds, `None` apart from keys, URLs and
requests, answers that are finite sequences of models, secrets apart from the
marks for absent files (`RandomAssumption`), databases that a release made
(`SchemaAssumption`), `Unseen` apart from keys (`MarkAssumption`). `Task`,
`Request`, `Upload` and the sets of actors may be infinite.

Every invariant, action property and refinement that a passing run checks is
the property of a theorem. Only model-checked is what needs fairness, which is
outside the prover's reach: `AcceptedTaskSettles`, `Drains`, `RerunsFinish` and
`StartsSucceed`. The four violations are TLC's counterexamples.

## 7. Not modelled

* Settings requests as actors: the two setters are handlers of their own in
  `TaskManager`, in any order, which includes the half of a refused request;
  no document says what a refused request leaves.
* Provider picker, history view and drawer: the state of one form in one
  browser. A late answer there shows a wrong list or offers a wrong key until
  the next click; the server checks what is sent (`Requests`). The hazards are
  listed without a property.
* The reading side of the history (search, paging, counting): single SELECTs.
* The template a creation saves before it is refused: `save_prompt` is in
  `Startup`, the leftover is nobody's promise.
* Images of failed or cancelled tasks that no row names: the model has the
  state (`image` is "saved"), no document promises a clean-up.
* Middleware, routing, layout, formatting, packaging: no state.
* Upstream requests and the parsing of their answers: one HTTP API; the models
  that use it let its calls succeed or fail.
* Cryptography, which TLC cannot check; only which key is used is modelled.
* The rest of the configuration: read once at the start and not changed.

## 8. Plan

What is left, the most important first.

1. The safety behind the liveness properties, as far as it can be stated
   without fairness: that an initialiser which fails has been overtaken, and
   that each run of the migration leaves fewer local paths.
2. `HistoryView` and `ProviderPicker`: answers out of order in the browser.
3. A larger `Requests` with two creators, and the settings request as an actor
   with both setters.

Runs are few on purpose: a module that comes to the plan shares a run with
another question, or takes the place of one whose finding is settled.
