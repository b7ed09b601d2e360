---------------------------- MODULE MigrateToOss ----------------------------
(***************************************************************************)
(* The script scripts/migrate_to_oss.py that copies local pictures to a    *)
(* cloud backend, with what goes on beside it: the server deletes history  *)
(* rows (api/history.py), the operator kills and restarts the script, and  *)
(* removes the local files after a run that reported no failure.           *)
(*                                                                         *)
(* The server writes no other row: with the cloud backend configured, new  *)
(* tasks hold keys of objects that are stored already.                     *)
(***************************************************************************)
EXTENDS ObjectStore, FiniteSets

CONSTANTS
  Task,         \* rows of the tasks table, a set of naturals in rowid order
  Table,        \* what a migration may begin with: [cells, disk]
  StorageName,  \* the configured backend
  Limits,       \* values of --limit; 0: none is given
  Unseen,       \* a path that migrated_cache does not hold
  Attempts,     \* of _save_with_retry: 3 in the code
  MaxFaults,    \* bound: calls of the backend that go wrong
  MaxKills      \* bound: runs that are killed, or die of an exception

\* _resolve_local_file.
FileOf(p) == IF p.form = "outside" THEN p ELSE KeyPath(p.name)

ASSUME TaskAssumption == Task \subseteq Nat /\ Limits \subseteq Nat /\ 0 \in Limits
ASSUME BoundAssumption ==
  Attempts \in Nat \ {0} /\ MaxFaults \in Nat /\ MaxKills \in Nat
ASSUME MarkAssumption ==
  /\ None \notin Path \cup [task : Task, key : Key \cup {None}]
  /\ Unseen \notin Key \cup {None}
ASSUME CloudAssumption == StorageName \in Cloud
\* A row is the sequence of its cells: image_path, input_image_path, and the
\* entries of input_image_paths.  An image is the task's own, and only the
\* script writes a reference image without its directory.
ASSUME TableAssumption ==
  \A table \in Table :
    /\ table.cells \in [Task -> Seq(Path \cup {None})]
    /\ table.disk \subseteq {FileOf(p) : p \in Path}
    /\ \A t \in Task :
         LET row == table.cells[t] IN
         /\ Len(row) >= 2
         /\ \A i \in 1..Len(row) : row[i] # None =>
              row[i].form # "bare" /\ (row[i].name \in Picture <=> i = 1)
         /\ \A u \in Task \ {t} : row[1] # None /\ table.cells[u][1] # None
                                 => row[1].name # table.cells[u][1].name

VARIABLES
  cells,    \* the cells of every row; those of a deleted row stay as they were
  live,     \* the rows that exist
  disk,     \* the local files
  remote,   \* the keys of the objects in the bucket
  pc,       \* the script: "off", or what it does next
  run,      \* its arguments: [limit, dry]
  todo,     \* the candidate rows it has not finished
  at,       \* the cell it is at
  attempt,  \* of _save_with_retry
  cache,    \* migrated_cache of the row: path to key, None or Unseen
  failed,   \* stats.failed > 0
  erase,    \* the DELETE /api/history handler: [task, key], or None
  faults,   \* counts failing calls, up to MaxFaults
  kills,    \* counts killed runs, up to MaxKills
  verified, \* history: a full run has ended without a failure
  excused   \* history: rows deleted while the script had them, or whose object
            \* the backend did not delete

scriptVars == <<pc, run, todo, at, attempt, cache, failed>>
vars == <<cells, live, disk, remote, scriptVars, erase, faults, kills,
          verified, excused>>

----------------------------------------------------------------------------
\* Slip: a key is taken for a migrated path.
LooksUnmigrated(p) == p # None /\ p.form \notin {"key", "bare"}

\* _looks_like_local_path: a key does, whether its object is stored or not.
LooksLocal(p) == p # None /\ p.form # "bare"

\* _storage_key_for_path: relative to images_dir, or the last part.
KeyOf(p) == IF p.form = "outside" THEN Basename(p.name)
            ELSE IF p.form = "bare" THEN p ELSE KeyPath(p.name)

\* _iter_candidate_rows: the first rows with a cell that looks local.
Candidate(t) == t \in live /\ \E i \in 1..Len(cells[t]) : LooksLocal(cells[t][i])
Candidates(limit) ==
  {t \in Task : /\ Candidate(t)
                /\ limit # 0 => Cardinality({u \in Task : Candidate(u) /\ u < t}) < limit}

EmptyCache == [p \in Path |-> Unseen]

FullRun == [limit |-> 0, dry |-> FALSE]

TypeOK ==
  /\ cells \in [Task -> Seq(Path \cup {None})]
  /\ live \subseteq Task
  /\ disk \subseteq {FileOf(p) : p \in Path}
  /\ remote \subseteq Key
  /\ pc \in {"off", "cell", "save", "write"}
  /\ run \in [limit : Limits, dry : BOOLEAN]
  /\ todo \subseteq Task
  /\ at \in Nat \ {0}
  /\ attempt \in 1..Attempts
  /\ cache \in [Path -> Key \cup {None, Unseen}]
  /\ failed \in BOOLEAN
  /\ erase \in [task : Task, key : Key \cup {None}] \cup {None}
  /\ faults \in 0..MaxFaults
  /\ kills \in 0..MaxKills
  /\ verified \in BOOLEAN
  /\ excused \subseteq Task

\* Nothing is in the bucket yet.
Init ==
  /\ \E table \in Table : cells = table.cells /\ disk = table.disk
  /\ live = Task
  /\ remote = {}
  /\ pc = "off"
  /\ run = FullRun
  /\ todo = {}
  /\ at = 1
  /\ attempt = 1
  /\ cache = EmptyCache
  /\ failed = FALSE
  /\ erase = None
  /\ faults = 0
  /\ kills = 0
  /\ verified = FALSE
  /\ excused = {}

----------------------------------------------------------------------------
\* The script

\* main: the arguments are parsed, the candidates fetched.
Start(limit, dry) ==
  /\ pc = "off"
  /\ pc' = "cell"
  /\ run' = [limit |-> limit, dry |-> dry]
  /\ todo' = Candidates(limit)
  /\ failed' = FALSE
  /\ excused' = IF erase # None THEN excused \cup ({erase.task} \cap todo')
                ELSE excused
  /\ UNCHANGED <<cells, live, disk, remote, at, attempt, cache, erase, faults,
                 kills, verified>>

\* Rows are worked on in the order of the table.
First(t) == t \in todo /\ \A u \in todo : t <= u

\* migrate_cached has the result of the path at hand.
Settle(p, result) ==
  /\ cache' = [cache EXCEPT ![p] = result]
  /\ pc' = "write"
  /\ attempt' = 1
  /\ UNCHANGED <<run, todo, at>>
Give(p, key) == Settle(p, key) /\ UNCHANGED failed

\* Slip: the failure is not counted.
FailSilently(p) == Settle(p, None) /\ UNCHANGED failed

Fail(p) == Settle(p, None) /\ failed' = TRUE

\* The run ends early: killed, or an exception nobody catches.
Die ==
  /\ kills < MaxKills
  /\ kills' = kills + 1
  /\ pc' = "off" /\ run' = FullRun /\ todo' = {} /\ at' = 1 /\ attempt' = 1
  /\ cache' = EmptyCache /\ failed' = FALSE

\* Calls of the backend that go wrong are counted.
Faulty == {"refused", "broken"}
Count(o) ==
  IF o \in Faulty THEN faults < MaxFaults /\ faults' = faults + 1
  ELSE UNCHANGED faults

Kill ==
  /\ pc # "off"
  /\ Die
  /\ UNCHANGED <<cells, live, disk, remote, erase, faults, verified, excused>>

\* A cell that is empty or a path that was met in this row already.
Cached(t) ==
  /\ pc = "cell"
  /\ First(t)
  /\ cells[t][at] # None => cache[cells[t][at]] # Unseen
  /\ pc' = "write"
  /\ UNCHANGED <<cells, live, disk, remote, run, todo, at, attempt, cache,
                 failed, erase, faults, kills, verified, excused>>

\* _migrate_one_path up to the save: nothing to do without a local file, or
\* when the object is there; a dry run stops short of the save.
LookUp(t, o) ==
  LET p == cells[t][at]
      answer == Adapter(StorageName).exists[o]
  IN
  /\ pc = "cell"
  /\ First(t)
  /\ p # None /\ cache[p] = Unseen
  /\ \/ /\ o = "ok"
        /\ LooksLocal(p) => FileOf(p) \notin disk
        /\ Give(p, None)
        /\ UNCHANGED <<faults, kills>>
     \/ /\ LooksLocal(p) /\ FileOf(p) \in disk
        /\ o \notin Faulty => (o = "ok" <=> KeyOf(p) \in remote)
        /\ Count(o)
        /\ \/ answer = "yes" /\ Give(p, KeyOf(p)) /\ UNCHANGED kills
           \/ answer = "no" /\ run.dry /\ Give(p, KeyOf(p)) /\ UNCHANGED kills
           \/ /\ answer = "no" /\ ~run.dry
              /\ pc' = "save"
              /\ UNCHANGED <<run, todo, at, attempt, cache, failed, kills>>
           \/ answer = "error" /\ Fail(p) /\ UNCHANGED kills
           \/ answer = "raise" /\ Die
  /\ UNCHANGED <<cells, live, disk, remote, erase, verified, excused>>

\* Slip: `<=` for `<`.
OneMoreAttempt == attempt <= Attempts

MayRetry ==
  attempt < Attempts

\* One attempt of _save_with_retry: a StorageError is tried again, another
\* OSError is not, and what is no OSError ends the run.  A call that goes
\* wrong may have stored the object.
Save(t, o) ==
  LET p == cells[t][at]
      answer == Adapter(StorageName).save[o]
  IN
  /\ pc = "save"
  /\ First(t)
  /\ o # "missing"
  /\ Count(o)
  /\ \/ remote' = remote \cup {KeyOf(p)}
     \/ o # "ok" /\ UNCHANGED remote
  /\ \/ answer = "ok" /\ Give(p, KeyOf(p)) /\ UNCHANGED kills
     \/ /\ answer = "error" /\ MayRetry
        /\ attempt' = attempt + 1
        /\ UNCHANGED <<pc, run, todo, at, cache, failed, kills>>
     \/ answer = "error" /\ ~MayRetry /\ Fail(p) /\ UNCHANGED kills
     \/ answer = "raise" /\ Fail(p) /\ UNCHANGED kills
     \/ answer = "raise" /\ Die
  /\ UNCHANGED <<cells, live, disk, erase, verified, excused>>

\* The cells of the column that cell i ends.
Column(t, i) ==
  IF i <= 2 THEN {i} ELSE IF i = Len(cells[t]) THEN 3..i ELSE {}

\* What a cell is to become: the key of its path, if there is one.
Migrated(p) == IF p # None /\ cache[p] \in Key THEN cache[p] ELSE p

\* Slip: a dry run writes too.
UpdatesAlways(t) == t \in live

Updates(t) ==
  ~run.dry /\ t \in live

\* The UPDATE of a column that is complete; then the next cell, or row.  The
\* UPDATE of a row that is gone changes nothing.
Write(t) ==
  /\ pc = "write"
  /\ First(t)
  /\ cells' = IF ~Updates(t) THEN cells
              ELSE [cells EXCEPT ![t] = [i \in 1..Len(@) |->
                      IF i \in Column(t, at) THEN Migrated(@[i]) ELSE @[i]]]
  /\ pc' = "cell"
  /\ IF at < Len(cells[t])
     THEN at' = at + 1 /\ UNCHANGED <<todo, cache>>
     ELSE at' = 1 /\ todo' = todo \ {t} /\ cache' = EmptyCache
  /\ UNCHANGED <<live, disk, remote, run, attempt, failed, erase, faults, kills,
                 verified, excused>>

\* The statistics are printed.
End ==
  /\ pc = "cell"
  /\ todo = {}
  /\ pc' = "off"
  /\ verified' = (verified \/ (run = FullRun /\ ~failed))
  /\ run' = FullRun
  /\ failed' = FALSE
  /\ UNCHANGED <<cells, live, disk, remote, todo, at, attempt, cache, erase,
                 faults, kills, excused>>

----------------------------------------------------------------------------
\* The server and the operator

\* delete_history reads the row, removes the object, drops the row.
EraseRead(t) ==
  /\ erase = None
  /\ t \in live
  /\ erase' = [task |-> t, key |-> IF cells[t][1] = None THEN None
                                   ELSE LegacyKey(cells[t][1])]
  /\ excused' = IF t \in todo THEN excused \cup {t} ELSE excused
  /\ UNCHANGED <<cells, live, disk, remote, scriptVars, faults, kills, verified>>

\* A StorageError is logged, another exception ends the request.
EraseObject(o) ==
  LET answer == Adapter(StorageName).delete[o]
  IN
  /\ erase # None
  /\ erase.key # None
  /\ o = "missing" => erase.key \notin remote
  /\ Count(o)
  /\ \/ remote' = remote \ {erase.key}
     \/ o # "ok" /\ UNCHANGED remote
  /\ erase' = IF answer = "raise" THEN None ELSE [erase EXCEPT !.key = None]
  /\ excused' = IF answer = "ok" THEN excused ELSE excused \cup {erase.task}
  /\ UNCHANGED <<cells, live, disk, scriptVars, kills, verified>>

EraseRow ==
  /\ erase # None
  /\ erase.key = None
  /\ live' = live \ {erase.task}
  /\ erase' = None
  /\ UNCHANGED <<cells, disk, remote, scriptVars, faults, kills, verified, excused>>

CleanUp ==
  /\ verified
  /\ pc = "off"
  /\ disk # {}
  /\ disk' = {}
  /\ UNCHANGED <<cells, live, remote, scriptVars, erase, faults, kills, verified,
                 excused>>

----------------------------------------------------------------------------
Work ==
  \/ \E t \in Task : Cached(t) \/ Write(t) \/ \E o \in Outcome : LookUp(t, o) \/ Save(t, o)
  \/ End
Erase == \E o \in Outcome : EraseObject(o)

Next ==
  \/ \E limit \in Limits, dry \in BOOLEAN : Start(limit, dry)
  \/ Work
  \/ Kill
  \/ \E t \in Task : EraseRead(t)
  \/ Erase
  \/ EraseRow
  \/ CleanUp

\* The script and a request go on until they end; the operator, who is told
\* to run the script until it is done, starts a full run again and again.
Fairness ==
  /\ WF_vars(Work)
  /\ WF_vars(Erase \/ EraseRow)
  /\ SF_vars(Start(0, FALSE))

Spec == Init /\ [][Next]_vars /\ Fairness

\* The operator migrates in batches: run after run with a limit, and nothing
\* else goes on.
Batch == \E limit \in Limits \ {0} : Start(limit, FALSE)
BatchSpec ==
  Init /\ [][Batch \/ Work]_vars /\ WF_vars(Work) /\ WF_vars(Batch)
=============================================================================
