------------------------- MODULE MigrateToOssProofs -------------------------
(***************************************************************************)
(* Proofs, for any rows and files that TableAssumption allows, any cloud   *)
(* backend and any number of failing calls and kills, that a migration     *)
(* loses no picture and leaves only what its properties excuse.            *)
(***************************************************************************)
EXTENDS MigrateToOssProperties, SequenceTheorems, FiniteSetTheorems, TLAPS

----------------------------------------------------------------------------
\* Lemmas about adapters, paths and rows

LEMMA CloudAnswers ==
  ASSUME NEW o \in Outcome
  PROVE  /\ Adapter(StorageName).exists[o] = "yes" => o = "ok"
         /\ Adapter(StorageName).save[o] = "ok" => o = "ok"
         /\ Adapter(StorageName).delete[o] = "ok" => o \in {"ok", "missing"}
  BY CloudAssumption
     DEF Cloud, Adapter, Outcome, Wrapped, S3Save, AliyunSave, TencentSave,
         S3Exists, AliyunExists, TencentExists, S3Delete, AliyunDelete,
         TencentDelete

\* A path becomes a key of the same name; a generated image keeps no other.
LEMMA KeyOfPath ==
  ASSUME NEW p \in Path
  PROVE  /\ KeyOf(p) \in Key /\ KeyOf(p) \in Path /\ KeyOf(p).name = p.name
         /\ KeyOf(p).form = "bare" => p.form = "bare" \/ p.name \notin Picture
         /\ LooksLocal(p) => p.form # "bare"
         /\ p.form = "static" => KeyOf(p) = KeyPath(p.name)
         /\ p.form = "key" => KeyOf(p) = p
         /\ LegacyKey(p) \in Key
         /\ (p.name \in Picture /\ p.form # "bare") =>
              KeyOf(p) = KeyPath(p.name) /\ LegacyKey(p) = KeyPath(p.name)
  BY DEF Path, Key, KeyOf, KeyPath, BarePath, Basename, Form, LooksLocal, LegacyKey

LEMMA KeyIsPath ==
  /\ Key \subseteq Path /\ None \notin Key /\ Unseen \notin Key /\ Unseen # None
  /\ \A p \in Key : p.form = "bare" \/ p = KeyPath(p.name)
  BY MarkAssumption DEF Key, Path, Form, KeyPath

\* The cells of a row.
LEMMA CellType ==
  ASSUME TypeOK, NEW t \in Task
  PROVE  /\ cells[t] \in Seq(Path \cup {None})
         /\ Len(cells[t]) \in Nat
         /\ \A i \in Cells(t) : cells[t][i] \in Path \cup {None}
  BY ElementOfSeq DEF TypeOK, Cells

LEMMA FirstIsUnique ==
  ASSUME TypeOK, NEW t \in Task, NEW u \in Task, First(t), First(u)
  PROVE  t = u
  BY TaskAssumption DEF First, TypeOK

\* The name of a generated image is that of one row, and of its first cell.
LEMMA PictureIsOwn ==
  ASSUME TypeOK, CellsKeepNames, NEW t \in Task, NEW u \in Task,
         NEW i \in Cells(t), cells[t][i] # None, cells[u][1] # None,
         cells[t][i].name = cells[u][1].name
  PROVE  t = u /\ i = 1
<1>1. 1 \in Cells(u)
  BY CellType DEF CellsKeepNames, Cells
<1>2. cells[u][1].name \in Picture
  BY <1>1 DEF CellsKeepNames
<1>3. i = 1
  BY <1>2 DEF CellsKeepNames
<1>4. QED
  BY <1>3 DEF CellsKeepNames

LEMMA FullRunType == FullRun \in [limit : Limits, dry : BOOLEAN] /\ FullRun.dry = FALSE
  BY TaskAssumption DEF FullRun

LEMMA EmptyCacheType ==
  /\ EmptyCache \in [Path -> Key \cup {None, Unseen}]
  /\ \A p \in Path : EmptyCache[p] = Unseen
  BY DEF EmptyCache

LEMMA CountBounded ==
  ASSUME TypeOK, NEW o, Count(o) \/ UNCHANGED faults
  PROVE  faults' \in 0..MaxFaults
  BY BoundAssumption DEF TypeOK, Count

----------------------------------------------------------------------------
\* What the script does to the bucket

\* A step of the script that may save the object of the cell at hand, and
\* leaves rows, files and deletes alone.
Stores ==
  /\ UNCHANGED <<cells, live, disk, erase, verified, excused>>
  /\ \/ remote' = remote
     \/ \E t \in Task : /\ First(t) /\ at \in Cells(t) /\ cells[t][at] # None
                        /\ LooksLocal(cells[t][at])
                        /\ remote' = remote \cup {KeyOf(cells[t][at])}

\* A saved object belongs to the row at hand: no other row's image comes back.
LEMMA StoresKeepsRows ==
  ASSUME MigrationInvariant, Stores
  PROVE  /\ remote \subseteq remote' /\ remote' \subseteq Key
         /\ CellsKeepNames' /\ BareIsStored' /\ EraseKnowsImage'
         /\ ObjectOrphansExcused' /\ VerifiedIsMigrated'
<1> USE DEF MigrationInvariant
<1>1. remote \subseteq remote' /\ remote' \subseteq Key
  <2>1. ASSUME NEW t \in Task, at \in Cells(t), cells[t][at] # None
        PROVE  KeyOf(cells[t][at]) \in Key
    BY <2>1, CellType, KeyOfPath
  <2>2. QED
    BY <2>1 DEF Stores, TypeOK
<1>2. UNCHANGED <<cells, live, disk, erase, verified, excused>>
  BY DEF Stores
<1>3. ASSUME NEW u \in Task, u \notin excused, u \notin live \/ Erasing(u),
             cells[u][1] # None, KeyPath(cells[u][1].name) \notin remote
      PROVE  KeyPath(cells[u][1].name) \notin remote'
  <2>1. SUFFICES ASSUME KeyPath(cells[u][1].name) \in remote'
                 PROVE  FALSE
    OBVIOUS
  <2>2. PICK t \in Task : /\ First(t) /\ at \in Cells(t) /\ cells[t][at] # None
                          /\ KeyPath(cells[u][1].name) = KeyOf(cells[t][at])
    BY <1>3, <2>1 DEF Stores
  <2>3. cells[t][at].name = cells[u][1].name
    BY <2>2, CellType, KeyOfPath DEF KeyPath
  <2>4. t = u
    BY <1>3, <2>2, <2>3, PictureIsOwn
  <2>5. QED
    BY <1>3, <2>2, <2>4 DEF First, OverlapIsExcused
<1>4. CellsKeepNames'
  BY <1>2 DEF CellsKeepNames, Cells
<1>5. BareIsStored'
  BY <1>1, <1>2 DEF BareIsStored, Cells
<1>6. EraseKnowsImage'
  <2>1. SUFFICES ASSUME erase # None
                 PROVE  LET c == cells[erase.task][1] IN
                          (erase.key = None /\ erase.task \notin excused /\ c # None)
                            => KeyPath(c.name) \notin remote'
    BY <1>2 DEF EraseKnowsImage
  <2>2. erase.task \in Task /\ Erasing(erase.task)
    BY <2>1 DEF TypeOK, Erasing
  <2>3. QED
    BY <1>3, <2>1, <2>2 DEF EraseKnowsImage
<1>7. ObjectOrphansExcused'
  BY <1>2, <1>3 DEF ObjectOrphansExcused
<1>8. VerifiedIsMigrated'
  BY <1>1, <1>2 DEF VerifiedIsMigrated, Untouched, Erasing, Cells, OnDisk
<1>9. QED
  BY <1>1, <1>4, <1>5, <1>6, <1>7, <1>8

\* The run ends early.
LEMMA DieInvariant ==
  ASSUME MigrationInvariant, Stores, Die, faults' \in 0..MaxFaults
  PROVE  MigrationInvariant'
<1> USE DEF MigrationInvariant
<1>1. /\ pc' = "off" /\ run' = FullRun /\ todo' = {} /\ at' = 1 /\ attempt' = 1
      /\ cache' = EmptyCache /\ ~failed' /\ failed' \in BOOLEAN
  BY DEF Die
<1>0. kills' \in 0..MaxKills
  <2>1. kills \in Nat /\ MaxKills \in Nat
    BY BoundAssumption DEF TypeOK
  <2>2. kills < MaxKills /\ kills' = kills + 1
    BY DEF Die
  <2>3. QED
    BY <2>1, <2>2
<1>2. TypeOK'
  BY <1>0, <1>1, StoresKeepsRows, FullRunType, EmptyCacheType, BoundAssumption
     DEF TypeOK, Stores
<1>3. \A t \in Task : ~First(t)'
  BY <1>1 DEF First
<1>4. BetweenRows' /\ WhenOff' /\ RowsBehind' /\ OverlapIsExcused'
  BY <1>1 DEF BetweenRows, WhenOff, RowsBehind, OverlapIsExcused, EmptyCache
<1>5. AtACell' /\ CacheIsOfRow' /\ CacheIsStored'
  BY <1>3 DEF AtACell, CacheIsOfRow, CacheIsStored
<1>6. ColumnsBehind'
  <2>1. live' \subseteq Task
    BY <1>2 DEF TypeOK
  <2>2. QED
    BY <1>3, <2>1 DEF ColumnsBehind
<1>7. QED
  BY <1>2, <1>4, <1>5, <1>6, StoresKeepsRows

\* The script goes on with its cell: the cache learns of the path at hand at
\* most, and a key only of what is on disk and, unless the run is dry, stored.
LEMMA ScriptStep ==
  ASSUME MigrationInvariant, Stores, NEW t \in Task, First(t),
         pc' \in {"save", "write"}, UNCHANGED <<run, todo, at>>,
         attempt' \in 1..Attempts, failed' \in {failed, TRUE},
         cache' \in [Path -> Key \cup {None, Unseen}],
         \A p \in Path :
           \/ cache'[p] = cache[p]
           \/ /\ p = cells[t][at] /\ cache'[p] # Unseen
              /\ cache'[p] \in Key =>
                   /\ cache'[p] = KeyOf(p) /\ LooksLocal(p) /\ FileOf(p) \in disk
                   /\ run.dry \/ cache'[p] \in remote'
              /\ (cache'[p] = None /\ ~failed') =>
                   ~LooksLocal(p) \/ FileOf(p) \notin disk,
         pc' = "write" => Met(t, at)',
         pc' = "save" => /\ ~run.dry /\ cells[t][at] # None
                         /\ LooksLocal(cells[t][at]) /\ FileOf(cells[t][at]) \in disk,
         faults' \in 0..MaxFaults, kills' \in 0..MaxKills
  PROVE  MigrationInvariant'
<1> USE DEF MigrationInvariant
<1>1. /\ UNCHANGED <<cells, live, disk, erase, verified, excused, run, todo, at>>
      /\ remote \subseteq remote' /\ remote' \subseteq Key
      /\ failed \in BOOLEAN
  BY StoresKeepsRows DEF Stores, TypeOK
<1>2. t \in todo /\ at \in Cells(t) /\ pc # "off"
  BY DEF First, AtACell, WhenOff
<1>3. TypeOK'
  BY <1>1 DEF TypeOK
<1>4. \A u \in Task : First(u)' <=> u = t
  <2>1. \A u \in Task : First(u)' <=> First(u)
    BY <1>1 DEF First
  <2>2. QED
    BY <2>1, FirstIsUnique
<1>5. BetweenRows' /\ WhenOff' /\ OverlapIsExcused'
  BY <1>1, <1>2 DEF BetweenRows, WhenOff, OverlapIsExcused, Erasing
<1>6. AtACell'
  <2>1. \A i \in 3..(at - 1) : Met(t, i)'
    <3>1. ASSUME NEW i \in 3..(at - 1), cells[t][i] # None
          PROVE  cache'[cells[t][i]] # Unseen
      <4>1. Met(t, i) /\ i \in Cells(t)
        BY <1>2, CellType DEF AtACell, Cells
      <4>2. cells[t][i] \in Path
        BY <3>1, <4>1, CellType
      <4>3. QED
        BY <3>1, <4>1, <4>2 DEF Met
    <3>2. QED
      BY <1>1, <3>1 DEF Met
  <2>2. at' = at /\ Cells(t)' = Cells(t)
    BY <1>1 DEF Cells
  <2>3. QED
    BY <1>1, <1>2, <1>4, <2>1, <2>2 DEF AtACell
<1>7. CacheIsOfRow'
  <2>1. SUFFICES ASSUME NEW p \in Path
                 PROVE  /\ cache'[p] \in Key =>
                             /\ cache'[p] = KeyOf(p) /\ LooksLocal(p)
                             /\ FileOf(p) \in disk
                             /\ \E i \in Cells(t) : cells[t][i] # None
                                                    /\ cells[t][i].name = p.name
                        /\ (cache'[p] = None /\ ~failed') =>
                             ~LooksLocal(p) \/ FileOf(p) \notin disk
    BY <1>1, <1>4 DEF CacheIsOfRow, Cells
  <2>2. CASE cache'[p] = cache[p]
    BY <1>1, <2>2 DEF CacheIsOfRow
  <2>3. CASE cache'[p] # cache[p]
    <3>1. p = cells[t][at] /\ p # None
      BY <2>3, KeyIsPath, MarkAssumption
    <3>2. QED
      BY <1>2, <2>3, <3>1
  <2>4. QED
    BY <2>2, <2>3
<1>8. CacheIsStored'
  BY <1>1, <1>4 DEF CacheIsStored
<1>9. ColumnsBehind'
  <2>1. \A u \in live \ excused : u \in Task
    BY DEF TypeOK
  <2>2. QED
    BY <1>1, <1>4, <2>1 DEF ColumnsBehind, Stored, OnDisk
<1>10. RowsBehind'
  BY <1>1, <1>2 DEF RowsBehind, Stored, OnDisk, Untouched, Erasing, Cells
<1>11. QED
  BY <1>3, <1>5, <1>6, <1>7, <1>8, <1>9, <1>10, StoresKeepsRows

LEMMA KillInvariant == ASSUME MigrationInvariant, Kill PROVE MigrationInvariant'
<1>1. Stores /\ faults' \in 0..MaxFaults
  BY DEF Kill, Stores, MigrationInvariant, TypeOK
<1>2. QED
  BY <1>1, DieInvariant DEF Kill

LEMMA CachedInvariant ==
  ASSUME MigrationInvariant, NEW t \in Task, Cached(t)
  PROVE  MigrationInvariant'
<1>1. Stores /\ First(t) /\ pc' = "write"
      /\ UNCHANGED <<run, todo, at, attempt, cache, failed, faults, kills>>
  BY DEF Cached, Stores
<1>2. TypeOK
  BY DEF MigrationInvariant
<1>3. Met(t, at)'
  BY DEF Cached, Met
<1>4. /\ attempt' \in 1..Attempts /\ cache' \in [Path -> Key \cup {None, Unseen}]
      /\ faults' \in 0..MaxFaults /\ kills' \in 0..MaxKills
  BY <1>1, <1>2 DEF TypeOK
<1>5. QED
  BY <1>1, <1>3, <1>4, ScriptStep

\* migrate_cached has a result.
LEMMA SettleInvariant ==
  ASSUME MigrationInvariant, Stores, NEW t \in Task, First(t), at \in Cells(t),
         NEW p \in Path, p = cells[t][at], NEW result \in Key \cup {None},
         Settle(p, result), failed' \in {failed, TRUE},
         result \in Key => /\ result = KeyOf(p) /\ LooksLocal(p) /\ FileOf(p) \in disk
                           /\ run.dry \/ result \in remote',
         (result = None /\ ~failed') => ~LooksLocal(p) \/ FileOf(p) \notin disk,
         faults' \in 0..MaxFaults, kills' \in 0..MaxKills
  PROVE  MigrationInvariant'
<1>1. TypeOK
  BY DEF MigrationInvariant
<1>2. /\ cache' \in [Path -> Key \cup {None, Unseen}]
      /\ cache'[p] = result /\ \A q \in Path : q # p => cache'[q] = cache[q]
      /\ pc' = "write" /\ attempt' \in 1..Attempts /\ UNCHANGED <<run, todo, at>>
  BY <1>1, BoundAssumption DEF Settle, TypeOK
<1>3. result # Unseen
  BY KeyIsPath
<1>4. Met(t, at)'
  <2>1. cells' = cells /\ at' = at
    BY <1>2 DEF Stores
  <2>2. QED
    BY <1>2, <1>3, <2>1 DEF Met
<1>5. QED
  BY <1>2, <1>3, <1>4, ScriptStep

LEMMA LookUpInvariant ==
  ASSUME MigrationInvariant, NEW t \in Task, NEW o \in Outcome, LookUp(t, o)
  PROVE  MigrationInvariant'
<1> DEFINE p == cells[t][at]
           answer == Adapter(StorageName).exists[o]
<1>0. TypeOK /\ First(t) /\ at \in Cells(t) /\ p # None
  BY DEF LookUp, MigrationInvariant, AtACell
<1>1. p \in Path
  BY <1>0, CellType
<1>2. Stores
  BY DEF LookUp, Stores
<1>3. KeyOf(p) \in Key
  BY <1>1, KeyOfPath
<1>4. kills \in 0..MaxKills /\ faults \in 0..MaxFaults
  BY <1>0 DEF TypeOK
<1>5. CASE /\ LooksLocal(p) => FileOf(p) \notin disk
           /\ Give(p, None) /\ UNCHANGED <<faults, kills>>
  <2>1. failed' = failed /\ Settle(p, None) /\ None \notin Key
    BY <1>5, KeyIsPath DEF Give
  <2>2. QED
    BY <1>0, <1>1, <1>2, <1>4, <1>5, <2>1, SettleInvariant
<1>6. ASSUME LooksLocal(p), FileOf(p) \in disk, Count(o),
             o \notin Faulty => (o = "ok" <=> KeyOf(p) \in remote),
             \/ answer = "yes" /\ Give(p, KeyOf(p)) /\ UNCHANGED kills
             \/ answer = "no" /\ run.dry /\ Give(p, KeyOf(p)) /\ UNCHANGED kills
             \/ /\ answer = "no" /\ ~run.dry
                /\ pc' = "save"
                /\ UNCHANGED <<run, todo, at, attempt, cache, failed, kills>>
             \/ answer = "error" /\ Fail(p) /\ UNCHANGED kills
             \/ answer = "raise" /\ Die
      PROVE  MigrationInvariant'
  <2>1. faults' \in 0..MaxFaults
    BY <1>0, <1>6, CountBounded
  <2>2. CASE (answer = "yes" \/ run.dry) /\ Give(p, KeyOf(p)) /\ UNCHANGED kills
    <3>1. answer = "yes" => KeyOf(p) \in remote
      BY <1>6, CloudAnswers DEF Faulty
    <3>2. /\ failed' = failed /\ Settle(p, KeyOf(p)) /\ remote' = remote
          /\ KeyOf(p) # None
      BY <1>3, <2>2, KeyIsPath DEF Give, LookUp
    <3> HIDE DEF p, answer
    <3>3. QED
      BY <1>0, <1>1, <1>2, <1>3, <1>4, <1>6, <2>1, <2>2, <3>1, <3>2,
         SettleInvariant DEF p
  <2>3. CASE /\ answer = "no" /\ ~run.dry /\ pc' = "save"
             /\ UNCHANGED <<run, todo, at, attempt, cache, failed, kills>>
    <3>1. attempt' \in 1..Attempts /\ cache' \in [Path -> Key \cup {None, Unseen}]
          /\ kills' \in 0..MaxKills
      BY <1>0, <2>3 DEF TypeOK
    <3> HIDE DEF answer
    <3>2. QED
      BY <1>0, <1>2, <1>6, <2>1, <2>3, <3>1, ScriptStep
  <2>4. CASE answer = "error" /\ Fail(p) /\ UNCHANGED kills
    <3>1. failed' = TRUE /\ Settle(p, None) /\ None \notin Key
      BY <2>4, KeyIsPath DEF Fail
    <3> HIDE DEF p, answer
    <3>2. QED
      BY <1>0, <1>1, <1>2, <1>4, <2>1, <2>4, <3>1, SettleInvariant DEF p
  <2>5. CASE answer = "raise" /\ Die
    BY <1>2, <2>1, <2>5, DieInvariant
  <2>6. QED
    BY <1>6, <2>2, <2>3, <2>4, <2>5
<1>7. QED
  BY <1>5, <1>6 DEF LookUp

LEMMA SaveInvariant ==
  ASSUME MigrationInvariant, NEW t \in Task, NEW o \in Outcome, Save(t, o)
  PROVE  MigrationInvariant'
<1> DEFINE p == cells[t][at]
           answer == Adapter(StorageName).save[o]
<1>0. /\ TypeOK /\ First(t) /\ at \in Cells(t) /\ p # None
      /\ LooksLocal(p) /\ FileOf(p) \in disk /\ ~run.dry
  BY DEF Save, MigrationInvariant, AtACell
<1>1. p \in Path
  BY <1>0, CellType
<1>2. Stores
  BY <1>0 DEF Save, Stores
<1>3. KeyOf(p) \in Key /\ KeyOf(p) # None /\ None \notin Key
  BY <1>1, KeyOfPath, KeyIsPath
<1>4. kills \in 0..MaxKills /\ faults' \in 0..MaxFaults
  BY <1>0, CountBounded DEF TypeOK, Save
<1>5. CASE answer = "ok" /\ Give(p, KeyOf(p)) /\ UNCHANGED kills
  <2>1. KeyOf(p) \in remote'
    BY <1>5, CloudAnswers DEF Save
  <2>2. failed' = failed /\ Settle(p, KeyOf(p))
    BY <1>5 DEF Give
  <2> HIDE DEF p, answer
  <2>3. QED
    BY <1>0, <1>1, <1>2, <1>3, <1>4, <1>5, <2>1, <2>2, SettleInvariant DEF p
<1>6. CASE /\ answer = "error" /\ MayRetry /\ attempt' = attempt + 1
           /\ UNCHANGED <<pc, run, todo, at, cache, failed, kills>>
  <2>1. /\ attempt' \in 1..Attempts /\ cache' \in [Path -> Key \cup {None, Unseen}]
        /\ kills' \in 0..MaxKills
    BY <1>0, <1>6, BoundAssumption DEF TypeOK, MayRetry
  <2>2. pc' = "save"
    BY <1>6 DEF Save
  <2> HIDE DEF answer
  <2>3. QED
    BY <1>0, <1>2, <1>4, <1>6, <2>1, <2>2, ScriptStep
<1>7. CASE Fail(p) /\ UNCHANGED kills
  <2>1. failed' = TRUE /\ Settle(p, None)
    BY <1>7 DEF Fail
  <2> HIDE DEF p, answer
  <2>2. QED
    BY <1>0, <1>1, <1>2, <1>3, <1>4, <1>7, <2>1, SettleInvariant DEF p
<1>8. CASE Die
  BY <1>2, <1>4, <1>8, DieInvariant
<1>9. QED
  BY <1>5, <1>6, <1>7, <1>8 DEF Save

----------------------------------------------------------------------------
\* The UPDATE

\* What a cell holds behind the UPDATE: what it held, or the key the cache has
\* for that, which has the same name.
LEMMA WrittenCells ==
  ASSUME MigrationInvariant, NEW t \in Task, Write(t)
  PROVE  /\ cells' \in [Task -> Seq(Path \cup {None})]
         /\ \A u \in Task : u # t => cells'[u] = cells[u]
         /\ \A u \in Task : Len(cells'[u]) = Len(cells[u])
         /\ \A i \in Cells(t) :
              \/ cells'[t][i] = cells[t][i]
              \/ /\ cells[t][i] \in Path /\ cache[cells[t][i]] \in Key
                 /\ cells'[t][i] = cache[cells[t][i]]
                 /\ cells'[t][i].name = cells[t][i].name
                 /\ i \in Column(t, at) /\ ~run.dry /\ t \in live
         /\ (t \in live /\ ~run.dry) =>
              \A i \in Column(t, at) : cells'[t][i] = Migrated(cells[t][i])
<1> DEFINE n == Len(cells[t])
           r == [i \in 1..n |-> IF i \in Column(t, at) THEN Migrated(cells[t][i])
                                ELSE cells[t][i]]
<1>0. /\ TypeOK /\ First(t) /\ n \in Nat /\ at \in 1..n
      /\ \A i \in 1..n : cells[t][i] \in Path \cup {None}
      /\ cells \in [Task -> Seq(Path \cup {None})]
  BY CellType DEF MigrationInvariant, TypeOK, Write, AtACell, Cells
<1>1. \A i \in 1..n : Migrated(cells[t][i]) \in Path \cup {None}
  BY <1>0, KeyIsPath DEF Migrated
<1>2. r \in [1..n -> Path \cup {None}]
  BY <1>0, <1>1
<1>3. r \in Seq(Path \cup {None})
  BY <1>0, <1>2, SeqDef
<1>4. Len(r) = n
  <2>1. DOMAIN r = 1..Len(r) /\ Len(r) \in Nat
    BY <1>3, LenProperties
  <2>2. DOMAIN r = 1..n
    OBVIOUS
  <2> HIDE DEF r
  <2>3. \A i \in Nat : i \in 1..Len(r) <=> i \in 1..n
    BY <2>1, <2>2
  <2>4. Len(r) <= n
    <3>1. CASE Len(r) = 0
      BY <1>0, <3>1
    <3>2. CASE Len(r) > 0
      BY <1>0, <2>1, <2>3, <3>2
    <3>3. QED
      BY <2>1, <3>1, <3>2
  <2>5. n <= Len(r)
    BY <1>0, <2>1, <2>3
  <2>6. QED
    BY <1>0, <2>1, <2>4, <2>5
<1>5. \A i \in 1..n : r[i] = IF i \in Column(t, at) THEN Migrated(cells[t][i])
                             ELSE cells[t][i]
  OBVIOUS
<1>6. cells' = cells \/ (cells' = [cells EXCEPT ![t] = r] /\ Updates(t))
  BY DEF Write
<1>7. Updates(t) => cells' = [cells EXCEPT ![t] = r]
  BY DEF Write
<1> HIDE DEF r
<1>8. /\ cells' \in [Task -> Seq(Path \cup {None})]
      /\ \A u \in Task : u # t => cells'[u] = cells[u]
      /\ cells'[t] = cells[t] \/ (cells'[t] = r /\ Updates(t))
      /\ Updates(t) => cells'[t] = r
  BY <1>0, <1>3, <1>6, <1>7
<1>9. \A u \in Task : Len(cells'[u]) = Len(cells[u])
  BY <1>4, <1>8
<1>10. ASSUME NEW i \in 1..n, cells'[t][i] # cells[t][i]
       PROVE  /\ cells[t][i] \in Path /\ cache[cells[t][i]] \in Key
              /\ cells'[t][i] = cache[cells[t][i]]
              /\ cells'[t][i].name = cells[t][i].name
              /\ i \in Column(t, at) /\ ~run.dry /\ t \in live
  <2>1. /\ cells'[t] = r /\ Updates(t) /\ i \in Column(t, at)
        /\ cells'[t][i] = Migrated(cells[t][i])
    BY <1>5, <1>8, <1>10
  <2>2. /\ cells[t][i] # None /\ cache[cells[t][i]] \in Key
        /\ cells'[t][i] = cache[cells[t][i]]
    BY <1>10, <2>1 DEF Migrated
  <2>3. cells[t][i] \in Path
    BY <1>0, <2>2
  <2>4. cache[cells[t][i]] = KeyOf(cells[t][i])
    BY <1>0, <2>2, <2>3 DEF MigrationInvariant, CacheIsOfRow
  <2>5. QED
    BY <2>1, <2>2, <2>3, <2>4, KeyOfPath DEF Updates
<1>11. ASSUME t \in live, ~run.dry, NEW i \in Column(t, at)
       PROVE  cells'[t][i] = Migrated(cells[t][i])
  <2>1. i \in 1..n
    BY <1>0, <1>11 DEF Column
  <2>2. cells'[t] = r
    BY <1>8, <1>11 DEF Updates
  <2>3. QED
    BY <1>5, <1>11, <2>1, <2>2
<1>12. QED
  BY <1>8, <1>9, <1>10, <1>11 DEF Cells

\* What is written into a row that nobody deleted is stored; what stays is
\* not on disk.
LEMMA WrittenIsStored ==
  ASSUME MigrationInvariant, NEW t \in Task, Write(t), NEW i \in Cells(t)
  PROVE  /\ cells'[t][i] # cells[t][i] =>
              cells'[t][i] \in remote \/ (t \in excused /\ cells[t][i].name \in Picture)
         /\ (t \in live \ excused /\ ~run.dry /\ ~failed /\ i \in Column(t, at)) =>
              Stored(t, i)'
<1> USE DEF MigrationInvariant
<1>0. /\ TypeOK /\ First(t) /\ cells[t][i] \in Path \cup {None}
      /\ disk' = disk /\ remote' = remote /\ pc = "write"
  BY CellType DEF Write
<1>1. cells'[t][i] # cells[t][i] =>
        cells'[t][i] \in remote \/ (t \in excused /\ cells[t][i].name \in Picture)
  BY <1>0, WrittenCells DEF CacheIsStored
<1>2. ASSUME t \in live \ excused, ~run.dry, ~failed, i \in Column(t, at)
      PROVE  Stored(t, i)'
  <2>1. cells'[t][i] = Migrated(cells[t][i])
    BY <1>2, WrittenCells
  <2>2. Met(t, i)
    <3>1. i = at \/ i \in 3..(at - 1)
      BY <1>0, <1>2, CellType DEF Column, AtACell, Cells
    <3>2. QED
      BY <1>0, <3>1 DEF AtACell
  <2>3. CASE cells'[t][i] # cells[t][i]
    BY <1>0, <1>1, <1>2, <2>3 DEF Stored
  <2>4. CASE cells'[t][i] = cells[t][i]
    <3>1. CASE cells[t][i] = None
      BY <2>4, <3>1 DEF Stored, OnDisk
    <3>2. CASE cells[t][i] # None
      <4> DEFINE p == cells[t][i]
      <4>1. p \in Path /\ cache[p] # Unseen /\ cache[p] \in Key \cup {None, Unseen}
        BY <1>0, <2>2, <3>2 DEF Met, TypeOK
      <4>2. CASE cache[p] \in Key
        <5>1. p = cache[p]
          BY <2>1, <2>4, <3>2, <4>2 DEF Migrated
        <5>2. cache[p] \in remote
          BY <1>0, <1>2, <4>1, <4>2 DEF CacheIsStored
        <5>3. QED
          BY <1>0, <2>4, <5>1, <5>2 DEF Stored
      <4>3. CASE cache[p] = None
        <5>1. ~LooksLocal(p) \/ FileOf(p) \notin disk
          BY <1>0, <1>2, <4>1, <4>3 DEF CacheIsOfRow
        <5>2. LooksLocal(p) \/ p \in remote
          BY <3>2 DEF LooksLocal, BareIsStored
        <5>3. QED
          BY <1>0, <2>4, <5>1, <5>2 DEF Stored, OnDisk
      <4>4. QED
        BY <4>1, <4>2, <4>3
    <3>3. QED
      BY <3>1, <3>2
  <2>5. QED
    BY <2>3, <2>4
<1>3. QED
  BY <1>1, <1>2

LEMMA WriteInvariant ==
  ASSUME MigrationInvariant, NEW t \in Task, Write(t)
  PROVE  MigrationInvariant'
<1> USE DEF MigrationInvariant
<1>0. /\ TypeOK /\ First(t) /\ t \in todo /\ pc = "write" /\ pc' = "cell"
      /\ at \in Cells(t) /\ Len(cells[t]) \in Nat
      /\ UNCHANGED <<live, disk, remote, run, attempt, failed, erase, faults, kills,
                     verified, excused>>
  BY CellType DEF Write, First, AtACell
<1>1. /\ \A u \in Task : Cells(u)' = Cells(u)
      /\ \A u \in Task : u # t => cells'[u] = cells[u]
  BY WrittenCells DEF Cells
<1>2. \A u \in Task : \A i \in Cells(u) :
        /\ cells[u][i] = None <=> cells'[u][i] = None
        /\ cells[u][i] # None => cells'[u][i].name = cells[u][i].name
  <2>1. \A i \in Cells(t) :
          \/ cells'[t][i] = cells[t][i]
          \/ /\ cells[t][i] \in Path /\ cells'[t][i] \in Key
             /\ cells'[t][i].name = cells[t][i].name
    BY WrittenCells
  <2>2. QED
    BY <1>1, <2>1, KeyIsPath, MarkAssumption
<1>3. \A u \in live \ excused : \A i \in Cells(u) :
        cells'[u][i] # cells[u][i] => cells'[u][i] \in remote
  <2>1. \A u \in live : u \in Task
    BY <1>0 DEF TypeOK
  <2>2. QED
    BY <1>1, <2>1, WrittenIsStored
<1>4. \/ /\ at < Len(cells[t]) /\ at' = at + 1 /\ todo' = todo /\ cache' = cache
      \/ /\ at = Len(cells[t]) /\ at' = 1 /\ todo' = todo \ {t} /\ cache' = EmptyCache
  BY <1>0 DEF Write, Cells
<1>5. TypeOK'
  <2>1. at' \in Nat \ {0} /\ todo' \subseteq Task
        /\ cache' \in [Path -> Key \cup {None, Unseen}]
    BY <1>0, <1>4, EmptyCacheType DEF TypeOK
  <2>2. QED
    BY <1>0, <2>1, WrittenCells DEF TypeOK
<1>6. CellsKeepNames'
  <2>1. ASSUME NEW u \in Task, NEW i \in Cells(u), cells'[u][i] # None,
               cells'[u][i].form = "bare"
        PROVE  i # 1
    <3>1. CASE cells'[u][i] = cells[u][i]
      BY <2>1, <3>1 DEF CellsKeepNames
    <3>2. CASE cells'[u][i] # cells[u][i]
      <4>1. /\ u = t /\ cells[t][i] \in Path
            /\ cells'[t][i] = KeyOf(cells[t][i]) /\ LooksLocal(cells[t][i])
        BY <1>0, <1>1, <2>1, <3>2, WrittenCells DEF CacheIsOfRow
      <4>2. cells[t][i].name \notin Picture
        BY <2>1, <4>1, KeyOfPath
      <4>3. QED
        BY <2>1, <4>1, <4>2, MarkAssumption DEF CellsKeepNames
    <3>3. QED
      BY <3>1, <3>2
  <2>2. \A u \in Task : Len(cells'[u]) >= 2 /\ 1 \in Cells(u)
    BY WrittenCells, CellType DEF CellsKeepNames, Cells
  <2>3. QED
    BY <1>1, <1>2, <2>1, <2>2 DEF CellsKeepNames
<1>7. BareIsStored'
  <2>1. SUFFICES ASSUME NEW u \in Task, NEW i \in Cells(u), cells'[u][i] # None,
                        cells'[u][i].form = "bare"
                 PROVE  cells'[u][i] \in remote
    BY <1>0, <1>1 DEF BareIsStored
  <2>2. CASE cells'[u][i] = cells[u][i]
    BY <2>1, <2>2 DEF BareIsStored
  <2>3. CASE cells'[u][i] # cells[u][i]
    <3>1. /\ u = t /\ cells[t][i] \in Path
          /\ cells'[t][i] = KeyOf(cells[t][i]) /\ LooksLocal(cells[t][i])
      BY <1>0, <1>1, <2>1, <2>3, WrittenCells DEF CacheIsOfRow
    <3>2. cells[t][i].name \notin Picture
      BY <2>1, <3>1, KeyOfPath
    <3>3. QED
      BY <2>3, <3>1, <3>2, WrittenIsStored
  <2>4. QED
    BY <2>2, <2>3
<1>8. BetweenRows' /\ WhenOff'
  BY <1>0, <1>4 DEF BetweenRows, WhenOff
<1>9. ASSUME at < Len(cells[t])
      PROVE  AtACell' /\ CacheIsOfRow' /\ CacheIsStored' /\ ColumnsBehind'
             /\ RowsBehind' /\ OverlapIsExcused'
  <2>1. at' = at + 1 /\ todo' = todo /\ cache' = cache
    BY <1>0, <1>4, <1>9
  <2>2. \A u \in Task : First(u)' <=> u = t
    <3>1. \A u \in Task : First(u)' <=> First(u)
      BY <2>1 DEF First
    <3>2. QED
      BY <1>0, <3>1, FirstIsUnique
  <2>3. Column(t, at) = IF at <= 2 THEN {at} ELSE {}
    BY <1>9 DEF Column
  <2>4. \A i \in Cells(t) : i # at \/ at > 2 => cells'[t][i] = cells[t][i]
    BY <1>0, <2>3, WrittenCells DEF Cells
  <2>5. AtACell'
    <3>1. at + 1 \in Cells(t)
      BY <1>0, <1>9 DEF Cells
    <3>2. ASSUME NEW i \in 3..at
          PROVE  Met(t, i)'
      <4>1. i \in Cells(t) /\ cells'[t][i] = cells[t][i]
        BY <1>0, <2>4, <3>2 DEF Cells
      <4>2. Met(t, i)
        BY <1>0, <3>2 DEF AtACell, Cells
      <4>3. QED
        BY <2>1, <4>1, <4>2 DEF Met
    <3>3. 3..(at' - 1) = 3..at
      BY <1>0, <2>1 DEF Cells
    <3>4. QED
      BY <1>0, <1>1, <2>1, <2>2, <3>1, <3>2, <3>3 DEF AtACell
  <2>6. CacheIsOfRow' /\ CacheIsStored'
    BY <1>0, <1>1, <1>2, <2>1, <2>2 DEF CacheIsOfRow, CacheIsStored
  <2>7. ColumnsBehind'
    <3>1. SUFFICES ASSUME t \in live \ excused, ~run.dry, ~failed,
                          NEW i \in {1, 2}, i < at + 1
                   PROVE  Stored(t, i)'
      BY <1>0, <1>5, <2>1, <2>2 DEF ColumnsBehind, TypeOK
    <3>2. i \in Cells(t)
      BY <1>0, <3>1 DEF Cells
    <3>3. CASE i = at
      BY <2>3, <3>1, <3>2, <3>3, WrittenIsStored
    <3>4. CASE i # at
      <4>1. i < at /\ cells'[t][i] = cells[t][i]
        BY <1>0, <2>4, <3>1, <3>2, <3>4 DEF Cells
      <4>2. Stored(t, i)
        BY <1>0, <3>1, <4>1 DEF ColumnsBehind
      <4>3. QED
        BY <1>0, <4>1, <4>2 DEF Stored, OnDisk
    <3>5. QED
      BY <3>3, <3>4
  <2>8. RowsBehind'
    <3>1. \A u \in live \ todo : u \in Task /\ u # t
      BY <1>0 DEF TypeOK
    <3>2. QED
      BY <1>0, <1>1, <2>1, <3>1 DEF RowsBehind, Stored, OnDisk, Untouched, Erasing
  <2>9. OverlapIsExcused'
    BY <1>0, <2>1 DEF OverlapIsExcused, Erasing
  <2>10. QED
    BY <2>5, <2>6, <2>7, <2>8, <2>9
<1>10. ASSUME at = Len(cells[t])
       PROVE  AtACell' /\ CacheIsOfRow' /\ CacheIsStored' /\ ColumnsBehind'
              /\ RowsBehind' /\ OverlapIsExcused'
  <2>1. at' = 1 /\ todo' = todo \ {t} /\ cache' = EmptyCache
    BY <1>0, <1>4, <1>10
  <2>2. \A p \in Path : cache'[p] = Unseen
    BY <2>1, EmptyCacheType
  <2>3. CacheIsOfRow' /\ CacheIsStored'
    BY <2>2, KeyIsPath DEF CacheIsOfRow, CacheIsStored
  <2>4. AtACell'
    <3>1. \A u \in Task : 1 \in Cells(u)
      BY CellType DEF CellsKeepNames, Cells
    <3>2. 3..(at' - 1) = {}
      BY <2>1
    <3>3. QED
      BY <1>0, <1>1, <2>1, <3>1, <3>2 DEF AtACell
  <2>5. ColumnsBehind'
    BY <2>1 DEF ColumnsBehind
  <2>6. RowsBehind'
    <3>1. SUFFICES ASSUME run = FullRun, ~failed, NEW u \in live \ todo',
                          Untouched(u), NEW i \in Cells(u)
                   PROVE  Stored(u, i)'
      BY <1>0, <1>1, <1>5 DEF RowsBehind, Untouched, Erasing, TypeOK
    <3>2. CASE u # t
      <4>1. u \in live \ todo /\ u \in Task
        BY <1>0, <2>1, <3>1, <3>2 DEF TypeOK
      <4>2. Stored(u, i)
        BY <1>0, <3>1, <4>1 DEF RowsBehind
      <4>3. QED
        BY <1>0, <1>1, <3>2, <4>1, <4>2 DEF Stored, OnDisk
    <3>3. CASE u = t
      <4>1. t \in live \ excused /\ ~run.dry
        BY <3>1, <3>3, FullRunType DEF Untouched
      <4>2. CASE i \in Column(t, at)
        BY <3>1, <3>3, <4>1, <4>2, WrittenIsStored
      <4>3. CASE i \notin Column(t, at)
        <5>1. i \in {1, 2} /\ i < at
          BY <1>0, <1>10, <3>1, <3>3, <4>3 DEF Column, Cells
        <5>2. Stored(t, i)
          BY <1>0, <3>1, <4>1, <5>1 DEF ColumnsBehind
        <5>3. cells'[t][i] = cells[t][i]
          BY <3>1, <3>3, <4>3, WrittenCells
        <5>4. QED
          BY <1>0, <3>3, <5>2, <5>3 DEF Stored, OnDisk
      <4>4. QED
        BY <4>2, <4>3
    <3>4. QED
      BY <3>2, <3>3
  <2>7. OverlapIsExcused'
    BY <1>0, <2>1 DEF OverlapIsExcused, Erasing
  <2>8. QED
    BY <2>3, <2>4, <2>5, <2>6, <2>7
<1>11. EraseKnowsImage'
  <2>1. SUFFICES ASSUME erase # None
                 PROVE  LET c == cells[erase.task][1]
                            d == cells'[erase.task][1]
                        IN  (c = None <=> d = None) /\ (c # None => d.name = c.name)
    BY <1>0 DEF EraseKnowsImage
  <2>2. erase.task \in Task /\ 1 \in Cells(erase.task)
    BY <1>0, <2>1, CellType DEF TypeOK, CellsKeepNames, Cells
  <2>3. QED
    BY <1>2, <2>2
<1>12. ObjectOrphansExcused'
  <2>1. \A u \in Task : 1 \in Cells(u)
    BY CellType DEF CellsKeepNames, Cells
  <2>2. QED
    BY <1>0, <1>2, <2>1 DEF ObjectOrphansExcused
<1>13. VerifiedIsMigrated'
  <2>1. SUFFICES ASSUME verified, NEW u \in live, Untouched(u), NEW i \in Cells(u),
                        OnDisk(cells'[u][i])
                 PROVE  cells'[u][i] \in remote
    BY <1>0, <1>1, <1>5 DEF VerifiedIsMigrated, Untouched, Erasing, OnDisk, TypeOK
  <2>2. CASE cells'[u][i] = cells[u][i]
    BY <2>1, <2>2 DEF VerifiedIsMigrated
  <2>3. CASE cells'[u][i] # cells[u][i]
    BY <1>3, <2>1, <2>3 DEF Untouched
  <2>4. QED
    BY <2>2, <2>3
<1>14. at < Len(cells[t]) \/ at = Len(cells[t])
  BY <1>4
<1>15. QED
  BY <1>5, <1>6, <1>7, <1>8, <1>9, <1>10, <1>11, <1>12, <1>13, <1>14

----------------------------------------------------------------------------
\* The other steps of the script

LEMMA StartInvariant ==
  ASSUME MigrationInvariant, NEW limit \in Limits, NEW dry \in BOOLEAN,
         Start(limit, dry)
  PROVE  MigrationInvariant'
<1> USE DEF MigrationInvariant
<1>0. /\ TypeOK /\ pc = "off" /\ pc' = "cell" /\ todo = {}
      /\ run' = [limit |-> limit, dry |-> dry]
      /\ todo' = Candidates(limit) /\ ~failed' /\ failed' \in BOOLEAN
      /\ UNCHANGED <<cells, live, disk, remote, at, attempt, cache, erase, faults,
                     kills, verified>>
  BY DEF Start, WhenOff
<1>1. at = 1 /\ cache = EmptyCache
  BY <1>0 DEF BetweenRows
<1>2. /\ excused \subseteq excused' /\ excused' \subseteq Task
      /\ \A t \in todo' : Erasing(t) => t \in excused'
  BY <1>0 DEF Start, Erasing, TypeOK
<1>3. todo' \subseteq live /\ todo' \subseteq Task
  BY <1>0 DEF Candidates, Candidate
<1>4. TypeOK'
  BY <1>0, <1>2, <1>3 DEF TypeOK
<1>5. CellsKeepNames' /\ BareIsStored' /\ EraseKnowsImage' /\ ObjectOrphansExcused'
      /\ VerifiedIsMigrated'
  BY <1>0, <1>2 DEF CellsKeepNames, BareIsStored, EraseKnowsImage, ObjectOrphansExcused,
                    VerifiedIsMigrated, Cells, Untouched, Erasing, OnDisk
<1>6. BetweenRows' /\ WhenOff'
  BY <1>0, <1>1 DEF BetweenRows, WhenOff, EmptyCache
<1>7. AtACell'
  <2>1. \A t \in Task : 1 \in Cells(t) /\ Cells(t)' = Cells(t)
    BY <1>0, CellType DEF CellsKeepNames, Cells
  <2>2. 3..(at' - 1) = {}
    BY <1>0, <1>1
  <2>3. QED
    BY <1>0, <1>1, <2>1, <2>2 DEF AtACell
<1>8. CacheIsOfRow' /\ CacheIsStored'
  BY <1>0, <1>1, EmptyCacheType, KeyIsPath DEF CacheIsOfRow, CacheIsStored
<1>9. ColumnsBehind'
  BY <1>0, <1>1 DEF ColumnsBehind
<1>10. RowsBehind'
  <2>1. SUFFICES ASSUME run' = FullRun, NEW t \in live \ todo', NEW i \in Cells(t)
                 PROVE  Stored(t, i)
    BY <1>0 DEF RowsBehind, Cells, Stored, OnDisk
  <2>2. t \in Task /\ limit = 0
    BY <1>0, <2>1 DEF TypeOK, FullRun
  <2>3. ~LooksLocal(cells[t][i])
    BY <1>0, <2>1, <2>2 DEF Candidates, Candidate, Cells
  <2>4. QED
    BY <2>1, <2>2, <2>3 DEF LooksLocal, Stored, OnDisk, BareIsStored
<1>11. OverlapIsExcused'
  BY <1>0, <1>2, <1>3 DEF OverlapIsExcused, Erasing
<1>12. QED
  BY <1>4, <1>5, <1>6, <1>7, <1>8, <1>9, <1>10, <1>11

LEMMA EndInvariant ==
  ASSUME MigrationInvariant, End
  PROVE  MigrationInvariant'
<1> USE DEF MigrationInvariant
<1>0. /\ TypeOK /\ pc = "cell" /\ pc' = "off" /\ todo = {} /\ run' = FullRun
      /\ ~failed' /\ failed' \in BOOLEAN
      /\ UNCHANGED <<cells, live, disk, remote, todo, at, attempt, cache, erase,
                     faults, kills, excused>>
  BY DEF End
<1>1. verified' => verified \/ (run = FullRun /\ ~failed)
  BY DEF End
<1>2. TypeOK'
  BY <1>0, FullRunType DEF TypeOK, End
<1>3. CellsKeepNames' /\ BareIsStored' /\ EraseKnowsImage' /\ ObjectOrphansExcused'
  BY <1>0 DEF CellsKeepNames, BareIsStored, EraseKnowsImage, ObjectOrphansExcused, Cells
<1>4. BetweenRows' /\ WhenOff' /\ RowsBehind' /\ OverlapIsExcused'
  BY <1>0 DEF BetweenRows, WhenOff, RowsBehind, OverlapIsExcused, EmptyCache, Erasing
<1>5. AtACell' /\ CacheIsOfRow' /\ CacheIsStored' /\ ColumnsBehind'
  BY <1>0 DEF AtACell, CacheIsOfRow, CacheIsStored, ColumnsBehind, First
<1>6. VerifiedIsMigrated'
  <2>1. SUFFICES ASSUME verified', NEW t \in live, Untouched(t), NEW i \in Cells(t)
                 PROVE  Stored(t, i)
    BY <1>0 DEF VerifiedIsMigrated, Untouched, Erasing, Cells, Stored, OnDisk
  <2>2. CASE verified
    BY <2>1, <2>2 DEF VerifiedIsMigrated, Stored
  <2>3. CASE run = FullRun /\ ~failed
    BY <1>0, <2>1, <2>3 DEF RowsBehind
  <2>4. QED
    BY <1>1, <2>1, <2>2, <2>3
<1>7. QED
  BY <1>2, <1>3, <1>4, <1>5, <1>6

----------------------------------------------------------------------------
\* The server and the operator

LEMMA EraseReadInvariant ==
  ASSUME MigrationInvariant, NEW t \in Task, EraseRead(t)
  PROVE  MigrationInvariant'
<1> USE DEF MigrationInvariant
<1>0. /\ TypeOK /\ erase = None /\ t \in live
      /\ UNCHANGED <<cells, live, disk, remote, pc, run, todo, at, attempt, cache,
                     failed, faults, kills, verified>>
      /\ 1 \in Cells(t)
  BY CellType DEF EraseRead, scriptVars, CellsKeepNames, Cells
<1>1. /\ excused \subseteq excused' /\ excused' \subseteq Task
      /\ t \in todo => t \in excused'
  BY <1>0 DEF EraseRead, TypeOK
<1>2. /\ cells[t][1] = None => erase' = [task |-> t, key |-> None]
      /\ cells[t][1] # None =>
           erase' = [task |-> t, key |-> KeyPath(cells[t][1].name)]
  <2>1. ASSUME cells[t][1] # None
        PROVE  LegacyKey(cells[t][1]) = KeyPath(cells[t][1].name)
    BY <1>0, <2>1, CellType, KeyOfPath DEF CellsKeepNames
  <2>2. QED
    BY <2>1 DEF EraseRead
<1>3. cells[t][1] # None => KeyPath(cells[t][1].name) \in Key
  BY <1>0, CellType DEF KeyPath, Key, Path
<1>4. TypeOK'
  BY <1>0, <1>1, <1>2, <1>3 DEF TypeOK
<1>5. erase'.task = t /\ erase' # None
  BY <1>2, <1>3, MarkAssumption
<1>6. EraseKnowsImage'
  BY <1>0, <1>2, <1>3, <1>5, KeyIsPath DEF EraseKnowsImage
<1>7. OverlapIsExcused'
  BY <1>0, <1>1, <1>5 DEF OverlapIsExcused, Erasing
<1>8. CellsKeepNames' /\ BareIsStored' /\ ObjectOrphansExcused' /\ BetweenRows' /\ WhenOff'
  BY <1>0, <1>1 DEF CellsKeepNames, BareIsStored, ObjectOrphansExcused, BetweenRows,
                    WhenOff, EmptyCache, Cells
<1>9. AtACell' /\ CacheIsOfRow' /\ CacheIsStored' /\ ColumnsBehind'
  BY <1>0, <1>1 DEF AtACell, CacheIsOfRow, CacheIsStored, ColumnsBehind, First,
                    Met, Cells, Stored, OnDisk
<1>10. \A u \in live : Untouched(u)' => Untouched(u)
  BY <1>0, <1>1 DEF Untouched, Erasing
<1>11. RowsBehind' /\ VerifiedIsMigrated'
  BY <1>0, <1>10 DEF RowsBehind, VerifiedIsMigrated, Stored, OnDisk, Cells
<1>12. QED
  BY <1>4, <1>6, <1>7, <1>8, <1>9, <1>11

\* The object that is deleted is that of one row: no other row names it.
LEMMA EraseObjectEffect ==
  ASSUME MigrationInvariant, NEW o \in Outcome, EraseObject(o)
  PROVE  /\ erase.task \in Task /\ erase.key = KeyPath(cells[erase.task][1].name)
         /\ cells[erase.task][1] # None /\ cells[erase.task][1].name \in Picture
         /\ remote' \subseteq remote /\ remote \ {erase.key} \subseteq remote'
         /\ \A u \in Task : \A i \in Cells(u) :
              (u # erase.task /\ cells[u][i] \in remote) => cells[u][i] \in remote'
<1> USE DEF MigrationInvariant
<1>1. /\ erase # None /\ erase.key # None /\ erase.task \in Task
  BY DEF EraseObject, TypeOK
<1>2. erase.key = KeyPath(cells[erase.task][1].name) /\ cells[erase.task][1] # None
  BY <1>1 DEF EraseKnowsImage
<1>3. 1 \in Cells(erase.task)
  BY <1>1, CellType DEF CellsKeepNames, Cells
<1>4. cells[erase.task][1].name \in Picture
  BY <1>1, <1>2, <1>3 DEF CellsKeepNames
<1>5. remote' \subseteq remote /\ remote \ {erase.key} \subseteq remote'
  BY DEF EraseObject
<1>6. ASSUME NEW u \in Task, NEW i \in Cells(u), u # erase.task, cells[u][i] \in remote
      PROVE  cells[u][i] \in remote'
  <2>1. cells[u][i] # None
    BY <1>6, KeyIsPath DEF TypeOK
  <2>2. cells[u][i] # erase.key
    BY <1>1, <1>2, <1>6, <2>1, PictureIsOwn DEF KeyPath
  <2>3. QED
    BY <1>5, <1>6, <2>2
<1>7. QED
  BY <1>1, <1>2, <1>4, <1>5, <1>6

LEMMA EraseObjectInvariant ==
  ASSUME MigrationInvariant, NEW o \in Outcome, EraseObject(o)
  PROVE  MigrationInvariant'
<1> USE DEF MigrationInvariant
<1> DEFINE t == erase.task
<1>0. /\ TypeOK /\ erase # None /\ erase.key # None /\ t \in Task /\ Erasing(t)
      /\ UNCHANGED <<cells, live, disk, pc, run, todo, at, attempt, cache, failed,
                     kills, verified>>
  BY DEF EraseObject, scriptVars, TypeOK, Erasing
<1>1. /\ excused \subseteq excused' /\ excused' \subseteq Task
      /\ erase' = None \/ erase' = [task |-> t, key |-> None]
      /\ erase' = None => t \in excused'
  <2>1. erase' = None \/ erase' = [erase EXCEPT !.key = None]
    BY DEF EraseObject
  <2>2. [erase EXCEPT !.key = None] = [task |-> t, key |-> None]
    BY <1>0 DEF TypeOK
  <2>3. [task |-> t, key |-> None] # None
    BY <1>0, MarkAssumption DEF TypeOK, EraseObject
  <2>4. QED
    BY <1>0, <2>1, <2>2, <2>3 DEF EraseObject, TypeOK
<1>2. /\ remote' \subseteq remote /\ remote \ {erase.key} \subseteq remote'
      /\ erase.key = KeyPath(cells[t][1].name)
      /\ cells[t][1] # None /\ cells[t][1].name \in Picture
      /\ \A u \in Task : \A i \in Cells(u) :
           (u # t /\ cells[u][i] \in remote) => cells[u][i] \in remote'
  BY EraseObjectEffect
<1>3. faults' \in 0..MaxFaults
  BY <1>0, CountBounded DEF EraseObject
<1>4. TypeOK'
  BY <1>0, <1>1, <1>2, <1>3 DEF TypeOK
<1>5. CellsKeepNames' /\ BetweenRows' /\ WhenOff' /\ AtACell' /\ CacheIsOfRow'
  BY <1>0 DEF CellsKeepNames, BetweenRows, WhenOff, AtACell, CacheIsOfRow, First,
              Met, Cells, EmptyCache
<1>6. BareIsStored'
  BY <1>0, <1>2 DEF BareIsStored, Cells, KeyPath
<1>7. t \in todo => t \in excused
  BY <1>0 DEF OverlapIsExcused
<1>8. CacheIsStored'
  <2>1. SUFFICES ASSUME NEW u \in Task, NEW p \in Path, First(u), ~run.dry,
                        cache[p] \in Key, cache[p] \in remote, cache[p] \notin remote'
                 PROVE  p.name \in Picture /\ u \in excused
    BY <1>0, <1>1 DEF CacheIsStored, First
  <2>2. cache[p] = erase.key /\ cache[p] = KeyOf(p)
    BY <1>2, <2>1 DEF CacheIsOfRow
  <2>3. p.name = cells[t][1].name
    BY <1>2, <2>2, KeyOfPath DEF KeyPath
  <2>4. PICK i \in Cells(u) : cells[u][i] # None /\ cells[u][i].name = p.name
    BY <2>1 DEF CacheIsOfRow
  <2>5. u = t
    BY <1>0, <1>2, <2>3, <2>4, PictureIsOwn
  <2>6. QED
    BY <1>2, <1>7, <2>1, <2>3, <2>5 DEF First
<1>9. ColumnsBehind'
  <2>1. SUFFICES ASSUME NEW u \in live \ excused, First(u), ~run.dry, ~failed,
                        NEW i \in {1, 2}, i < at, Stored(u, i), OnDisk(cells[u][i])
                 PROVE  cells[u][i] \in remote'
    BY <1>0, <1>1 DEF ColumnsBehind, First, Stored, OnDisk
  <2>2. u \in Task /\ u # t /\ i \in Cells(u)
    BY <1>0, <1>7, <2>1, CellType DEF First, TypeOK, CellsKeepNames, Cells
  <2>3. QED
    BY <1>2, <2>1, <2>2 DEF Stored
<1>10. \A u \in Task : Untouched(u)' => Untouched(u) /\ u # t
  BY <1>0, <1>1 DEF Untouched, Erasing
<1>11. RowsBehind' /\ VerifiedIsMigrated'
  <2>1. \A u \in live : u \in Task
    BY <1>0 DEF TypeOK
  <2>2. RowsBehind'
    BY <1>0, <1>2, <1>10, <2>1 DEF RowsBehind, Stored, OnDisk, Cells
  <2>3. VerifiedIsMigrated'
    BY <1>0, <1>2, <1>10, <2>1 DEF VerifiedIsMigrated, OnDisk, Cells
  <2>4. QED
    BY <2>2, <2>3
<1>12. OverlapIsExcused'
  BY <1>0, <1>1, <1>7 DEF OverlapIsExcused, Erasing
<1>13. EraseKnowsImage'
  <2>1. SUFFICES ASSUME erase' # None, t \notin excused'
                 PROVE  erase.key \notin remote'
    BY <1>0, <1>1, <1>2 DEF EraseKnowsImage
  <2>2. o \in {"ok", "missing"}
    BY <2>1, CloudAnswers DEF EraseObject
  <2>3. QED
    BY <2>2 DEF EraseObject
<1>14. ObjectOrphansExcused'
  BY <1>0, <1>1, <1>2 DEF ObjectOrphansExcused
<1>15. QED
  BY <1>4, <1>5, <1>6, <1>8, <1>9, <1>11, <1>12, <1>13, <1>14

LEMMA EraseRowInvariant ==
  ASSUME MigrationInvariant, EraseRow
  PROVE  MigrationInvariant'
<1> USE DEF MigrationInvariant
<1> DEFINE t == erase.task
<1>0. /\ TypeOK /\ erase # None /\ erase.key = None /\ t \in Task /\ Erasing(t)
      /\ live' = live \ {t} /\ erase' = None
      /\ UNCHANGED <<cells, disk, remote, pc, run, todo, at, attempt, cache, failed,
                     faults, kills, verified, excused>>
  BY DEF EraseRow, scriptVars, TypeOK, Erasing
<1>1. TypeOK'
  BY <1>0 DEF TypeOK
<1>2. CellsKeepNames' /\ BareIsStored' /\ BetweenRows' /\ WhenOff' /\ EraseKnowsImage'
  BY <1>0 DEF CellsKeepNames, BareIsStored, BetweenRows, WhenOff, EraseKnowsImage,
              EmptyCache, Cells
<1>3. AtACell' /\ CacheIsOfRow' /\ CacheIsStored' /\ ColumnsBehind'
  BY <1>0 DEF AtACell, CacheIsOfRow, CacheIsStored, ColumnsBehind, First, Met,
              Cells, Stored, OnDisk
<1>4. \A u \in live' : Untouched(u)' => Untouched(u)
  BY <1>0 DEF Untouched, Erasing
<1>5. RowsBehind' /\ VerifiedIsMigrated'
  BY <1>0, <1>4 DEF RowsBehind, VerifiedIsMigrated, Stored, OnDisk, Cells
<1>6. OverlapIsExcused'
  BY <1>0 DEF OverlapIsExcused, Erasing
<1>7. ObjectOrphansExcused'
  BY <1>0 DEF ObjectOrphansExcused, EraseKnowsImage
<1>8. QED
  BY <1>1, <1>2, <1>3, <1>5, <1>6, <1>7

LEMMA CleanUpInvariant ==
  ASSUME MigrationInvariant, CleanUp
  PROVE  MigrationInvariant'
<1> USE DEF MigrationInvariant
<1>0. /\ TypeOK /\ pc = "off" /\ todo = {} /\ disk' = {}
      /\ UNCHANGED <<cells, live, remote, pc, run, todo, at, attempt, cache, failed,
                     erase, faults, kills, verified, excused>>
  BY DEF CleanUp, scriptVars, WhenOff
<1>1. TypeOK' /\ CellsKeepNames' /\ BareIsStored' /\ EraseKnowsImage'
      /\ ObjectOrphansExcused'
  BY <1>0 DEF TypeOK, CellsKeepNames, BareIsStored, EraseKnowsImage,
              ObjectOrphansExcused, Cells
<1>2. BetweenRows' /\ WhenOff' /\ RowsBehind' /\ OverlapIsExcused'
  BY <1>0 DEF BetweenRows, WhenOff, RowsBehind, OverlapIsExcused, EmptyCache, Erasing
<1>3. AtACell' /\ CacheIsOfRow' /\ CacheIsStored' /\ ColumnsBehind'
  BY <1>0 DEF AtACell, CacheIsOfRow, CacheIsStored, ColumnsBehind, First
<1>4. VerifiedIsMigrated'
  BY <1>0 DEF VerifiedIsMigrated, OnDisk
<1>5. QED
  BY <1>1, <1>2, <1>3, <1>4

----------------------------------------------------------------------------
\* The invariant

LEMMA InitMigration == Init => MigrationInvariant
<1>1. SUFFICES ASSUME Init PROVE MigrationInvariant
  OBVIOUS
<1>2. PICK table \in Table : cells = table.cells /\ disk = table.disk
  BY <1>1 DEF Init
<1>3. /\ pc = "off" /\ run = FullRun /\ todo = {} /\ at = 1 /\ attempt = 1
      /\ cache = EmptyCache /\ failed = FALSE /\ erase = None /\ faults = 0
      /\ kills = 0 /\ verified = FALSE /\ excused = {} /\ live = Task /\ remote = {}
  BY <1>1 DEF Init
<1>4. /\ cells \in [Task -> Seq(Path \cup {None})]
      /\ disk \subseteq {FileOf(p) : p \in Path}
      /\ \A t \in Task :
           /\ Len(cells[t]) >= 2
           /\ \A i \in Cells(t) : cells[t][i] # None =>
                cells[t][i].form # "bare" /\ (cells[t][i].name \in Picture <=> i = 1)
           /\ \A u \in Task \ {t} : cells[t][1] # None /\ cells[u][1] # None
                                   => cells[t][1].name # cells[u][1].name
  BY <1>2, TableAssumption DEF Cells
<1>5. TypeOK
  <2>1. attempt \in 1..Attempts /\ faults \in 0..MaxFaults /\ kills \in 0..MaxKills
        /\ at \in Nat \ {0}
    BY <1>3, BoundAssumption
  <2>2. run \in [limit : Limits, dry : BOOLEAN]
        /\ cache \in [Path -> Key \cup {None, Unseen}]
    BY <1>3, FullRunType, EmptyCacheType
  <2>3. QED
    BY <1>3, <1>4, <2>1, <2>2 DEF TypeOK
<1>6. CellsKeepNames /\ BareIsStored
  BY <1>4 DEF CellsKeepNames, BareIsStored
<1>7. BetweenRows /\ WhenOff /\ AtACell /\ CacheIsOfRow /\ CacheIsStored
      /\ ColumnsBehind
  BY <1>3 DEF BetweenRows, WhenOff, AtACell, CacheIsOfRow, CacheIsStored,
              ColumnsBehind, First
<1>8. RowsBehind /\ OverlapIsExcused /\ EraseKnowsImage /\ ObjectOrphansExcused
      /\ VerifiedIsMigrated
  BY <1>3 DEF RowsBehind, OverlapIsExcused, EraseKnowsImage, ObjectOrphansExcused,
              VerifiedIsMigrated
<1>9. QED
  BY <1>5, <1>6, <1>7, <1>8 DEF MigrationInvariant

LEMMA StutterInvariant ==
  ASSUME MigrationInvariant, UNCHANGED vars
  PROVE  MigrationInvariant'
<1>1. UNCHANGED <<cells, live, disk, remote, pc, run, todo, at, attempt, cache,
                  failed, erase, faults, kills, verified, excused>>
  BY DEF vars, scriptVars
<1> USE DEF MigrationInvariant
<1>2. TypeOK' /\ CellsKeepNames' /\ BareIsStored' /\ EraseKnowsImage'
  BY <1>1 DEF TypeOK, CellsKeepNames, BareIsStored, EraseKnowsImage, Cells
<1>3. BetweenRows' /\ WhenOff' /\ OverlapIsExcused' /\ ObjectOrphansExcused'
  BY <1>1 DEF BetweenRows, WhenOff, OverlapIsExcused, ObjectOrphansExcused,
              EmptyCache, Erasing
<1>4. AtACell' /\ CacheIsOfRow' /\ CacheIsStored' /\ ColumnsBehind'
  BY <1>1 DEF AtACell, CacheIsOfRow, CacheIsStored, ColumnsBehind, First, Met,
              Cells, Stored, OnDisk
<1>5. RowsBehind' /\ VerifiedIsMigrated'
  BY <1>1 DEF RowsBehind, VerifiedIsMigrated, Stored, OnDisk, Cells, Untouched,
              Erasing
<1>6. QED
  BY <1>2, <1>3, <1>4, <1>5

LEMMA NextMigration == MigrationInvariant /\ [Next]_vars => MigrationInvariant'
<1>1. SUFFICES ASSUME MigrationInvariant, [Next]_vars PROVE MigrationInvariant'
  OBVIOUS
<1>2. ASSUME NEW limit \in Limits, NEW dry \in BOOLEAN, Start(limit, dry)
      PROVE  MigrationInvariant'
  BY <1>1, <1>2, StartInvariant
<1>3. ASSUME NEW t \in Task,
             \/ Cached(t) \/ Write(t) \/ EraseRead(t)
             \/ \E o \in Outcome : LookUp(t, o) \/ Save(t, o)
      PROVE  MigrationInvariant'
  BY <1>1, <1>3, CachedInvariant, WriteInvariant, EraseReadInvariant,
     LookUpInvariant, SaveInvariant
<1>4. CASE End
  BY <1>1, <1>4, EndInvariant
<1>5. CASE Kill
  BY <1>1, <1>5, KillInvariant
<1>6. CASE Erase
  BY <1>1, <1>6, EraseObjectInvariant DEF Erase
<1>7. CASE EraseRow
  BY <1>1, <1>7, EraseRowInvariant
<1>8. CASE CleanUp
  BY <1>1, <1>8, CleanUpInvariant
<1>9. CASE UNCHANGED vars
  BY <1>1, <1>9, StutterInvariant
<1>10. QED
  BY <1>1, <1>2, <1>3, <1>4, <1>5, <1>6, <1>7, <1>8, <1>9 DEF Next, Work

\* Whatever rows, files, faults and kills: the types, and what the cache, the
\* rows behind the script and a pending delete say of bucket and disk.
THEOREM MigrationInvariance == Spec => []MigrationInvariant
<1>1. QED
  BY InitMigration, NextMigration, PTL DEF Spec

\* A full run without a failure has brought every file that is on disk and
\* that a row names into the bucket, rows under a delete excepted.
THEOREM FullRunsMigrate == Spec => []VerifiedIsMigrated
<1>1. MigrationInvariant => VerifiedIsMigrated
  BY DEF MigrationInvariant
<1>2. QED
  BY <1>1, MigrationInvariance, PTL

\* A deleted row leaves its image in the bucket only if the delete overlapped
\* with a run, or the backend did not confirm it.
THEOREM DeletesLeaveNoOrphans == Spec => []ObjectOrphansExcused
<1>1. MigrationInvariant => ObjectOrphansExcused
  BY DEF MigrationInvariant
<1>2. QED
  BY <1>1, MigrationInvariance, PTL

----------------------------------------------------------------------------
\* What a step may do to pictures and rows

\* Apart from an UPDATE, a delete of an object and the removal of the local
\* files, a step leaves rows and files alone and takes nothing from the bucket.
LEMMA OtherSteps ==
  ASSUME MigrationInvariant, [Next]_vars
  PROVE  /\ live' \subseteq live /\ live \subseteq Task
         /\ \/ cells' = cells /\ disk' = disk /\ remote \subseteq remote'
            \/ \E t \in Task : Write(t)
            \/ \E o \in Outcome : EraseObject(o) /\ cells' = cells /\ disk' = disk
            \/ CleanUp /\ cells' = cells
<1>1. live \subseteq Task
  BY DEF MigrationInvariant, TypeOK
<1>2. CASE UNCHANGED vars
  BY <1>1, <1>2 DEF vars
<1>3. CASE \E limit \in Limits, dry \in BOOLEAN : Start(limit, dry)
  BY <1>1, <1>3 DEF Start
<1>4. CASE Work
  BY <1>1, <1>4 DEF Work, Cached, Write, LookUp, Save, End
<1>5. CASE Kill \/ EraseRow \/ CleanUp \/ \E t \in Task : EraseRead(t)
  BY <1>1, <1>5 DEF Kill, EraseRow, CleanUp, EraseRead
<1>6. CASE Erase
  BY <1>1, <1>6 DEF Erase, EraseObject
<1>7. QED
  BY <1>2, <1>3, <1>4, <1>5, <1>6 DEF Next

\* The picture of a key is shown when its object is stored.
LEMMA KeyIsShown ==
  ASSUME NEW k \in Key
  PROVE  Shown(k) <=> k \in remote
<1>1. k # None /\ k.form # "static"
  BY KeyIsPath DEF Key
<1>2. QED
  BY <1>1 DEF Shown, ToUrl

LEMMA OnlyStoredStep ==
  ASSUME MigrationInvariant, [Next]_vars, NEW t \in live, Untouched(t),
         NEW i \in Cells(t), cells'[t][i] # cells[t][i]
  PROVE  cells[t][i]' \in remote /\ cells[t][i]' \in Key /\ remote' = remote
<1>1. PICK u \in Task : Write(u)
  BY OtherSteps DEF CleanUp
<1>2. u = t
  BY <1>1, OtherSteps, WrittenCells
<1>3. cells'[t][i] \in remote
  BY <1>1, <1>2, WrittenIsStored DEF Untouched
<1>4. QED
  BY <1>1, <1>3 DEF Write, MigrationInvariant, TypeOK

\* What the script writes into a row that nobody deletes names a stored object.
THEOREM WritesNameStoredObjects == Spec => OnlyStoredKeysWritten
<1>1. MigrationInvariant /\ [Next]_vars =>
        [\A t \in live : Untouched(t) =>
           \A i \in Cells(t) : cells'[t][i] # cells[t][i] => cells[t][i]' \in remote]_vars
  BY OnlyStoredStep
<1>2. QED
  BY <1>1, MigrationInvariance, PTL DEF Spec, OnlyStoredKeysWritten

LEMMA PictureStep ==
  ASSUME MigrationInvariant, [Next]_vars, NEW t \in live', Untouched(t),
         NEW i \in Cells(t), Shown(cells[t][i])
  PROVE  Shown(cells[t][i])'
<1>0. t \in live /\ t \in Task /\ cells[t][i] # None /\ TypeOK
  BY OtherSteps DEF Shown, MigrationInvariant
<1>1. CASE cells'[t][i] # cells[t][i]
  <2>1. cells'[t][i] \in remote' /\ cells'[t][i] \in Key
    BY <1>0, <1>1, OnlyStoredStep
  <2>2. cells'[t][i] # None /\ cells'[t][i].form # "static"
    BY <2>1, KeyIsPath DEF Key
  <2>3. QED
    BY <2>1, <2>2 DEF Shown, ToUrl
<1>2. CASE cells'[t][i] = cells[t][i] /\ disk' = disk /\ remote \subseteq remote'
  BY <1>0, <1>2 DEF Shown
<1>3. ASSUME NEW o \in Outcome, EraseObject(o), cells' = cells, disk' = disk
      PROVE  Shown(cells[t][i])'
  <2>1. t # erase.task
    BY <1>3 DEF Untouched, Erasing, EraseObject
  <2>2. cells[t][i] \in remote => cells[t][i] \in remote'
    BY <1>0, <1>3, <2>1, EraseObjectEffect
  <2>3. ToUrl(cells[t][i]).at = "backend" => ToUrl(cells[t][i]).key = cells[t][i]
    BY DEF ToUrl
  <2>4. QED
    BY <1>0, <1>3, <2>2, <2>3 DEF Shown
<1>4. ASSUME CleanUp, cells' = cells
      PROVE  Shown(cells[t][i])'
  <2>1. verified /\ remote' = remote
    BY <1>4 DEF CleanUp
  <2>2. OnDisk(cells[t][i]) => cells[t][i] \in Key
    BY <1>0, <2>1 DEF MigrationInvariant, VerifiedIsMigrated, TypeOK
  <2>3. ToUrl(cells[t][i]).at = "disk" => cells[t][i] \notin Key
                                        /\ ToUrl(cells[t][i]).key = FileOf(cells[t][i])
    BY DEF ToUrl, FileOf, Key
  <2>4. QED
    BY <1>0, <1>4, <2>1, <2>2, <2>3 DEF Shown, OnDisk
<1>5. ASSUME NEW u \in Task, Write(u)
      PROVE  disk' = disk /\ remote' = remote
  BY <1>5 DEF Write
<1>6. QED
  BY <1>1, <1>2, <1>3, <1>4, <1>5, OtherSteps

\* Of a row that nobody deletes no picture that was shown is lost, whatever
\* the script, kills, failing calls and the removal of the files do.
THEOREM NoPictureIsLost == Spec => PicturesStayAvailable
<1>1. MigrationInvariant /\ [Next]_vars =>
        [\A t \in live' : Untouched(t) =>
           \A i \in Cells(t) : Shown(cells[t][i]) => Shown(cells[t][i])']_vars
  BY PictureStep
<1>2. QED
  BY <1>1, MigrationInvariance, PTL DEF Spec, PicturesStayAvailable
=============================================================================
