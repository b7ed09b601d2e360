----------------------- MODULE MigrateToOssProperties -----------------------
(***************************************************************************)
(* What a migration to object storage must keep and bring about.           *)
(***************************************************************************)
EXTENDS MigrateToOss

Cells(t) == 1..Len(cells[t])
Erasing(t) == erase # None /\ erase.task = t

\* No delete of the row is under way, or was refused by the backend.
Untouched(t) == ~Erasing(t) /\ t \notin excused

\* The browser gets the picture from the link of the cell.
Shown(p) ==
  /\ p # None
  /\ \/ ToUrl(p).at = "disk" /\ ToUrl(p).key \in disk
     \/ ToUrl(p).at = "backend" /\ ToUrl(p).key \in remote

\* Of a row that nobody deletes, no picture that was shown is lost: not while
\* the script runs, not when it is killed between an upload and an UPDATE, and
\* not by the removal of the local files.
PicturesStayAvailable ==
  [][\A t \in live' : Untouched(t) =>
       \A i \in Cells(t) : Shown(cells[t][i]) => Shown(cells[t][i])']_vars

\* What the script writes into a row that nobody deletes names a stored object.
OnlyStoredKeysWritten ==
  [][\A t \in live : Untouched(t) =>
       \A i \in Cells(t) : cells'[t][i] # cells[t][i] => cells[t][i]' \in remote]_vars

OnDisk(p) == p # None /\ FileOf(p) \in disk
AllMigrated ==
  \A t \in live : \A i \in Cells(t) : OnDisk(cells[t][i]) => cells[t][i] \in remote

\* A full run that reports no failure has put every file that is on disk into
\* the bucket, and its key into the row (migrate_to_oss.py:369).
VerifiedIsMigrated ==
  verified => \A t \in live : Untouched(t) =>
    \A i \in Cells(t) : OnDisk(cells[t][i]) => cells[t][i] \in remote

\* An image of a deleted row is in the bucket only when the delete and the
\* script overlapped, or the backend refused to delete it.
ObjectOrphansExcused ==
  \A t \in Task \ (live \cup excused) :
    cells[t][1] # None => KeyPath(cells[t][1].name) \notin remote

----------------------------------------------------------------------------
\* The inductive invariant behind the safety properties

\* Only a task's first cell names a generated image, its own; a path without
\* its directory is a reference image.
CellsKeepNames ==
  \A t \in Task :
    /\ Len(cells[t]) >= 2
    /\ \A i \in Cells(t) : cells[t][i] # None =>
         /\ cells[t][i].name \in Picture <=> i = 1
         /\ cells[t][i].form = "bare" => i # 1
    /\ \A u \in Task \ {t} : cells[t][1] # None /\ cells[u][1] # None
                            => cells[t][1].name # cells[u][1].name

BetweenRows == todo = {} => pc \in {"off", "cell"} /\ at = 1 /\ cache = EmptyCache
WhenOff == pc = "off" => todo = {} /\ run = FullRun /\ ~failed

\* The script is at a cell of its row; of the list it has met what is before
\* that cell, and saves what is on disk.
Met(t, i) == cells[t][i] # None => cache[cells[t][i]] # Unseen
AtACell ==
  \A t \in Task : First(t) =>
    /\ at \in Cells(t)
    /\ \A i \in 3..(at - 1) : Met(t, i)
    /\ pc = "write" => Met(t, at)
    /\ pc = "save" => /\ ~run.dry /\ cells[t][at] # None
                      /\ LooksLocal(cells[t][at]) /\ FileOf(cells[t][at]) \in disk

\* migrated_cache is about paths of the row at hand that are on disk, and
\* says None of those that are not, or after a failure.
CacheIsOfRow ==
  \A t \in Task, p \in Path : First(t) =>
    /\ cache[p] \in Key =>
         /\ cache[p] = KeyOf(p) /\ LooksLocal(p) /\ FileOf(p) \in disk
         /\ \E i \in Cells(t) : cells[t][i] # None /\ cells[t][i].name = p.name
    /\ (cache[p] = None /\ ~failed) => ~LooksLocal(p) \/ FileOf(p) \notin disk

\* Unless it is a dry run, what the cache has a key for is stored, or was
\* deleted as the image of the row.
CacheIsStored ==
  \A t \in Task, p \in Path :
    (First(t) /\ ~run.dry /\ cache[p] \in Key) =>
       cache[p] \in remote \/ (p.name \in Picture /\ t \in excused)

\* What has lost its directory is in the bucket.
BareIsStored ==
  \A t \in Task : \A i \in Cells(t) :
    (cells[t][i] # None /\ cells[t][i].form = "bare") => cells[t][i] \in remote

\* The run has brought the columns behind it, and the rows behind it, into
\* the bucket.
Stored(t, i) == OnDisk(cells[t][i]) => cells[t][i] \in remote
ColumnsBehind ==
  \A t \in live \ excused : (First(t) /\ ~run.dry /\ ~failed) =>
    \A i \in {1, 2} : i < at => Stored(t, i)
RowsBehind ==
  (pc # "off" /\ run = FullRun /\ ~failed) =>
    \A t \in live \ todo : Untouched(t) => \A i \in Cells(t) : Stored(t, i)

\* A delete that overlaps with the script excuses its row.
OverlapIsExcused == \A t \in todo : (t \notin live \/ Erasing(t)) => t \in excused
EraseKnowsImage ==
  erase # None =>
    LET c == cells[erase.task][1] IN
      /\ erase.key # None => c # None /\ erase.key = KeyPath(c.name)
      /\ (erase.key = None /\ erase.task \notin excused /\ c # None)
           => KeyPath(c.name) \notin remote

MigrationInvariant ==
  /\ TypeOK
  /\ CellsKeepNames
  /\ BetweenRows
  /\ WhenOff
  /\ AtACell
  /\ CacheIsOfRow
  /\ CacheIsStored
  /\ BareIsStored
  /\ ColumnsBehind
  /\ RowsBehind
  /\ OverlapIsExcused
  /\ EraseKnowsImage
  /\ ObjectOrphansExcused
  /\ VerifiedIsMigrated

----------------------------------------------------------------------------
\* Liveness

\* However often runs are killed or fail, full runs in the end bring every
\* file that a row names into the bucket.
RerunsFinish == <>[]AllMigrated

\* README.md:75, `--limit 50  # only the first 50 (run in batches)': batches
\* bring every file into the bucket too.
BatchesFinish == <>[]AllMigrated
=============================================================================
