----------------------------- MODULE Workspace -----------------------------
(***************************************************************************)
(* Workspace administration: backup, restore, reset, deletion and cleanup, *)
(* against the web process's other requests and the worker's cycles        *)
(* (workspace-backup-store.ts, workspace-lifecycle-store.ts,               *)
(* workspace-run-store.ts, shared-connection.ts, local-database.ts).       *)
(*                                                                         *)
(* The workspace is a database file and an artifacts directory.  A run has *)
(* one screenshot, named by the run: a row in the database and a file in   *)
(* the directory.  Synchronous code of the web process is cut where the    *)
(* worker process, or its own death, can fall between two file system      *)
(* calls; its other requests run only between awaits.  `id' is the         *)
(* identity of a database file, so that an open handle can be told from    *)
(* the file now at the path.                                               *)
(*                                                                         *)
(* The operation lock is taken in one step here: OperationLock models it.  *)
(***************************************************************************)
EXTENDS Naturals, FiniteSets

CONSTANTS
    Run,
    NoRun,
    MaxId,          \* bound on the number of database files ever installed
    MaxArchives,    \* bound on the downloads kept for a later restore
    MaxErrors,      \* bound on the number of failing file system calls
    MaxCrashes      \* bound on the number of process deaths

ASSUME WorkspaceAssumption ==
    /\ NoRun \notin Run /\ MaxId \in Nat \ {0}
    /\ {MaxArchives, MaxErrors, MaxCrashes} \subseteq Nat

VARIABLES
    database,    \* the database file at the configured path, or None
    artifacts,   \* the artifacts directory, or None
    aside,       \* restore-old-*: what a replacement moved out of the way
    next,        \* restore-next-*: what a replacement is about to install
    unlinked,    \* removed database files that a handle still has open
    pool,        \* pool[p]: the id of the file that p's shared handle has open, or 0
    lock,        \* who holds the operation lock
    web,         \* where the web process's synchronous code stands
    awaiting,    \* what the restore in progress waits for
    upload,      \* the archive being restored, or None
    doomed,      \* the files that the present operation removes last
    staged,      \* the database snapshot that goes into an archive
    saved,       \* the recovery backup of the latest restore, or None
    archives,    \* downloaded backups
    probing,     \* runs admitted and not yet created
    captured,    \* the run whose screenshot is written and not yet recorded
    damaged,     \* a replacement has ended between its renames
    lastId, errors, crashes

files == <<database, artifacts, aside, next, unlinked>>
restoring == <<web, awaiting, upload, doomed, staged, saved>>
faults == <<damaged, lastId, errors, crashes>>
vars == <<files, pool, lock, restoring, archives, probing, captured, faults>>

Process == {"web", "worker"}
None == [kind |-> "none"]

\* The tables that matter here: runs, artifact rows, review decisions.  The
\* -wal and -shm files beside a database are part of it: replaceWorkspace
\* checkpoints and removes them before the first rename.
Database == [kind : {"database"}, id : 1..MaxId, run : [Run -> {"absent", "active", "done"}],
             rows : SUBSET Run, archived : SUBSET Run]
Empty(id) == [kind |-> "database", id |-> id, run |-> [r \in Run |-> "absent"],
              rows |-> {}, archived |-> {}]
Directory == [kind : {"directory"}, of : 1..MaxId, files : SUBSET Run]
Archive == [kind : {"archive"}, db : Database, files : SUBSET Run]

\* What is wrong with an archive, by the check that notices it.
ArchiveDefect == {"unsafe entry", "unreadable"}
MetadataDefect == {"unsupported format", "incomplete"}
DatabaseDefect == {"damaged", "newer version", "other history"}
Defect == ArchiveDefect \cup MetadataDefect \cup DatabaseDefect
Defective == {[kind |-> "defective", defect |-> d] : d \in Defect}

Replacing == {"moveDatabase", "moveArtifacts", "installDatabase",
              "installArtifacts", "dropDatabase", "dropArtifacts"}
WebStep == {"idle", "copyDownload", "copyRecovery", "clear", "clearAll"} \cup Replacing

FilesIn(dir) == IF dir = None THEN {} ELSE dir.files
HasActive(db) == \E r \in Run : db.run[r] = "active"

Init ==
    /\ database = Empty(1)
    /\ artifacts \in {None, [kind |-> "directory", of |-> 1, files |-> {}]}
    /\ aside = [db |-> None, dir |-> None] /\ next = [db |-> None, dir |-> None]
    /\ unlinked = {} /\ pool = [p \in Process |-> 0]
    /\ lock = "free" /\ web = "idle" /\ awaiting = "none"
    /\ upload = None /\ doomed = {} /\ staged = None /\ saved = None
    /\ archives = {} /\ probing = {} /\ captured = NoRun
    /\ damaged = FALSE /\ lastId = 1 /\ errors = 0 /\ crashes = 0

-----------------------------------------------------------------------------
(* Shared handles.                                                         *)

\* sharedDatabase(path): the handle that is open, or one on the file at the path.
Handle(p) == IF pool[p] # 0 THEN pool[p] ELSE IF database = None THEN 0 ELSE database.id

FileOf(id) == CHOOSE db \in {database, aside.db} \cup unlinked : db # None /\ db.id = id

\* A write through p's handle goes to the file that the handle has open.
WriteThrough(p, db) ==
    /\ pool' = [pool EXCEPT ![p] = db.id]
    /\ database' = IF database # None /\ database.id = db.id THEN db ELSE database
    /\ aside' = IF aside.db # None /\ aside.db.id = db.id
                THEN [aside EXCEPT !.db = db] ELSE aside
    /\ unlinked' = {IF u.id = db.id THEN db ELSE u : u \in unlinked}

\* Files nobody has open are gone.
Reap(gone, handles) == {u \in gone : \E p \in Process : handles[p] = u.id}

CloseShared(p) ==
    /\ pool' = [pool EXCEPT ![p] = 0]
    /\ unlinked' = Reap(unlinked, pool')

-----------------------------------------------------------------------------
(* The web process's requests.                                             *)

\* withWorkspaceAdmission reads whether maintenance is active; the probes that
\* createConfirmedProspectingRun awaits come between that and the insertion.
AdmitRun(r) ==
    /\ web = "idle" /\ lock # "web" /\ r \notin probing
    /\ database # None /\ database.run[r] = "absent"
    /\ probing' = probing \cup {r}
    /\ UNCHANGED <<files, pool, lock, restoring, archives, captured, faults>>

CreateRun(r) ==
    /\ web = "idle" /\ r \in probing
    /\ probing' = probing \ {r}
    /\ database' = IF database # None /\ database.run[r] = "absent"
                   THEN [database EXCEPT !.run[r] = "active"] ELSE database
    /\ UNCHANGED <<artifacts, aside, next, unlinked, pool, lock, restoring, archives,
                   captured, faults>>

\* Monitoring opens the shared handle and keeps it.
Monitor ==
    /\ web = "idle" /\ pool["web"] = 0 /\ Handle("web") # 0
    /\ pool' = [pool EXCEPT !["web"] = Handle("web")]
    /\ UNCHANGED <<files, lock, restoring, archives, probing, captured, faults>>

\* A control, here Cancel, is written through the shared handle.
CancelRun(r) ==
    /\ web = "idle" /\ Handle("web") # 0
    /\ LET db == FileOf(Handle("web")) IN
       /\ db.run[r] = "active"
       /\ WriteThrough("web", [db EXCEPT !.run[r] = "done"])
    /\ UNCHANGED <<artifacts, next, lock, restoring, archives, probing, captured, faults>>

\* A review decision is written through a connection of its own.
Decide(r) ==
    /\ web = "idle" /\ database # None /\ r \in database.rows \ database.archived
    /\ database' = [database EXCEPT !.archived = @ \cup {r}]
    /\ UNCHANGED <<artifacts, aside, next, unlinked, pool, lock, restoring, archives,
                   probing, captured, faults>>

\* createWorkspaceBackup without the lock: the snapshot, then the copy.
Snapshot ==
    /\ web = "idle" /\ database # None /\ Cardinality(archives) < MaxArchives
    /\ staged' = database /\ web' = "copyDownload"
    /\ UNCHANGED <<files, pool, lock, awaiting, upload, doomed, saved, archives, probing,
                   captured, faults>>

Copied == [kind |-> "archive", db |-> staged, files |-> FilesIn(artifacts)]

CopyDownload ==
    /\ web = "copyDownload"
    /\ \/ archives' = archives \cup {Copied} /\ UNCHANGED errors
       \/ errors < MaxErrors /\ errors' = errors + 1 /\ UNCHANGED archives
    /\ web' = "idle" /\ staged' = None
    /\ UNCHANGED <<files, pool, lock, awaiting, upload, doomed, saved, probing, captured,
                   damaged, lastId, crashes>>

-----------------------------------------------------------------------------
(* Maintenance under the operation lock.                                   *)

\* withWorkspaceOperationLock: the lock, then the pooled handles are closed.
MayMaintain == web = "idle" /\ lock = "free" /\ database # None

\* assertNoActiveRun fails: the handles are closed and the lock is given back.
RefuseMaintenance ==
    /\ MayMaintain /\ HasActive(database) /\ CloseShared("web")
    /\ UNCHANGED <<database, artifacts, aside, next, lock, restoring, archives, probing,
                   captured, faults>>

\* One transaction on the database; the files go afterwards.
Maintain(db, gone, step) ==
    /\ CloseShared("web") /\ lock' = "web"
    /\ database' = db
    /\ doomed' = gone /\ web' = step
    /\ UNCHANGED <<artifacts, aside, next, awaiting, upload, staged, saved, archives,
                   probing, captured, faults>>

\* The row of every prospecting table goes; the whole directory is cleared.
Reset ==
    /\ MayMaintain /\ ~HasActive(database)
    /\ Maintain(Empty(database.id), FilesIn(artifacts), "clearAll")

\* Only this run must have ended; its rows go with it by cascade.
DeleteRun(r) ==
    /\ MayMaintain /\ database.run[r] = "done"
    /\ Maintain([database EXCEPT !.run[r] = "absent", !.rows = @ \ {r}, !.archived = @ \ {r}],
                {r}, "clear")

\* The run stays; the business's rows go by cascade.
DeleteBusiness(r) ==
    /\ MayMaintain /\ ~HasActive(database) /\ r \in database.rows
    /\ Maintain([database EXCEPT !.rows = @ \ {r}, !.archived = @ \ {r}], {r}, "clear")

\* The rows of archived candidates go; then every file no row refers to.
CleanupArtifacts ==
    /\ MayMaintain /\ ~HasActive(database)
    /\ LET kept == database.rows \ database.archived IN
       Maintain([database EXCEPT !.rows = kept], FilesIn(artifacts) \ kept, "clear")

\* Files that cannot be removed are counted, and stay; reset makes the directory.
ClearFiles ==
    /\ web \in {"clear", "clearAll"}
    /\ \E left \in SUBSET (doomed \cap FilesIn(artifacts)) :
         /\ left # {} => errors < MaxErrors
         /\ errors' = IF left = {} THEN errors ELSE errors + 1
         /\ artifacts' = IF artifacts # None
                         THEN [artifacts EXCEPT !.files = (@ \ doomed) \cup left]
                         ELSE IF web = "clear" THEN None
                         ELSE [kind |-> "directory", of |-> database.id, files |-> {}]
    /\ web' = "idle" /\ lock' = "free" /\ doomed' = {}
    /\ UNCHANGED <<database, aside, next, unlinked, pool, awaiting, upload, staged, saved,
                   archives, probing, captured, damaged, lastId, crashes>>

-----------------------------------------------------------------------------
(* Restore.                                                                *)

\* What an earlier replacement left aside is not looked at again.
BeginRestore(u) ==
    /\ MayMaintain /\ ~HasActive(database)
    /\ lock' = "web" /\ pool' = [pool EXCEPT !["web"] = 0]
    /\ unlinked' = Reap(unlinked \cup ({aside.db} \ {None}), pool')
    /\ aside' = [db |-> None, dir |-> None]
    /\ upload' = u /\ awaiting' = "extract" /\ saved' = None
    /\ UNCHANGED <<database, artifacts, next, web, doomed, staged, archives, probing,
                   captured, faults>>

\* The restore gives up before it has touched the workspace.
GiveUp ==
    /\ lock' = "free" /\ web' = "idle" /\ awaiting' = "none" /\ upload' = None /\ staged' = None
    /\ UNCHANGED <<files, pool, doomed, archives, probing, captured, damaged, lastId, crashes>>

\* extractBackup, validateManifest and validateAndMigrateDatabase each refuse
\* their own defects; what passes them all is restored as it was archived.
Refused == upload.kind = "defective"

RefuseUpload ==
    /\ web = "idle" /\ awaiting = "extract" /\ Refused
    /\ GiveUp /\ UNCHANGED <<saved, errors>>

\* The recovery backup: snapshot and copy are synchronous, the archive is awaited.
StageRecovery ==
    /\ web = "idle" /\ awaiting = "extract" /\ ~Refused
    /\ staged' = database /\ web' = "copyRecovery"
    /\ UNCHANGED <<files, pool, lock, awaiting, upload, doomed, saved, archives, probing,
                   captured, faults>>

\* Faulty: the artifacts of the upload are taken for those of the workspace.
CopyRecoveryOfUpload ==
    /\ web = "copyRecovery"
    /\ saved' = [Copied EXCEPT !.files = upload.files] /\ staged' = None
    /\ web' = "idle" /\ awaiting' = "archive"
    /\ UNCHANGED <<files, pool, lock, upload, doomed, archives, probing, captured, faults>>

CopyRecovery ==
    /\ web = "copyRecovery"
    /\ saved' = Copied /\ staged' = None
    /\ web' = "idle" /\ awaiting' = "archive"
    /\ UNCHANGED <<files, pool, lock, upload, doomed, archives, probing, captured, faults>>

RecoveryFails ==
    /\ web = "copyRecovery" /\ errors < MaxErrors
    /\ errors' = errors + 1
    /\ GiveUp /\ UNCHANGED saved

\* A run was created while the archive was written.
RefuseReplacement ==
    /\ web = "idle" /\ awaiting = "archive" /\ HasActive(database)
    /\ GiveUp /\ UNCHANGED <<saved, errors>>

\* Faulty: the second assertNoActiveRun is missing.
StageReplacementBlindly ==
    /\ web = "idle" /\ awaiting = "archive" /\ lastId < MaxId
    /\ lastId' = lastId + 1
    /\ next' = [db |-> [upload.db EXCEPT !.id = lastId'],
                dir |-> [kind |-> "directory", of |-> lastId', files |-> upload.files]]
    /\ web' = "moveDatabase" /\ awaiting' = "none"
    /\ UNCHANGED <<database, artifacts, aside, unlinked, pool, lock, upload, doomed, staged,
                   saved, archives, probing, captured, damaged, errors, crashes>>

\* The archive cannot be written, or the upload cannot be copied next to the
\* workspace: what was copied keeps its unique name, and nothing looks at it.
StagingFails ==
    /\ web = "idle" /\ awaiting = "archive" /\ errors < MaxErrors
    /\ errors' = errors + 1 /\ saved' \in {None, saved}
    /\ GiveUp

\* No run is active: the archive's contents are copied next to the workspace.
StageReplacement ==
    /\ web = "idle" /\ awaiting = "archive" /\ ~HasActive(database) /\ lastId < MaxId
    /\ lastId' = lastId + 1
    /\ next' = [db |-> [upload.db EXCEPT !.id = lastId'],
                dir |-> [kind |-> "directory", of |-> lastId', files |-> upload.files]]
    /\ web' = "moveDatabase" /\ awaiting' = "none"
    /\ UNCHANGED <<database, artifacts, aside, unlinked, pool, lock, upload, doomed, staged,
                   saved, archives, probing, captured, damaged, errors, crashes>>

\* What one file system call of replaceWorkspace leaves behind.
Renamed(at, to) ==
    /\ web = at /\ web' = to
    /\ UNCHANGED <<pool, lock, awaiting, upload, doomed, staged, saved, archives, probing,
                   captured, faults>>

MoveDatabase ==
    /\ Renamed("moveDatabase", "moveArtifacts")
    /\ database' = None /\ aside' = [db |-> database, dir |-> None]
    /\ UNCHANGED <<artifacts, next, unlinked>>

MoveArtifacts ==
    /\ Renamed("moveArtifacts", "installDatabase")
    /\ artifacts' = None /\ aside' = [aside EXCEPT !.dir = artifacts]
    /\ UNCHANGED <<database, next, unlinked>>

InstallDatabase ==
    /\ Renamed("installDatabase", "installArtifacts")
    /\ database' = next.db /\ next' = [next EXCEPT !.db = None]
    /\ UNCHANGED <<artifacts, aside, unlinked>>

InstallArtifacts ==
    /\ Renamed("installArtifacts", "dropDatabase")
    /\ artifacts' = next.dir /\ next' = [next EXCEPT !.dir = None]
    /\ UNCHANGED <<database, aside, unlinked>>

DropDatabase ==
    /\ Renamed("dropDatabase", "dropArtifacts")
    /\ unlinked' = Reap(unlinked \cup {aside.db}, pool) /\ aside' = [aside EXCEPT !.db = None]
    /\ UNCHANGED <<database, artifacts, next>>

\* The restore is over: its lock is released.
EndRestore(stillDamaged) ==
    /\ lock' = "free" /\ web' = "idle" /\ upload' = None
    /\ next' = [db |-> None, dir |-> None]
    /\ damaged' = stillDamaged
    /\ UNCHANGED <<pool, awaiting, doomed, staged, saved, archives, probing, captured, lastId,
                   crashes>>

DropArtifacts ==
    /\ web = "dropArtifacts" /\ EndRestore(damaged)
    /\ aside' = [aside EXCEPT !.dir = None]
    /\ UNCHANGED <<database, artifacts, unlinked, errors>>

\* Faulty: the database is put back, the artifacts directory is not.
RolledBackHalf ==
    /\ database' = IF aside.db # None THEN aside.db
                   ELSE IF web \in {"dropDatabase", "dropArtifacts"} THEN None ELSE database
    /\ artifacts' = artifacts
    /\ unlinked' = Reap(unlinked \cup ({database} \ {None}), pool)
    /\ aside' = [db |-> None, dir |-> None]

\* The catch block: what was installed is removed, what was moved aside is put
\* back if it is still there.  The database that was moved aside is not once it
\* has been dropped.
RolledBack ==
    /\ database' = IF aside.db # None THEN aside.db
                   ELSE IF web = "dropArtifacts" THEN None ELSE database
    /\ artifacts' = IF aside.dir # None THEN aside.dir
                    ELSE IF web \in {"dropDatabase", "dropArtifacts"} THEN None ELSE artifacts
    /\ unlinked' = Reap(unlinked \cup ({database} \ {None, database'}), pool)
    /\ aside' = [db |-> None, dir |-> None]

ReplacementFails ==
    /\ web \in Replacing /\ errors < MaxErrors
    /\ errors' = errors + 1
    /\ RolledBack
    /\ EndRestore(damaged \/ web = "dropArtifacts")

-----------------------------------------------------------------------------
(* The worker.                                                             *)

\* A cycle under the lease; the handle is opened by its first database call.
BeginCycle ==
    /\ lock = "free" /\ Handle("worker") # 0
    /\ lock' = "worker"
    /\ pool' = [pool EXCEPT !["worker"] = Handle("worker")]
    /\ UNCHANGED <<files, restoring, archives, probing, captured, faults>>

\* The lease is refused: the worker closes its handles.
ReleaseDatabases ==
    /\ lock = "web" /\ pool["worker"] # 0
    /\ CloseShared("worker")
    /\ UNCHANGED <<database, artifacts, aside, next, lock, restoring, archives, probing,
                   captured, faults>>

\* The inspector writes the screenshot ...
Capture(r) ==
    /\ lock = "worker" /\ captured = NoRun
    /\ LET db == FileOf(pool["worker"]) IN db.run[r] = "active" /\ r \notin db.rows
    /\ artifacts' = IF artifacts = None
                    THEN [kind |-> "directory", of |-> pool["worker"], files |-> {r}]
                    ELSE [artifacts EXCEPT !.files = @ \cup {r}]
    /\ captured' = r
    /\ UNCHANGED <<database, aside, next, unlinked, pool, lock, restoring, archives, probing,
                   faults>>

\* Faulty: the row comes first.
RecordEarly ==
    /\ lock = "worker" /\ captured = NoRun
    /\ \E r \in Run : LET db == FileOf(pool["worker"]) IN
         /\ db.run[r] = "active" /\ r \notin db.rows
         /\ WriteThrough("worker", [db EXCEPT !.rows = @ \cup {r}])
    /\ UNCHANGED <<artifacts, next, lock, restoring, archives, probing, captured, faults>>

\* Faulty: a row is written although no screenshot was.
RecordAnything ==
    /\ lock = "worker"
    /\ WriteThrough("worker", [FileOf(pool["worker"]) EXCEPT !.rows = @ \cup {captured}])
    /\ captured' = NoRun
    /\ UNCHANGED <<artifacts, next, lock, restoring, archives, probing, faults>>

\* ... and the repository commits its row afterwards.
Record ==
    /\ lock = "worker" /\ captured # NoRun
    /\ WriteThrough("worker", [FileOf(pool["worker"]) EXCEPT !.rows = @ \cup {captured}])
    /\ captured' = NoRun
    /\ UNCHANGED <<artifacts, next, lock, restoring, archives, probing, faults>>

FinishRun(r) ==
    /\ lock = "worker" /\ captured = NoRun
    /\ LET db == FileOf(pool["worker"]) IN
       /\ db.run[r] = "active"
       /\ WriteThrough("worker", [db EXCEPT !.run[r] = "done"])
    /\ UNCHANGED <<artifacts, next, lock, restoring, archives, probing, captured, faults>>

EndCycle ==
    /\ lock = "worker" /\ captured = NoRun
    /\ lock' = "free"
    /\ UNCHANGED <<files, pool, restoring, archives, probing, captured, faults>>

-----------------------------------------------------------------------------
(* Deaths.                                                                 *)

\* The web process dies; the lock it leaves is found abandoned.
WebDies ==
    /\ crashes < MaxCrashes /\ crashes' = crashes + 1
    /\ CloseShared("web")
    /\ lock' = IF lock = "web" THEN "free" ELSE lock
    /\ web' = "idle" /\ awaiting' = "none" /\ upload' = None /\ doomed' = {} /\ staged' = None
    /\ probing' = {}
    /\ damaged' = (damaged \/ web \in Replacing \ {"moveDatabase", "dropDatabase", "dropArtifacts"})
    /\ next' = [db |-> None, dir |-> None]
    /\ UNCHANGED <<database, artifacts, aside, saved, archives, captured, lastId, errors>>

\* The worker dies and starts again; migrateLocalDatabase makes a database when
\* there is none.
WorkerDies ==
    /\ crashes < MaxCrashes /\ crashes' = crashes + 1
    /\ CloseShared("worker")
    /\ lock' = IF lock = "worker" THEN "free" ELSE lock
    /\ captured' = NoRun
    /\ IF database = None /\ lastId < MaxId
       THEN database' = Empty(lastId + 1) /\ lastId' = lastId + 1
       ELSE UNCHANGED <<database, lastId>>
    /\ UNCHANGED <<artifacts, aside, next, restoring, archives, probing, damaged, errors>>

Requests ==
    \/ \E r \in Run : AdmitRun(r) \/ CreateRun(r) \/ CancelRun(r) \/ Decide(r)
    \/ Monitor \/ Snapshot \/ CopyDownload

Maintenance ==
    \/ RefuseMaintenance \/ Reset \/ CleanupArtifacts \/ ClearFiles
    \/ \E r \in Run : DeleteRun(r) \/ DeleteBusiness(r)

Replacement ==
    \/ MoveDatabase \/ MoveArtifacts \/ InstallDatabase \/ InstallArtifacts
    \/ DropDatabase \/ DropArtifacts \/ ReplacementFails

Restore ==
    \/ \E u \in archives \cup Defective : BeginRestore(u)
    \/ RefuseUpload \/ StageRecovery \/ CopyRecovery \/ RecoveryFails
    \/ RefuseReplacement \/ StagingFails \/ StageReplacement \/ Replacement

WorkerCycle ==
    \/ BeginCycle \/ ReleaseDatabases \/ Record \/ EndCycle
    \/ \E r \in Run : Capture(r) \/ FinishRun(r)

Next == Requests \/ Maintenance \/ Restore \/ WorkerCycle \/ WebDies \/ WorkerDies

Spec == Init /\ [][Next]_vars

-----------------------------------------------------------------------------
(* Properties.                                                             *)

TypeOK ==
    /\ database \in Database \cup {None} /\ artifacts \in Directory \cup {None}
    /\ aside \in [db : Database \cup {None}, dir : Directory \cup {None}]
    /\ next \in [db : Database \cup {None}, dir : Directory \cup {None}]
    /\ unlinked \subseteq Database
    /\ pool \in [Process -> 0..MaxId] /\ lock \in {"free"} \cup Process
    /\ web \in WebStep /\ awaiting \in {"none", "extract", "archive"}
    /\ upload \in Archive \cup Defective \cup {None} /\ doomed \subseteq Run
    /\ staged \in Database \cup {None} /\ saved \in Archive \cup {None}
    /\ archives \subseteq Archive /\ probing \subseteq Run /\ captured \in Run \cup {NoRun}
    /\ damaged \in BOOLEAN /\ lastId \in 1..MaxId
    /\ errors \in 0..MaxErrors /\ crashes \in 0..MaxCrashes

\* Whatever step of a replacement fails, the database and the artifacts at the
\* configured paths are of one workspace again: the old one or the restored one.
\* (damaged: the process died between the renames, or the old artifacts could
\* not be removed after the old database was.)
WorkspaceIsWhole ==
    (~damaged /\ web \notin Replacing) =>
        database # None /\ (artifacts # None => artifacts.of = database.id)

\* "Active runs block restore": no reset, deletion, cleanup or replacement ever
\* takes a run away that can still make progress, also when the run was created
\* after the operation began.  (A database that is being installed is not the
\* workspace yet.)
NoActiveRunIsLost ==
    [][(database # None /\ web \notin Replacing \ {"moveDatabase"}) =>
          \A r \in Run : database.run[r] = "active" =>
             database' # None /\ database'.run[r] # "absent"]_vars

\* The database never refers to a screenshot that is not there: rows are
\* recorded after their files and removed before them, across deaths.
RowsHaveFiles ==
    (~damaged /\ web \notin Replacing) => database.rows \subseteq FilesIn(artifacts)

\* A backup taken at any moment, also while the worker inspects, holds the file
\* of every row in its snapshot.
BackupsAreComplete ==
    ~damaged => \A a \in archives \cup ({saved} \ {None}) : a.db.rows \subseteq a.files

\* Evidence is never torn from its rows, in the workspace or in a backup.
EvidenceIsWhole == RowsHaveFiles /\ BackupsAreComplete

\* Once a restore has moved the old workspace aside, whatever happens next, the
\* recovery backup has all its evidence, and every run as it was.  What happened
\* while the backup was written is the exception, and is neither in the backup
\* nor in the restored workspace: a review decision of that time, and a run of
\* that time that was cancelled before it had any evidence (one created before
\* the snapshot is in the backup, as still active).
RecoveryHoldsEvidence ==
    /\ aside.db # None =>
         /\ aside.db.rows = saved.db.rows
         /\ saved.db.archived \subseteq aside.db.archived
         /\ \A r \in Run :
              \/ aside.db.run[r] = saved.db.run[r]
              \/ /\ saved.db.run[r] # "done" /\ aside.db.run[r] = "done"
                 /\ r \notin aside.db.rows
    /\ aside.dir # None => aside.dir.files \subseteq saved.files

=============================================================================
