-------------------------- MODULE WorkspaceProofs --------------------------
(***************************************************************************)
(* Proofs about Workspace, for any set of runs and any bounds: through     *)
(* every step of a backup, a restore, a reset and a deletion, every        *)
(* failure and every death, the database and the artifacts stay one        *)
(* workspace, evidence stays with its rows, the recovery backup holds what *)
(* a restore moved aside, and no active run is lost.                       *)
(***************************************************************************)
EXTENDS Workspace, TLAPS

-----------------------------------------------------------------------------
(* The inductive invariant.                                                *)

\* A database and a directory that belong together: the directory holds every
\* screenshot the database refers to.  While there is no directory, the worker
\* has no other database open that it could make one for.
Whole(db, dir) ==
    /\ db # None
    /\ db.rows \subseteq FilesIn(dir)
    /\ dir # None => dir.of = db.id
    /\ dir = None => pool["worker"] \in {0, db.id}

\* Who holds the lock while the web process's code stands where it stands.
ControlOK ==
    /\ web \in {"copyRecovery", "clear", "clearAll"} \cup Replacing => lock = "web"
    /\ awaiting # "none" => /\ lock = "web" /\ web \in {"idle", "copyDownload", "copyRecovery"}
                            /\ database # None /\ aside.db = None /\ aside.dir = None
                            /\ upload \in Archive \cup Defective
    /\ web = "copyRecovery" => awaiting = "extract" /\ upload \in Archive /\ staged = database
    /\ web = "copyDownload" => staged # None
    /\ staged # None => web \in {"copyDownload", "copyRecovery"}
    /\ awaiting = "archive" => web # "copyRecovery" /\ upload \in Archive /\ saved # None
    /\ web \in {"clear", "clearAll"} => database # None /\ doomed \cap database.rows = {}
    /\ lock = "worker" => pool["worker"] # 0

\* What a replacement has moved and what it has not, step by step.
ReplacementOK ==
    /\ web \in Replacing => saved # None
    /\ web = "moveDatabase" =>
         database # None /\ aside.db = None /\ aside.dir = None /\ ~HasActive(database)
    /\ web \in {"moveArtifacts", "installDatabase", "installArtifacts", "dropDatabase"} =>
         aside.db # None
    /\ web = "moveArtifacts" => aside.dir = None
    /\ web \in {"installDatabase", "installArtifacts"} => artifacts = None
    /\ web \in {"moveDatabase", "moveArtifacts", "installDatabase"} =>
         next.db # None /\ next.dir # None
    /\ web = "installArtifacts" => next.dir # None
    /\ web \in {"installArtifacts", "dropDatabase", "dropArtifacts"} => database # None
    /\ web \in {"dropDatabase", "dropArtifacts"} => artifacts # None
    /\ web = "dropArtifacts" => aside.db = None

\* No two database files are the same.
FilesOK ==
    /\ database # None => database.id <= lastId
    /\ aside.db # None => aside.db.id <= lastId
    /\ database # None /\ aside.db # None => database.id # aside.db.id
    /\ \A u \in unlinked : /\ u.id <= lastId
                           /\ database # None => database.id # u.id
                           /\ aside.db # None => aside.db.id # u.id
                           /\ next.db # None => next.db.id # u.id
    /\ \A u, v \in unlinked : u.id = v.id => u = v
    /\ next.db # None => /\ next.db.id <= lastId
                         /\ database # None => database.id # next.db.id
                         /\ aside.db # None => aside.db.id # next.db.id

\* Every open handle is on a file that exists, and not on one that a
\* replacement is about to overwrite.
HandlesOK ==
    \A p \in Process :
        /\ pool[p] # 0 =>
             \/ database # None /\ database.id = pool[p]
             \/ aside.db # None /\ aside.db.id = pool[p]
             \/ \E u \in unlinked : u.id = pool[p]
        /\ web \in {"moveArtifacts", "installDatabase"} /\ database # None =>
             pool[p] # database.id

\* A row belongs to a run that is there.
RowsHaveRuns(db) == \A r \in db.rows : db.run[r] # "absent"

RowsOK ==
    /\ database # None => RowsHaveRuns(database)
    /\ aside.db # None => RowsHaveRuns(aside.db)
    /\ next.db # None => RowsHaveRuns(next.db)
    /\ staged # None => RowsHaveRuns(staged)
    /\ \A u \in unlinked : RowsHaveRuns(u)
    /\ \A a \in archives : RowsHaveRuns(a.db)
    /\ upload \in Archive => RowsHaveRuns(upload.db)

\* A screenshot that is written and not recorded is there, and its run is.
CapturedOK ==
    captured # NoRun =>
        /\ lock = "worker" /\ captured \in FilesIn(artifacts)
        /\ database # None /\ database.id = pool["worker"] => database.run[captured] # "absent"
        /\ aside.db # None => aside.db.id # pool["worker"]
        /\ \A u \in unlinked : u.id = pool["worker"] => u.run[captured] # "absent"

\* The workspace, wherever a replacement has moved it, and what it installs.
WholeOK ==
    ~damaged =>
        /\ web \notin Replacing \ {"moveDatabase"} => Whole(database, artifacts)
        /\ web = "moveArtifacts" => Whole(aside.db, artifacts)
        /\ web \in {"installDatabase", "installArtifacts", "dropDatabase"} =>
             Whole(aside.db, aside.dir)
        /\ web \in {"moveDatabase", "moveArtifacts", "installDatabase"} =>
             next.dir.of = next.db.id /\ next.db.rows \subseteq next.dir.files
        /\ web = "installArtifacts" =>
             next.dir.of = database.id /\ database.rows \subseteq next.dir.files
        /\ web \in {"dropDatabase", "dropArtifacts"} => Whole(database, artifacts)

\* Archives, and the snapshot about to become one, refer to no missing file.
ArchivesOK ==
    ~damaged =>
        /\ \A a \in archives : a.db.rows \subseteq a.files
        /\ upload \in Archive => upload.db.rows \subseteq upload.files
        /\ saved # None => saved.db.rows \subseteq saved.files
        /\ staged # None => staged.rows \subseteq FilesIn(artifacts)

\* The recovery backup holds every row of a database and every run that had
\* ended; runs that had not, and decisions, may have moved on since.
Kept(db, backup) ==
    /\ backup # None
    /\ db.rows = backup.db.rows
    /\ backup.db.archived \subseteq db.archived
    /\ \A r \in Run :
         \/ db.run[r] = backup.db.run[r]
         \/ /\ backup.db.run[r] # "done" /\ db.run[r] \in {"active", "done"}
            /\ r \notin db.rows

SavedOK ==
    /\ awaiting # "none" => \A r \in database.rows : database.run[r] = "done"
    /\ awaiting = "archive" \/ web = "moveDatabase" =>
         Kept(database, saved) /\ FilesIn(artifacts) \subseteq saved.files
    /\ web = "moveArtifacts" => FilesIn(artifacts) \subseteq saved.files
    /\ aside.db # None => Kept(aside.db, saved) /\ ~HasActive(aside.db)
    /\ aside.dir # None => saved # None /\ aside.dir.files \subseteq saved.files

IInv ==
    /\ TypeOK /\ ControlOK /\ ReplacementOK /\ FilesOK /\ HandlesOK /\ RowsOK
    /\ CapturedOK /\ WholeOK /\ ArchivesOK /\ SavedOK

-----------------------------------------------------------------------------
(* Records.                                                                *)

\* Nothing of a kind is None.
LEMMA KindFacts ==
    /\ None \notin Database /\ None \notin Directory /\ None \notin Archive
    /\ None \notin Defective /\ Archive \cap Defective = {}
<1>1. /\ \A db \in Database : db.kind = "database"
      /\ \A dir \in Directory : dir.kind = "directory"
      /\ \A a \in Archive : a.kind = "archive"
      /\ \A d \in Defective : d.kind = "defective"
      /\ None.kind = "none"
  BY DEF None, Database, Directory, Archive, Defective
<1> QED BY <1>1

\* The fields of a database, a directory and an archive.
LEMMA FieldFacts ==
    /\ \A db \in Database : /\ db.id \in Nat /\ db.id \in 1..MaxId /\ db.rows \subseteq Run
                            /\ db.archived \subseteq Run
                            /\ \A r \in Run : db.run[r] \in {"absent", "active", "done"}
    /\ \A dir \in Directory : dir.files \subseteq Run /\ dir.of \in 1..MaxId
    /\ \A a \in Archive : a.db \in Database /\ a.files \subseteq Run
BY WorkspaceAssumption DEF Database, Directory, Archive

\* The edits that transactions make of a database.
LEMMA RunEdit ==
    ASSUME NEW db \in Database, NEW r \in Run, NEW status \in {"absent", "active", "done"},
           NEW new, new = [db EXCEPT !.run[r] = status]
    PROVE  /\ new \in Database /\ new.id = db.id /\ new.rows = db.rows
           /\ new.archived = db.archived
           /\ new.run[r] = status /\ \A x \in Run : x # r => new.run[x] = db.run[x]
BY DEF Database

LEMMA DatabaseEdits ==
    ASSUME NEW db \in Database
    PROVE  /\ \A rows \in SUBSET Run :
                LET new == [db EXCEPT !.rows = rows]
                IN  /\ new \in Database /\ new.id = db.id /\ new.rows = rows
                    /\ new.run = db.run
           /\ \A archived \in SUBSET Run :
                LET new == [db EXCEPT !.archived = archived]
                IN  /\ new \in Database /\ new.id = db.id /\ new.rows = db.rows
                    /\ new.run = db.run /\ new.archived = archived
           /\ \A id \in 1..MaxId :
                LET new == [db EXCEPT !.id = id]
                IN  /\ new \in Database /\ new.id = id /\ new.rows = db.rows
                    /\ new.run = db.run
BY DEF Database

LEMMA EmptyFacts ==
    ASSUME NEW id \in 1..MaxId
    PROVE  /\ Empty(id) \in Database /\ Empty(id).id = id /\ Empty(id).rows = {}
           /\ \A r \in Run : Empty(id).run[r] = "absent"
BY DEF Empty, Database

LEMMA DirectoryFacts ==
    /\ \A of \in 1..MaxId, fs \in SUBSET Run :
         LET new == [kind |-> "directory", of |-> of, files |-> fs]
         IN  new \in Directory /\ new.of = of /\ new.files = fs
    /\ \A dir \in Directory, fs \in SUBSET Run :
         LET new == [dir EXCEPT !.files = fs]
         IN  new \in Directory /\ new.of = dir.of /\ new.files = fs
    /\ FilesIn(None) = {}
    /\ \A dir \in Directory : FilesIn(dir) = dir.files /\ FilesIn(dir) \subseteq Run
BY KindFacts DEF Directory, FilesIn

LEMMA CopiedFacts == Copied # None /\ Copied.db = staged /\ Copied.files = FilesIn(artifacts)
<1>1. Copied.kind = "archive" /\ None.kind = "none"
  BY DEF Copied, None
<1> QED BY <1>1 DEF Copied

-----------------------------------------------------------------------------
(* Handles.                                                                *)

\* The file a handle is on, among those that exist.
LEMMA FileFacts ==
    ASSUME TypeOK, FilesOK, HandlesOK, NEW p \in Process, Handle(p) # 0
    PROVE  LET db == FileOf(Handle(p))
           IN  /\ db \in Database /\ db.id = Handle(p)
               /\ db = database \/ db = aside.db \/ db \in unlinked
               /\ database # None /\ database.id = db.id => database = db
               /\ aside.db # None /\ aside.db.id = db.id => aside.db = db
               /\ \A u \in unlinked : u.id = db.id => u = db
<1> DEFINE id == Handle(p)
           Files == {database, aside.db} \cup unlinked
           db == FileOf(id)
<1>1. \E f \in Files : f # None /\ f.id = id
  <2>1. CASE pool[p] # 0
    <3>1. \A u \in unlinked : u # None
      BY KindFacts DEF TypeOK
    <3> QED BY <2>1, <3>1 DEF HandlesOK, Handle
  <2>2. CASE pool[p] = 0
    BY <2>2 DEF Handle
  <2> QED BY <2>1, <2>2
<1>2. db \in Files /\ db # None /\ db.id = id
  BY <1>1 DEF FileOf
<1>3. db \in Database
  BY <1>2 DEF TypeOK
<1> HIDE DEF db, id
<1>4. /\ database # None /\ database.id = db.id => database = db
      /\ aside.db # None /\ aside.db.id = db.id => aside.db = db
      /\ \A u \in unlinked : u.id = db.id => u = db
  BY <1>2 DEF FilesOK
<1> QED BY <1>2, <1>3, <1>4 DEF db, id

LEMMA ReapFacts == \A gone, handles : Reap(gone, handles) \subseteq gone
BY DEF Reap

-----------------------------------------------------------------------------
(* What the actions that edit a database do to it.                         *)

\* A file's row of runs changes by at most one run's going from one status to
\* another; everything else of it stays.
RunMoves(db, new, from, to) ==
    /\ new \in Database /\ new.id = db.id /\ new.rows = db.rows
    /\ new.archived = db.archived
    /\ \A x \in Run : new.run[x] = db.run[x] \/ (db.run[x] = from /\ new.run[x] = to)

LEMMA CreateEffect ==
    ASSUME TypeOK, NEW r \in Run, CreateRun(r)
    PROVE  /\ database = None => database' = None
           /\ database # None => RunMoves(database, database', "absent", "active")
<1>1. CASE database # None /\ database.run[r] = "absent"
  <2>1. database' = [database EXCEPT !.run[r] = "active"] /\ database \in Database
    BY <1>1 DEF CreateRun, TypeOK
  <2>2. /\ database' \in Database /\ database'.id = database.id
        /\ database'.rows = database.rows /\ database'.run[r] = "active"
        /\ database'.archived = database.archived
        /\ \A x \in Run : x # r => database'.run[x] = database.run[x]
    BY <2>1, RunEdit
  <2> QED BY <1>1, <2>2, KindFacts DEF RunMoves
<1>2. CASE ~(database # None /\ database.run[r] = "absent")
  <2>1. database' = database
    BY <1>2 DEF CreateRun
  <2> QED BY <2>1 DEF RunMoves, TypeOK
<1> QED BY <1>1, <1>2

LEMMA DecideEffect ==
    ASSUME TypeOK, NEW r \in Run, Decide(r)
    PROVE  /\ database # None /\ database' \in Database
           /\ database'.id = database.id /\ database'.rows = database.rows
           /\ database'.run = database.run /\ database.archived \subseteq database'.archived
<1>1. database \in Database /\ r \in Run
  BY DEF Decide, TypeOK
<1>2. database.archived \cup {r} \in SUBSET Run
  BY <1>1, FieldFacts
<1>3. database' = [database EXCEPT !.archived = database.archived \cup {r}]
  BY DEF Decide
<1> QED BY <1>1, <1>2, <1>3, DatabaseEdits, KindFacts DEF Decide

\* The four maintenance operations that clear rows: they take no active run and
\* leave no row to the files they are about to remove.
Clears == Reset \/ CleanupArtifacts \/ \E r \in Run : DeleteRun(r) \/ DeleteBusiness(r)

LEMMA ClearsEffect ==
    ASSUME TypeOK, Clears
    PROVE  /\ web = "idle" /\ lock = "free" /\ lock' = "web" /\ web' \in {"clear", "clearAll"}
           /\ database \in Database /\ database' \in Database
           /\ database'.id = database.id /\ database'.rows \subseteq database.rows
           /\ doomed' \subseteq Run /\ doomed' \cap database'.rows = {}
           /\ \A x \in Run : \/ database'.run[x] = database.run[x]
                             \/ /\ x \notin database'.rows
                                /\ database.run[x] # "active" /\ database'.run[x] = "absent"
           /\ CloseShared("web")
           /\ UNCHANGED <<artifacts, aside, next, awaiting, upload, staged, saved, archives,
                          probing, captured, faults>>
<1>1. /\ MayMaintain /\ CloseShared("web") /\ lock' = "web" /\ web' \in {"clear", "clearAll"}
      /\ UNCHANGED <<artifacts, aside, next, awaiting, upload, staged, saved, archives,
                     probing, captured, faults>>
  BY DEF Clears, Reset, CleanupArtifacts, DeleteRun, DeleteBusiness, Maintain
<1>2. /\ database \in Database /\ FilesIn(artifacts) \subseteq Run
      /\ database.id \in 1..MaxId /\ database.rows \subseteq Run /\ database.archived \subseteq Run
  BY <1>1, FieldFacts, DirectoryFacts DEF MayMaintain, TypeOK
<1>3. CASE Reset
  <2>1. database' = Empty(database.id) /\ doomed' = FilesIn(artifacts) /\ ~HasActive(database)
    BY <1>3 DEF Reset, Maintain
  <2> QED BY <1>1, <1>2, <2>1, EmptyFacts DEF HasActive, MayMaintain
<1>4. ASSUME NEW r \in Run, DeleteRun(r)
      PROVE  /\ database' \in Database /\ database'.id = database.id
             /\ database'.rows = database.rows \ {r} /\ doomed' = {r}
             /\ database.run[r] = "done" /\ database'.run[r] = "absent"
             /\ \A x \in Run : x # r => database'.run[x] = database.run[x]
  <2> DEFINE ended == [database EXCEPT !.run[r] = "absent"]
             left == [ended EXCEPT !.rows = database.rows \ {r}]
  <2>1. database' = [left EXCEPT !.archived = database.archived \ {r}]
        /\ doomed' = {r} /\ database.run[r] = "done"
    BY <1>2, <1>4 DEF DeleteRun, Maintain, Database
  <2>2. /\ ended \in Database /\ ended.id = database.id /\ ended.run[r] = "absent"
        /\ \A x \in Run : x # r => ended.run[x] = database.run[x]
    <3> ended = [database EXCEPT !.run[r] = "absent"]
      OBVIOUS
    <3> HIDE DEF ended
    <3> QED BY <1>2, RunEdit
  <2>3. /\ left \in Database /\ left.id = ended.id /\ left.run = ended.run
        /\ left.rows = database.rows \ {r}
    <3> HIDE DEF ended
    <3> QED BY <1>2, <2>2, DatabaseEdits
  <2> HIDE DEF left, ended
  <2>4. database.archived \ {r} \in SUBSET Run
    BY <1>2
  <2> QED BY <2>1, <2>2, <2>3, <2>4, DatabaseEdits
<1>5. ASSUME NEW rows \in SUBSET Run, NEW archived \in SUBSET Run,
             database' = [database EXCEPT !.rows = rows, !.archived = archived]
      PROVE  /\ database' \in Database /\ database'.id = database.id
             /\ database'.rows = rows /\ database'.run = database.run
  <2> DEFINE left == [database EXCEPT !.rows = rows]
  <2>1. left \in Database /\ left.id = database.id /\ left.run = database.run /\ left.rows = rows
    BY <1>2, DatabaseEdits
  <2>2. database' = [left EXCEPT !.archived = archived]
    BY <1>2, <1>5 DEF Database
  <2> HIDE DEF left
  <2> QED BY <2>1, <2>2, DatabaseEdits
<1>6. CASE \E r \in Run : DeleteBusiness(r)
  <2>1. PICK r \in Run : DeleteBusiness(r)
    BY <1>6
  <2>2. /\ database' = [database EXCEPT !.rows = database.rows \ {r},
                                        !.archived = database.archived \ {r}]
        /\ doomed' = {r}
    BY <2>1 DEF DeleteBusiness, Maintain
  <2>3. database.rows \ {r} \in SUBSET Run /\ database.archived \ {r} \in SUBSET Run
    BY <1>2
  <2>4. /\ database' \in Database /\ database'.id = database.id
        /\ database'.rows = database.rows \ {r} /\ database'.run = database.run
    BY <1>5, <2>2, <2>3
  <2> QED BY <1>1, <1>2, <2>2, <2>4 DEF MayMaintain
<1>7. CASE CleanupArtifacts
  <2> DEFINE kept == database.rows \ database.archived
  <2>1. database' = [database EXCEPT !.rows = kept] /\ doomed' = FilesIn(artifacts) \ kept
    BY <1>7 DEF CleanupArtifacts, Maintain
  <2>2. kept \in SUBSET Run
    BY <1>2
  <2>3. /\ database' \in Database /\ database'.id = database.id
        /\ database'.rows = kept /\ database'.run = database.run
    BY <1>2, <2>1, <2>2, DatabaseEdits
  <2> QED BY <1>1, <1>2, <2>1, <2>3 DEF MayMaintain
<1>8. CASE \E r \in Run : DeleteRun(r)
  <2>1. PICK r \in Run : DeleteRun(r)
    BY <1>8
  <2> QED BY <1>1, <1>2, <1>4, <2>1 DEF MayMaintain
<1> QED BY <1>3, <1>6, <1>7, <1>8 DEF Clears

\* What a write through a handle leaves: the file it has open is changed
\* wherever it is, and no other.
Written(p, db, new) ==
    /\ db \in Database /\ new \in Database /\ new.id = db.id /\ db.id = Handle(p)
    /\ db = database \/ db = aside.db \/ db \in unlinked
    /\ pool' = [pool EXCEPT ![p] = db.id]
    /\ database' = IF database = db THEN new ELSE database
    /\ aside'.dir = aside.dir /\ aside'.db = IF aside.db = db THEN new ELSE aside.db
    /\ aside' \in [db : Database \cup {None}, dir : Directory \cup {None}]
    /\ unlinked' = {IF u = db THEN new ELSE u : u \in unlinked}

LEMMA WriteEffect ==
    ASSUME TypeOK, FilesOK, HandlesOK, NEW p \in Process, Handle(p) # 0, NEW new \in Database,
           new.id = FileOf(Handle(p)).id, WriteThrough(p, new)
    PROVE  Written(p, FileOf(Handle(p)), new)
<1> DEFINE db == FileOf(Handle(p))
<1>1. /\ db \in Database /\ db.id = Handle(p)
      /\ db = database \/ db = aside.db \/ db \in unlinked
      /\ database # None /\ database.id = db.id => database = db
      /\ aside.db # None /\ aside.db.id = db.id => aside.db = db
      /\ \A u \in unlinked : u.id = db.id => u = db
  BY FileFacts
<1> HIDE DEF db
<1>2. new.id = db.id
  BY DEF db
<1>3. pool' = [pool EXCEPT ![p] = db.id]
  BY <1>2 DEF WriteThrough
<1>4. database' = IF database = db THEN new ELSE database
  BY <1>1, <1>2, KindFacts DEF WriteThrough
<1>5. /\ aside'.dir = aside.dir /\ aside'.db = IF aside.db = db THEN new ELSE aside.db
      /\ aside' \in [db : Database \cup {None}, dir : Directory \cup {None}]
  <2>1. aside \in [db : Database \cup {None}, dir : Directory \cup {None}]
    BY DEF TypeOK
  <2>2. aside' = IF aside.db = db THEN [aside EXCEPT !.db = new] ELSE aside
    BY <1>1, <1>2, KindFacts DEF WriteThrough
  <2> QED BY <2>1, <2>2
<1>6. unlinked' = {IF u = db THEN new ELSE u : u \in unlinked}
  BY <1>1, <1>2 DEF WriteThrough
<1> QED BY <1>1, <1>2, <1>3, <1>4, <1>5, <1>6 DEF Written, db

\* A run ends by a control or by the worker, in the file that the process has open.
Ends == \E r \in Run : CancelRun(r) \/ FinishRun(r)

LEMMA EndEffect ==
    ASSUME TypeOK, FilesOK, HandlesOK, ControlOK, Ends
    PROVE  \E p, db, new :
              /\ p \in Process
              /\ Written(p, db, new) /\ RunMoves(db, new, "active", "done")
              /\ p = "web" => web = "idle"
              /\ p = "worker" => lock = "worker" /\ captured = NoRun
              /\ UNCHANGED <<artifacts, next, lock, restoring, archives, probing, captured, faults>>
<1> PICK r \in Run : CancelRun(r) \/ FinishRun(r)
  BY DEF Ends
<1>1. PICK p \in Process :
        /\ Handle(p) # 0
        /\ p = "web" => web = "idle"
        /\ p = "worker" => lock = "worker" /\ captured = NoRun
        /\ FileOf(Handle(p)).run[r] = "active"
        /\ WriteThrough(p, [FileOf(Handle(p)) EXCEPT !.run[r] = "done"])
        /\ UNCHANGED <<artifacts, next, lock, restoring, archives, probing, captured, faults>>
  <2>1. CASE CancelRun(r)
    BY <2>1 DEF CancelRun, Process
  <2>2. CASE FinishRun(r)
    <3>1. lock = "worker" /\ pool["worker"] # 0 /\ Handle("worker") = pool["worker"]
      BY <2>2 DEF FinishRun, ControlOK, Handle
    <3> QED BY <2>2, <3>1 DEF FinishRun, Process
  <2> QED BY <2>1, <2>2
<1> DEFINE db == FileOf(Handle(p))
           new == [db EXCEPT !.run[r] = "done"]
<1>2. db \in Database
  BY <1>1, FileFacts
<1>3. /\ new \in Database /\ new.id = db.id /\ new.rows = db.rows /\ new.run[r] = "done"
      /\ new.archived = db.archived
      /\ \A x \in Run : x # r => new.run[x] = db.run[x]
  <2>1. new = [db EXCEPT !.run[r] = "done"]
    OBVIOUS
  <2> HIDE DEF new, db
  <2> QED BY <1>2, <2>1, RunEdit
<1>4. RunMoves(db, new, "active", "done")
  <2> HIDE DEF new
  <2>1. db.run[r] = "active"
    BY <1>1
  <2> QED BY <1>3, <2>1 DEF RunMoves
<1>5. Written(p, db, new)
  <2> HIDE DEF new
  <2>1. WriteThrough(p, new)
    BY <1>1 DEF new
  <2> QED BY <1>1, <1>3, <2>1, WriteEffect
<1> HIDE DEF db, new
<1> QED BY <1>1, <1>4, <1>5

LEMMA RecordEffect ==
    ASSUME TypeOK, FilesOK, HandlesOK, ControlOK, Record
    PROVE  \E db, new :
              /\ Written("worker", db, new) /\ captured \in Run
              /\ new.rows = db.rows \cup {captured} /\ new.run = db.run
              /\ db.id = pool["worker"] /\ pool' = pool
<1>1. /\ lock = "worker" /\ pool["worker"] # 0 /\ Handle("worker") = pool["worker"]
      /\ "worker" \in Process /\ captured \in Run
  BY DEF Record, ControlOK, Handle, Process, TypeOK
<1> DEFINE db == FileOf(Handle("worker"))
           new == [db EXCEPT !.rows = db.rows \cup {captured}]
<1>2. db \in Database /\ db.id = pool["worker"]
  BY <1>1, FileFacts
<1>3. /\ new \in Database /\ new.id = db.id /\ new.rows = db.rows \cup {captured}
      /\ new.run = db.run
  <2> HIDE DEF db
  <2>1. db.rows \cup {captured} \in SUBSET Run
    BY <1>1, <1>2, FieldFacts
  <2> QED BY <1>2, <2>1, DatabaseEdits
<1>4. Written("worker", db, new)
  <2> HIDE DEF new
  <2>1. WriteThrough("worker", new)
    BY <1>1 DEF new, Record
  <2> QED BY <1>1, <1>3, <2>1, WriteEffect
<1>5. pool' = pool
  <2> HIDE DEF db, new
  <2>1. pool' = [pool EXCEPT !["worker"] = db.id]
    BY <1>4 DEF Written
  <2> QED BY <1>2, <2>1 DEF TypeOK
<1> HIDE DEF db, new
<1> QED BY <1>1, <1>2, <1>3, <1>4, <1>5

\* Clearing removes doomed files only, and may make an empty directory.
LEMMA ClearFilesEffect ==
    ASSUME TypeOK, ControlOK, ClearFiles
    PROVE  /\ artifacts' \in Directory \cup {None}
           /\ FilesIn(artifacts') \subseteq FilesIn(artifacts)
           /\ FilesIn(artifacts) \ doomed \subseteq FilesIn(artifacts')
           /\ artifacts = None => artifacts' = None \/ artifacts'.of = database.id
           /\ artifacts # None => artifacts' # None /\ artifacts'.of = artifacts.of
<1>1. database \in Database /\ database.id \in 1..MaxId /\ {} \in SUBSET Run
  BY FieldFacts DEF ControlOK, TypeOK, ClearFiles
<1>2. CASE artifacts # None
  <2>1. artifacts \in Directory /\ FilesIn(artifacts) = artifacts.files
        /\ artifacts.files \subseteq Run
    BY <1>2, FieldFacts, DirectoryFacts DEF TypeOK
  <2>2. PICK left \in SUBSET (doomed \cap FilesIn(artifacts)) :
          artifacts' = [artifacts EXCEPT !.files = (artifacts.files \ doomed) \cup left]
    BY <1>2 DEF ClearFiles
  <2>3. (artifacts.files \ doomed) \cup left \in SUBSET Run
    BY <2>1, <2>2
  <2>4. /\ artifacts' \in Directory /\ artifacts'.of = artifacts.of
        /\ artifacts'.files = (artifacts.files \ doomed) \cup left
    BY <2>1, <2>2, <2>3, DirectoryFacts
  <2>5. FilesIn(artifacts') = artifacts'.files
    BY <2>4, DirectoryFacts
  <2> QED BY <1>2, <2>1, <2>2, <2>4, <2>5, KindFacts
<1>3. CASE artifacts = None
  <2>1. \/ artifacts' = None
        \/ artifacts' = [kind |-> "directory", of |-> database.id, files |-> {}]
    BY <1>3 DEF ClearFiles
  <2>2. CASE artifacts' = None
    BY <1>3, <2>2, DirectoryFacts
  <2>3. CASE artifacts' = [kind |-> "directory", of |-> database.id, files |-> {}]
    <3>1. artifacts' \in Directory /\ artifacts'.of = database.id /\ artifacts'.files = {}
      BY <1>1, <2>3, DirectoryFacts
    <3> QED BY <1>3, <3>1, DirectoryFacts
  <2> QED BY <2>1, <2>2, <2>3
<1> QED BY <1>2, <1>3

LEMMA CaptureEffect ==
    ASSUME TypeOK, ControlOK, NEW r \in Run, Capture(r)
    PROVE  /\ artifacts' \in Directory /\ FilesIn(artifacts') = FilesIn(artifacts) \cup {r}
           /\ artifacts # None => artifacts'.of = artifacts.of
           /\ artifacts = None => artifacts'.of = pool["worker"]
<1>1. pool["worker"] \in 1..MaxId
  BY WorkspaceAssumption DEF Capture, ControlOK, TypeOK, Process
<1>2. CASE artifacts # None
  <2>1. artifacts \in Directory /\ FilesIn(artifacts) = artifacts.files
        /\ artifacts.files \cup {r} \in SUBSET Run
    BY <1>2, FieldFacts, DirectoryFacts DEF TypeOK
  <2>2. artifacts' = [artifacts EXCEPT !.files = artifacts.files \cup {r}]
    BY <1>2 DEF Capture
  <2>3. /\ artifacts' \in Directory /\ artifacts'.of = artifacts.of
        /\ artifacts'.files = artifacts.files \cup {r}
    BY <2>1, <2>2, DirectoryFacts
  <2> QED BY <1>2, <2>1, <2>3, DirectoryFacts
<1>3. CASE artifacts = None
  <2>1. artifacts' = [kind |-> "directory", of |-> pool["worker"], files |-> {r}]
    BY <1>3 DEF Capture
  <2>2. {r} \in SUBSET Run
    OBVIOUS
  <2>3. artifacts' \in Directory /\ artifacts'.of = pool["worker"] /\ artifacts'.files = {r}
    BY <1>1, <2>1, <2>2, DirectoryFacts
  <2> QED BY <1>3, <2>3, DirectoryFacts
<1> QED BY <1>2, <1>3

\* What is about to be installed is the upload, under a new identity.
LEMMA StageEffect ==
    ASSUME TypeOK, ControlOK, StageReplacement
    PROVE  /\ upload \in Archive /\ lastId' = lastId + 1 /\ lastId' \in 1..MaxId
           /\ next' \in [db : Database, dir : Directory]
           /\ next'.db.id = lastId' /\ next'.db.rows = upload.db.rows
           /\ next'.db.run = upload.db.run
           /\ next'.dir.of = lastId' /\ next'.dir.files = upload.files
<1>1. upload \in Archive /\ lastId' = lastId + 1 /\ lastId' \in 1..MaxId
  BY WorkspaceAssumption DEF StageReplacement, ControlOK, TypeOK
<1>2. upload.db \in Database /\ upload.files \in SUBSET Run
  BY <1>1, FieldFacts
<1> DEFINE db == [upload.db EXCEPT !.id = lastId']
           dir == [kind |-> "directory", of |-> lastId', files |-> upload.files]
<1>3. /\ db \in Database /\ db.id = lastId' /\ db.rows = upload.db.rows
      /\ db.run = upload.db.run
  BY <1>1, <1>2, DatabaseEdits
<1>4. dir \in Directory /\ dir.of = lastId' /\ dir.files = upload.files
  BY <1>1, <1>2, DirectoryFacts
<1>5. next' = [db |-> db, dir |-> dir]
  BY DEF StageReplacement
<1> HIDE DEF db, dir
<1> QED BY <1>1, <1>3, <1>4, <1>5

\* A worker that starts again makes a database only when there is none.
LEMMA WorkerDiesEffect ==
    ASSUME TypeOK, WorkerDies
    PROVE  /\ database # None => database' = database /\ lastId' = lastId
           /\ database = None =>
                \/ database' = None /\ lastId' = lastId
                \/ /\ lastId' = lastId + 1 /\ lastId' \in 1..MaxId
                   /\ database' \in Database /\ database'.id = lastId' /\ database'.rows = {}
                   /\ \A r \in Run : database'.run[r] = "absent"
<1>1. CASE database = None /\ lastId < MaxId
  <2>1. database' = Empty(lastId + 1) /\ lastId' = lastId + 1 /\ lastId + 1 \in 1..MaxId
    BY <1>1, WorkspaceAssumption DEF WorkerDies, TypeOK
  <2> QED BY <1>1, <2>1, EmptyFacts
<1>2. CASE ~(database = None /\ lastId < MaxId)
  BY <1>2 DEF WorkerDies
<1> QED BY <1>1, <1>2

\* Closing a handle leaves the other's file where it is.
LEMMA CloseEffect ==
    ASSUME TypeOK, NEW p \in Process, CloseShared(p)
    PROVE  /\ unlinked' \subseteq unlinked
           /\ \A q \in Process : /\ pool'[q] \in {0, pool[q]}
                                 /\ pool'[q] # 0 =>
                                      \A u \in unlinked : u.id = pool[q] => u \in unlinked'
BY ReapFacts DEF CloseShared, Reap, TypeOK

-----------------------------------------------------------------------------
(* Steps.  One lemma for each part of the invariant.                       *)

\* The type invariant, by what it is about.
ScalarTypeOK ==
    /\ pool \in [Process -> 0..MaxId] /\ lock \in {"free"} \cup Process
    /\ web \in WebStep /\ awaiting \in {"none", "extract", "archive"}
    /\ doomed \subseteq Run /\ probing \subseteq Run /\ captured \in Run \cup {NoRun}
    /\ damaged \in BOOLEAN /\ lastId \in 1..MaxId
    /\ errors \in 0..MaxErrors /\ crashes \in 0..MaxCrashes

ArchiveTypeOK ==
    /\ upload \in Archive \cup Defective \cup {None} /\ staged \in Database \cup {None}
    /\ saved \in Archive \cup {None} /\ archives \subseteq Archive

FileTypeOK ==
    /\ database \in Database \cup {None} /\ artifacts \in Directory \cup {None}
    /\ aside \in [db : Database \cup {None}, dir : Directory \cup {None}]
    /\ next \in [db : Database \cup {None}, dir : Directory \cup {None}]
    /\ unlinked \subseteq Database

\* The types of what is no file.
LEMMA ScalarTypes ==
    ASSUME IInv, Next
    PROVE  ScalarTypeOK'
<1> USE DEF IInv, files, restoring, faults
<1>1. ASSUME NEW r \in Run, AdmitRun(r)
      PROVE  ScalarTypeOK'
  BY <1>1, WorkspaceAssumption DEF AdmitRun, TypeOK, WebStep, Replacing, Process,
       ScalarTypeOK
<1>2. ASSUME NEW r \in Run, CreateRun(r)
      PROVE  ScalarTypeOK'
  BY <1>2, WorkspaceAssumption DEF CreateRun, TypeOK, WebStep, Replacing, Process,
       ScalarTypeOK
<1>3. ASSUME NEW r \in Run, Decide(r)
      PROVE  ScalarTypeOK'
  BY <1>3, WorkspaceAssumption DEF Decide, TypeOK, WebStep, Replacing, Process,
       ScalarTypeOK
<1>4. CASE Monitor
  BY <1>4, WorkspaceAssumption, FieldFacts DEF Monitor, TypeOK, WebStep, Replacing,
       Process, Handle, ScalarTypeOK
<1>5. CASE Snapshot \/ CopyDownload \/ RefuseMaintenance
  BY <1>5, WorkspaceAssumption DEF Snapshot, CopyDownload, RefuseMaintenance,
       MayMaintain, CloseShared, TypeOK, WebStep, Replacing, Process, ScalarTypeOK
<1>6. CASE Clears
  BY <1>6, WorkspaceAssumption, ClearsEffect DEF CloseShared, TypeOK, WebStep,
       Replacing, Process, ScalarTypeOK
<1>7. CASE Ends
  <2> USE <1>7
  <2>1. PICK p, db, new :
           /\ p \in Process
           /\ Written(p, db, new)
           /\ UNCHANGED <<artifacts, next, lock, restoring, archives, probing, captured, faults>>
    BY EndEffect
  <2>2. new.id \in 0..MaxId
    BY <2>1, FieldFacts DEF Written
  <2> QED BY <2>1, <2>2 DEF Written, restoring, faults, TypeOK, ScalarTypeOK
<1>8. CASE ClearFiles \/ RefuseUpload \/ StageRecovery
  BY <1>8, WorkspaceAssumption DEF ClearFiles, RefuseUpload, GiveUp, Refused,
       StageRecovery, TypeOK, WebStep, Replacing, Process, ScalarTypeOK
<1>9. ASSUME NEW u \in archives \cup Defective, BeginRestore(u)
      PROVE  ScalarTypeOK'
  BY <1>9, WorkspaceAssumption DEF BeginRestore, MayMaintain, TypeOK, WebStep,
       Replacing, Process, ScalarTypeOK
<1>10. CASE CopyRecovery \/ RefuseReplacement \/ StageReplacement
  BY <1>10, WorkspaceAssumption DEF CopyRecovery, RefuseReplacement, GiveUp,
       StageReplacement, TypeOK, WebStep, Replacing, Process, ScalarTypeOK
<1>11. CASE RecoveryFails \/ StagingFails
  BY <1>11, WorkspaceAssumption DEF RecoveryFails, StagingFails, GiveUp, TypeOK, WebStep, Replacing,
       Process, ScalarTypeOK
<1>12. CASE MoveDatabase
  BY <1>12, WorkspaceAssumption DEF MoveDatabase, Renamed, TypeOK, WebStep, Replacing,
       Process, ScalarTypeOK
<1>13. CASE MoveArtifacts
  BY <1>13, WorkspaceAssumption DEF MoveArtifacts, Renamed, TypeOK, WebStep, Replacing,
       Process, ScalarTypeOK
<1>14. CASE InstallDatabase
  BY <1>14, WorkspaceAssumption DEF InstallDatabase, Renamed, TypeOK, WebStep,
       Replacing, Process, ScalarTypeOK
<1>15. CASE InstallArtifacts
  BY <1>15, WorkspaceAssumption DEF InstallArtifacts, Renamed, TypeOK, WebStep,
       Replacing, Process, ScalarTypeOK
<1>16. CASE DropDatabase
  BY <1>16, WorkspaceAssumption DEF DropDatabase, Renamed, TypeOK, WebStep, Replacing,
       Process, ScalarTypeOK
<1>17. CASE DropArtifacts
  BY <1>17, WorkspaceAssumption DEF DropArtifacts, EndRestore, TypeOK, WebStep,
       Replacing, Process, ScalarTypeOK
<1>18. CASE ReplacementFails
  BY <1>18, WorkspaceAssumption DEF ReplacementFails, RolledBack, EndRestore, TypeOK,
       WebStep, Replacing, Process, ScalarTypeOK
<1>19. CASE BeginCycle
  BY <1>19, WorkspaceAssumption, FieldFacts DEF BeginCycle, TypeOK, WebStep, Replacing,
       Process, Handle, ScalarTypeOK
<1>20. CASE ReleaseDatabases
  BY <1>20, WorkspaceAssumption DEF ReleaseDatabases, CloseShared, TypeOK, WebStep,
       Replacing, Process, ScalarTypeOK
<1>21. CASE Record
  <2> USE <1>21
  <2>1. PICK db, new : Written("worker", db, new) /\ pool' = pool
    BY RecordEffect
  <2> QED BY <2>1 DEF Record, Written, restoring, faults, TypeOK, ScalarTypeOK
<1>22. CASE EndCycle
  BY <1>22, WorkspaceAssumption DEF EndCycle, TypeOK, WebStep, Replacing, Process,
       ScalarTypeOK
<1>23. ASSUME NEW r \in Run, Capture(r)
      PROVE  ScalarTypeOK'
  BY <1>23, WorkspaceAssumption DEF Capture, TypeOK, WebStep, Replacing, Process,
       ScalarTypeOK
<1>24. CASE WebDies
  BY <1>24, WorkspaceAssumption DEF WebDies, CloseShared, TypeOK, WebStep, Replacing,
       Process, ScalarTypeOK
<1>25. CASE WorkerDies
  BY <1>25, WorkspaceAssumption DEF WorkerDies, CloseShared, TypeOK, WebStep, Replacing,
       Process, ScalarTypeOK
<1> HIDE DEF IInv, files, restoring, faults
<1> QED BY <1>1, <1>2, <1>3, <1>4, <1>5, <1>6, <1>7, <1>8, <1>9, <1>10, <1>11, <1>12,
         <1>13, <1>14, <1>15, <1>16, <1>17, <1>18, <1>19, <1>20, <1>21, <1>22, <1>23,
         <1>24, <1>25 DEF Next, Requests, Maintenance, Restore, Replacement,
         WorkerCycle, Clears, Ends

\* The types of the archives.
LEMMA ArchiveTypes ==
    ASSUME IInv, Next
    PROVE  ArchiveTypeOK'
<1> USE DEF IInv, files, restoring, faults
<1>1. ASSUME NEW r \in Run, AdmitRun(r)
      PROVE  ArchiveTypeOK'
  BY <1>1 DEF AdmitRun, TypeOK, ArchiveTypeOK
<1>2. ASSUME NEW r \in Run, CreateRun(r)
      PROVE  ArchiveTypeOK'
  BY <1>2 DEF CreateRun, TypeOK, ArchiveTypeOK
<1>3. ASSUME NEW r \in Run, Decide(r)
      PROVE  ArchiveTypeOK'
  BY <1>3 DEF Decide, TypeOK, ArchiveTypeOK
<1>4. CASE Monitor
  BY <1>4 DEF Monitor, TypeOK, ArchiveTypeOK
<1>5. CASE Snapshot \/ RefuseMaintenance \/ ClearFiles
  BY <1>5 DEF Snapshot, RefuseMaintenance, MayMaintain, CloseShared, ClearFiles, TypeOK,
       ArchiveTypeOK
<1>6. CASE CopyDownload
  BY <1>6, DirectoryFacts DEF CopyDownload, TypeOK, ControlOK, Archive, Copied,
       ArchiveTypeOK
<1>7. CASE Clears
  BY <1>7, ClearsEffect DEF CloseShared, TypeOK, ArchiveTypeOK
<1>8. CASE Ends
  <2> USE <1>8
  <2>1. PICK p, db, new :
           /\ p \in Process
           /\ Written(p, db, new)
           /\ UNCHANGED <<artifacts, next, lock, restoring, archives, probing, captured, faults>>
    BY EndEffect
  <2>2. new.id \in 0..MaxId
    BY <2>1, FieldFacts DEF Written
  <2> QED BY <2>1, <2>2 DEF Written, restoring, faults, TypeOK, ArchiveTypeOK
<1>9. ASSUME NEW u \in archives \cup Defective, BeginRestore(u)
      PROVE  ArchiveTypeOK'
  BY <1>9 DEF BeginRestore, MayMaintain, TypeOK, ArchiveTypeOK
<1>10. CASE RefuseUpload \/ StageRecovery \/ RefuseReplacement
  BY <1>10 DEF RefuseUpload, GiveUp, Refused, StageRecovery, RefuseReplacement, TypeOK,
       ArchiveTypeOK
<1>11. CASE CopyRecovery
  BY <1>11, KindFacts, DirectoryFacts DEF CopyRecovery, TypeOK, ControlOK, Archive,
       Copied, ArchiveTypeOK
<1>12. CASE RecoveryFails \/ StagingFails
  BY <1>12 DEF RecoveryFails, StagingFails, GiveUp, TypeOK, ArchiveTypeOK
<1>13. CASE StageReplacement \/ BeginCycle \/ ReleaseDatabases
  BY <1>13 DEF StageReplacement, BeginCycle, ReleaseDatabases, CloseShared, TypeOK,
       ArchiveTypeOK
<1>14. CASE MoveDatabase
  BY <1>14 DEF MoveDatabase, Renamed, TypeOK, ArchiveTypeOK
<1>15. CASE MoveArtifacts
  BY <1>15 DEF MoveArtifacts, Renamed, TypeOK, ArchiveTypeOK
<1>16. CASE InstallDatabase
  BY <1>16 DEF InstallDatabase, Renamed, TypeOK, ArchiveTypeOK
<1>17. CASE InstallArtifacts
  BY <1>17 DEF InstallArtifacts, Renamed, TypeOK, ArchiveTypeOK
<1>18. CASE DropDatabase
  BY <1>18 DEF DropDatabase, Renamed, TypeOK, ArchiveTypeOK
<1>19. CASE DropArtifacts
  BY <1>19 DEF DropArtifacts, EndRestore, TypeOK, ArchiveTypeOK
<1>20. CASE ReplacementFails
  BY <1>20 DEF ReplacementFails, RolledBack, EndRestore, TypeOK, ArchiveTypeOK
<1>21. CASE Record
  BY <1>21 DEF Record, TypeOK, ArchiveTypeOK
<1>22. CASE EndCycle
  BY <1>22 DEF EndCycle, TypeOK, ArchiveTypeOK
<1>23. ASSUME NEW r \in Run, Capture(r)
      PROVE  ArchiveTypeOK'
  BY <1>23 DEF Capture, TypeOK, ArchiveTypeOK
<1>24. CASE WebDies
  BY <1>24 DEF WebDies, CloseShared, TypeOK, ArchiveTypeOK
<1>25. CASE WorkerDies
  BY <1>25 DEF WorkerDies, CloseShared, TypeOK, ArchiveTypeOK
<1> HIDE DEF IInv, files, restoring, faults
<1> QED BY <1>1, <1>2, <1>3, <1>4, <1>5, <1>6, <1>7, <1>8, <1>9, <1>10, <1>11, <1>12,
         <1>13, <1>14, <1>15, <1>16, <1>17, <1>18, <1>19, <1>20, <1>21, <1>22, <1>23,
         <1>24, <1>25 DEF Next, Requests, Maintenance, Restore, Replacement,
         WorkerCycle, Clears, Ends

\* The types of the files.
LEMMA FileTypes ==
    ASSUME IInv, Next
    PROVE  FileTypeOK'
<1> USE DEF IInv, files, restoring, faults
<1>1. ASSUME NEW r \in Run, AdmitRun(r)
      PROVE  FileTypeOK'
  BY <1>1 DEF AdmitRun, TypeOK, FileTypeOK
<1>2. ASSUME NEW r \in Run, CreateRun(r)
      PROVE  FileTypeOK'
  BY <1>2, CreateEffect DEF CreateRun, TypeOK, RunMoves, FileTypeOK
<1>3. ASSUME NEW r \in Run, Decide(r)
      PROVE  FileTypeOK'
  BY <1>3, DecideEffect DEF Decide, TypeOK, FileTypeOK
<1>4. CASE Monitor
  BY <1>4 DEF Monitor, TypeOK, FileTypeOK
<1>5. CASE Snapshot \/ CopyDownload \/ RefuseUpload
  BY <1>5 DEF Snapshot, CopyDownload, RefuseUpload, GiveUp, Refused, TypeOK, FileTypeOK
<1>6. CASE RefuseMaintenance \/ ReleaseDatabases
  BY <1>6, ReapFacts DEF RefuseMaintenance, MayMaintain, CloseShared, ReleaseDatabases,
       TypeOK, FileTypeOK
<1>7. CASE Clears
  BY <1>7, ClearsEffect, ReapFacts DEF CloseShared, TypeOK, FileTypeOK
<1>8. CASE Ends
  <2> USE <1>8
  <2>1. PICK p, db, new :
           /\ p \in Process
           /\ Written(p, db, new)
           /\ UNCHANGED <<artifacts, next, lock, restoring, archives, probing, captured, faults>>
    BY EndEffect
  <2>2. new.id \in 0..MaxId
    BY <2>1, FieldFacts DEF Written
  <2> QED BY <2>1, <2>2 DEF Written, restoring, faults, TypeOK, FileTypeOK
<1>9. CASE ClearFiles
  BY <1>9, ClearFilesEffect DEF ClearFiles, TypeOK, FileTypeOK
<1>10. ASSUME NEW u \in archives \cup Defective, BeginRestore(u)
      PROVE  FileTypeOK'
  BY <1>10, ReapFacts DEF BeginRestore, MayMaintain, TypeOK, FileTypeOK
<1>11. CASE StageRecovery \/ CopyRecovery \/ RefuseReplacement
  BY <1>11 DEF StageRecovery, Refused, CopyRecovery, RefuseReplacement, GiveUp, TypeOK,
       FileTypeOK
<1>12. CASE RecoveryFails \/ StagingFails
  BY <1>12 DEF RecoveryFails, StagingFails, GiveUp, TypeOK, FileTypeOK
<1>13. CASE StageReplacement
  BY <1>13, StageEffect DEF StageReplacement, TypeOK, FileTypeOK
<1>14. CASE MoveDatabase
  BY <1>14 DEF MoveDatabase, Renamed, TypeOK, FileTypeOK
<1>15. CASE MoveArtifacts
  BY <1>15 DEF MoveArtifacts, Renamed, TypeOK, FileTypeOK
<1>16. CASE InstallDatabase
  BY <1>16 DEF InstallDatabase, Renamed, TypeOK, FileTypeOK
<1>17. CASE InstallArtifacts
  BY <1>17 DEF InstallArtifacts, Renamed, TypeOK, FileTypeOK
<1>18. CASE DropDatabase
  BY <1>18, KindFacts, ReapFacts DEF DropDatabase, Renamed, TypeOK, ReplacementOK,
       Replacing, FileTypeOK
<1>19. CASE DropArtifacts
  BY <1>19 DEF DropArtifacts, EndRestore, TypeOK, FileTypeOK
<1>20. CASE ReplacementFails
  BY <1>20, ReapFacts DEF ReplacementFails, RolledBack, EndRestore, TypeOK, FileTypeOK
<1>21. CASE BeginCycle
  BY <1>21 DEF BeginCycle, TypeOK, FileTypeOK
<1>22. CASE Record
  <2> USE <1>22
  <2>1. PICK db, new : Written("worker", db, new) /\ pool' = pool
    BY RecordEffect
  <2> QED BY <2>1 DEF Record, Written, restoring, faults, TypeOK, FileTypeOK
<1>23. CASE EndCycle
  BY <1>23 DEF EndCycle, TypeOK, FileTypeOK
<1>24. ASSUME NEW r \in Run, Capture(r)
      PROVE  FileTypeOK'
  BY <1>24, CaptureEffect DEF Capture, TypeOK, FileTypeOK
<1>25. CASE WebDies
  BY <1>25, ReapFacts DEF WebDies, CloseShared, TypeOK, FileTypeOK
<1>26. CASE WorkerDies
  BY <1>26, ReapFacts, WorkerDiesEffect DEF WorkerDies, CloseShared, TypeOK, FileTypeOK
<1> HIDE DEF IInv, files, restoring, faults
<1> QED BY <1>1, <1>2, <1>3, <1>4, <1>5, <1>6, <1>7, <1>8, <1>9, <1>10, <1>11, <1>12,
         <1>13, <1>14, <1>15, <1>16, <1>17, <1>18, <1>19, <1>20, <1>21, <1>22, <1>23,
         <1>24, <1>25, <1>26 DEF Next, Requests, Maintenance, Restore, Replacement,
         WorkerCycle, Clears, Ends

\* Every step leaves the lock with whom it serves.
LEMMA ControlStep ==
    ASSUME IInv, Next
    PROVE  ControlOK'
<1> USE DEF IInv, files, restoring, faults
<1>1. ASSUME NEW r \in Run, AdmitRun(r)
      PROVE  ControlOK'
  BY <1>1, KindFacts DEF AdmitRun, ControlOK, Replacing
<1>2. ASSUME NEW r \in Run, CreateRun(r)
      PROVE  ControlOK'
  BY <1>2, KindFacts, CreateEffect DEF CreateRun, ControlOK, Replacing, RunMoves
<1>3. ASSUME NEW r \in Run, Decide(r)
      PROVE  ControlOK'
  BY <1>3, KindFacts, DecideEffect DEF Decide, ControlOK, Replacing
<1>4. CASE Monitor
  BY <1>4, KindFacts DEF Monitor, ControlOK, Replacing, TypeOK, Process
<1>5. CASE Snapshot \/ CopyDownload \/ ClearFiles
  BY <1>5, KindFacts DEF Snapshot, CopyDownload, ClearFiles, ControlOK, Replacing
<1>6. CASE RefuseMaintenance \/ BeginCycle
  BY <1>6, KindFacts DEF RefuseMaintenance, MayMaintain, CloseShared, BeginCycle,
       ControlOK, Replacing, TypeOK, Process
<1>7. CASE Clears
  BY <1>7, KindFacts, ClearsEffect DEF CloseShared, ControlOK, Replacing, Process,
       TypeOK
<1>8. CASE Ends
  <2> USE <1>8
  <2>1. PICK p, db, new :
           /\ p \in Process
           /\ Written(p, db, new) /\ RunMoves(db, new, "active", "done")
           /\ p = "web" => web = "idle"
           /\ p = "worker" => lock = "worker" /\ captured = NoRun
           /\ UNCHANGED <<artifacts, next, lock, restoring, archives, probing, captured, faults>>
    BY EndEffect
  <2> QED BY <2>1, KindFacts, FieldFacts, WorkspaceAssumption DEF Written, RunMoves, restoring, faults, ControlOK, Replacing, TypeOK, Process
<1>9. ASSUME NEW u \in archives \cup Defective, BeginRestore(u)
      PROVE  ControlOK'
  BY <1>9, KindFacts DEF BeginRestore, MayMaintain, ControlOK, Replacing, TypeOK,
       ReplacementOK, Process
<1>10. CASE RefuseUpload \/ RefuseReplacement \/ StageReplacement
  BY <1>10, KindFacts DEF RefuseUpload, GiveUp, Refused, RefuseReplacement,
       StageReplacement, ControlOK, Replacing
<1>11. CASE StageRecovery
  BY <1>11, KindFacts DEF StageRecovery, Refused, ControlOK, Replacing, TypeOK,
       Defective
<1>12. CASE CopyRecovery
  BY <1>12, KindFacts, CopiedFacts DEF CopyRecovery, ControlOK, Replacing, TypeOK
<1>13. CASE RecoveryFails \/ StagingFails
  BY <1>13, KindFacts DEF RecoveryFails, StagingFails, GiveUp, ControlOK, Replacing
<1>14. CASE MoveDatabase
  BY <1>14, KindFacts DEF MoveDatabase, Renamed, ControlOK, Replacing
<1>15. CASE MoveArtifacts
  BY <1>15, KindFacts DEF MoveArtifacts, Renamed, ControlOK, Replacing
<1>16. CASE InstallDatabase
  BY <1>16, KindFacts DEF InstallDatabase, Renamed, ControlOK, Replacing
<1>17. CASE InstallArtifacts
  BY <1>17, KindFacts DEF InstallArtifacts, Renamed, ControlOK, Replacing
<1>18. CASE DropDatabase
  BY <1>18, KindFacts DEF DropDatabase, Renamed, ControlOK, Replacing
<1>19. CASE DropArtifacts
  BY <1>19, KindFacts DEF DropArtifacts, EndRestore, ControlOK, Replacing
<1>20. CASE ReplacementFails
  BY <1>20, KindFacts DEF ReplacementFails, RolledBack, EndRestore, ControlOK, Replacing
<1>21. CASE ReleaseDatabases
  BY <1>21, KindFacts DEF ReleaseDatabases, CloseShared, ControlOK, Replacing
<1>22. CASE Record
  <2> USE <1>22
  <2>1. PICK db, new :
                /\ Written("worker", db, new) /\ captured \in Run
                /\ new.rows = db.rows \cup {captured} /\ new.run = db.run
                /\ db.id = pool["worker"] /\ pool' = pool
    BY RecordEffect
  <2> QED BY <2>1, KindFacts, FieldFacts DEF Record, Written, restoring, faults, ControlOK, Replacing, TypeOK, Process
<1>23. CASE EndCycle
  BY <1>23, KindFacts DEF EndCycle, ControlOK, Replacing
<1>24. ASSUME NEW r \in Run, Capture(r)
      PROVE  ControlOK'
  BY <1>24, KindFacts DEF Capture, ControlOK, Replacing
<1>25. CASE WebDies
  BY <1>25, KindFacts DEF WebDies, CloseShared, ControlOK, Replacing, TypeOK, Process
<1>26. CASE WorkerDies
  BY <1>26, KindFacts, WorkerDiesEffect DEF WorkerDies, CloseShared, ControlOK,
       Replacing, TypeOK, Process
<1> HIDE DEF IInv, files, restoring, faults
<1> QED BY <1>1, <1>2, <1>3, <1>4, <1>5, <1>6, <1>7, <1>8, <1>9, <1>10, <1>11, <1>12,
         <1>13, <1>14, <1>15, <1>16, <1>17, <1>18, <1>19, <1>20, <1>21, <1>22, <1>23,
         <1>24, <1>25, <1>26 DEF Next, Requests, Maintenance, Restore, Replacement,
         WorkerCycle, Clears, Ends

\* What has been moved is what the next rename expects.
LEMMA ReplacementStep ==
    ASSUME IInv, Next
    PROVE  ReplacementOK'
<1> USE DEF IInv, files, restoring, faults
<1>1. ASSUME NEW r \in Run, AdmitRun(r)
      PROVE  ReplacementOK'
  BY <1>1, KindFacts DEF AdmitRun, ReplacementOK, Replacing
<1>2. ASSUME NEW r \in Run, CreateRun(r)
      PROVE  ReplacementOK'
  BY <1>2, KindFacts, CreateEffect DEF CreateRun, ReplacementOK, Replacing, RunMoves
<1>3. ASSUME NEW r \in Run, Decide(r)
      PROVE  ReplacementOK'
  BY <1>3, KindFacts, DecideEffect DEF Decide, ReplacementOK, Replacing
<1>4. CASE Monitor
  BY <1>4, KindFacts DEF Monitor, ReplacementOK, Replacing
<1>5. CASE Snapshot \/ CopyDownload \/ RefuseMaintenance
  BY <1>5, KindFacts DEF Snapshot, CopyDownload, RefuseMaintenance, MayMaintain,
       CloseShared, ReplacementOK, Replacing
<1>6. CASE Clears
  BY <1>6, KindFacts, ClearsEffect DEF CloseShared, ReplacementOK, Replacing
<1>7. CASE Ends
  <2> USE <1>7
  <2>1. PICK p, db, new :
           /\ p \in Process
           /\ Written(p, db, new) /\ RunMoves(db, new, "active", "done")
           /\ p = "web" => web = "idle"
           /\ p = "worker" => lock = "worker" /\ captured = NoRun
           /\ UNCHANGED <<artifacts, next, lock, restoring, archives, probing, captured, faults>>
    BY EndEffect
  <2> QED BY <2>1, KindFacts DEF Written, RunMoves, restoring, faults, ReplacementOK, Replacing, ControlOK, HasActive, TypeOK
<1>8. CASE ClearFiles \/ RefuseUpload \/ StageRecovery
  BY <1>8, KindFacts DEF ClearFiles, RefuseUpload, GiveUp, Refused, StageRecovery,
       ReplacementOK, Replacing
<1>9. ASSUME NEW u \in archives \cup Defective, BeginRestore(u)
      PROVE  ReplacementOK'
  BY <1>9, KindFacts DEF BeginRestore, MayMaintain, ReplacementOK, Replacing
<1>10. CASE CopyRecovery
  BY <1>10, KindFacts DEF CopyRecovery, ReplacementOK, Replacing, TypeOK
<1>11. CASE RecoveryFails \/ StagingFails
  BY <1>11, KindFacts DEF RecoveryFails, StagingFails, GiveUp, ReplacementOK, Replacing, ControlOK
<1>12. CASE RefuseReplacement \/ BeginCycle \/ ReleaseDatabases
  BY <1>12, KindFacts DEF RefuseReplacement, GiveUp, BeginCycle, ReleaseDatabases,
       CloseShared, ReplacementOK, Replacing
<1>13. CASE StageReplacement
  BY <1>13, KindFacts, StageEffect DEF StageReplacement, ReplacementOK, Replacing,
       ControlOK
<1>14. CASE MoveDatabase
  BY <1>14, KindFacts DEF MoveDatabase, Renamed, ReplacementOK, Replacing
<1>15. CASE MoveArtifacts
  BY <1>15, KindFacts DEF MoveArtifacts, Renamed, ReplacementOK, Replacing
<1>16. CASE InstallDatabase
  BY <1>16, KindFacts DEF InstallDatabase, Renamed, ReplacementOK, Replacing
<1>17. CASE InstallArtifacts
  BY <1>17, KindFacts DEF InstallArtifacts, Renamed, ReplacementOK, Replacing
<1>18. CASE DropDatabase
  BY <1>18, KindFacts DEF DropDatabase, Renamed, ReplacementOK, Replacing
<1>19. CASE DropArtifacts
  BY <1>19, KindFacts DEF DropArtifacts, EndRestore, ReplacementOK, Replacing
<1>20. CASE ReplacementFails
  BY <1>20, KindFacts DEF ReplacementFails, RolledBack, EndRestore, ReplacementOK,
       Replacing
<1>21. CASE Record
  <2> USE <1>21
  <2>1. PICK db, new :
                /\ Written("worker", db, new) /\ captured \in Run
                /\ new.rows = db.rows \cup {captured} /\ new.run = db.run
                /\ db.id = pool["worker"] /\ pool' = pool
    BY RecordEffect
  <2> QED BY <2>1, KindFacts DEF Record, Written, restoring, faults, ReplacementOK, Replacing, ControlOK
<1>22. CASE EndCycle
  BY <1>22, KindFacts DEF EndCycle, ReplacementOK, Replacing
<1>23. ASSUME NEW r \in Run, Capture(r)
      PROVE  ReplacementOK'
  BY <1>23, KindFacts DEF Capture, ReplacementOK, Replacing, ControlOK
<1>24. CASE WebDies
  BY <1>24, KindFacts DEF WebDies, CloseShared, ReplacementOK, Replacing
<1>25. CASE WorkerDies
  BY <1>25, KindFacts, WorkerDiesEffect DEF WorkerDies, CloseShared, ReplacementOK,
       Replacing
<1> HIDE DEF IInv, files, restoring, faults
<1> QED BY <1>1, <1>2, <1>3, <1>4, <1>5, <1>6, <1>7, <1>8, <1>9, <1>10, <1>11, <1>12,
         <1>13, <1>14, <1>15, <1>16, <1>17, <1>18, <1>19, <1>20, <1>21, <1>22, <1>23,
         <1>24, <1>25 DEF Next, Requests, Maintenance, Restore, Replacement,
         WorkerCycle, Clears, Ends

\* A database that is made or installed has an identity of its own.
LEMMA FilesStep ==
    ASSUME IInv, Next
    PROVE  FilesOK'
<1> USE DEF IInv, files, restoring, faults
<1>1. ASSUME NEW r \in Run, AdmitRun(r)
      PROVE  FilesOK'
  BY <1>1, KindFacts, FieldFacts DEF AdmitRun, FilesOK
<1>2. ASSUME NEW r \in Run, CreateRun(r)
      PROVE  FilesOK'
  BY <1>2, KindFacts, CreateEffect DEF CreateRun, FilesOK, RunMoves
<1>3. ASSUME NEW r \in Run, Decide(r)
      PROVE  FilesOK'
  BY <1>3, KindFacts, DecideEffect DEF Decide, FilesOK
<1>4. CASE Monitor
  BY <1>4, KindFacts, FieldFacts DEF Monitor, FilesOK
<1>5. CASE Snapshot \/ CopyDownload \/ ClearFiles
  BY <1>5, KindFacts, FieldFacts DEF Snapshot, CopyDownload, ClearFiles, FilesOK
<1>6. CASE RefuseMaintenance \/ ReleaseDatabases
  BY <1>6, KindFacts, ReapFacts DEF RefuseMaintenance, MayMaintain, CloseShared,
       ReleaseDatabases, FilesOK
<1>7. CASE Clears
  BY <1>7, KindFacts, ClearsEffect, ReapFacts DEF CloseShared, FilesOK
<1>8. CASE Ends
  <2> USE <1>8
  <2>1. PICK p, db, new :
           /\ p \in Process
           /\ Written(p, db, new) /\ RunMoves(db, new, "active", "done")
           /\ p = "web" => web = "idle"
           /\ p = "worker" => lock = "worker" /\ captured = NoRun
           /\ UNCHANGED <<artifacts, next, lock, restoring, archives, probing, captured, faults>>
    BY EndEffect
  <2> QED BY <2>1, KindFacts, FieldFacts DEF Written, RunMoves, restoring, faults, FilesOK
<1>9. ASSUME NEW u \in archives \cup Defective, BeginRestore(u)
      PROVE  FilesOK'
  BY <1>9, KindFacts, ReapFacts DEF BeginRestore, MayMaintain, FilesOK
<1>10. CASE RefuseUpload \/ StageRecovery \/ CopyRecovery
  BY <1>10, KindFacts, FieldFacts DEF RefuseUpload, GiveUp, Refused, StageRecovery,
       CopyRecovery, FilesOK
<1>11. CASE RecoveryFails \/ StagingFails
  BY <1>11, KindFacts, FieldFacts DEF RecoveryFails, StagingFails, GiveUp, FilesOK
<1>12. CASE RefuseReplacement \/ BeginCycle
  BY <1>12, KindFacts, FieldFacts DEF RefuseReplacement, GiveUp, BeginCycle, FilesOK
<1>13. CASE StageReplacement
  <2> USE <1>13
  <2>1. \A id \in 1..MaxId : id <= lastId => id <= lastId' /\ id # lastId'
    <3>1. lastId \in Nat /\ lastId' = lastId + 1
      BY WorkspaceAssumption, StageEffect DEF TypeOK
    <3> QED BY <3>1
  <2>2. /\ database # None => database.id \in 1..MaxId
        /\ aside.db # None => aside.db.id \in 1..MaxId
        /\ \A u \in unlinked : u.id \in 1..MaxId
    BY FieldFacts DEF TypeOK
  <2>3. next'.db.id = lastId' /\ lastId' <= lastId' /\ UNCHANGED <<database, aside, unlinked>>
    BY StageEffect DEF StageReplacement
  <2> QED BY <2>1, <2>2, <2>3, KindFacts DEF FilesOK
<1>14. CASE MoveDatabase
  BY <1>14, KindFacts, FieldFacts DEF MoveDatabase, Renamed, FilesOK
<1>15. CASE MoveArtifacts
  BY <1>15, KindFacts, FieldFacts DEF MoveArtifacts, Renamed, FilesOK
<1>16. CASE InstallDatabase
  BY <1>16, KindFacts, FieldFacts DEF InstallDatabase, Renamed, FilesOK
<1>17. CASE InstallArtifacts
  BY <1>17, KindFacts, FieldFacts DEF InstallArtifacts, Renamed, FilesOK
<1>18. CASE DropDatabase
  BY <1>18, KindFacts, ReapFacts DEF DropDatabase, Renamed, FilesOK, ReplacementOK,
       Replacing
<1>19. CASE DropArtifacts
  BY <1>19, KindFacts, FieldFacts DEF DropArtifacts, EndRestore, FilesOK
<1>20. CASE ReplacementFails
  BY <1>20, KindFacts, ReapFacts DEF ReplacementFails, RolledBack, EndRestore, FilesOK,
       ReplacementOK
<1>21. CASE Record
  <2> USE <1>21
  <2>1. PICK db, new :
                /\ Written("worker", db, new) /\ captured \in Run
                /\ new.rows = db.rows \cup {captured} /\ new.run = db.run
                /\ db.id = pool["worker"] /\ pool' = pool
    BY RecordEffect
  <2> QED BY <2>1, KindFacts, FieldFacts DEF Record, Written, restoring, faults, FilesOK
<1>22. CASE EndCycle
  BY <1>22, KindFacts, FieldFacts DEF EndCycle, FilesOK
<1>23. ASSUME NEW r \in Run, Capture(r)
      PROVE  FilesOK'
  BY <1>23, KindFacts, FieldFacts DEF Capture, FilesOK
<1>24. CASE WebDies
  BY <1>24, KindFacts, ReapFacts DEF WebDies, CloseShared, FilesOK
<1>25. CASE WorkerDies
  <2> USE <1>25
  <2>2. /\ aside.db # None => aside.db.id \in 1..MaxId
        /\ next.db # None => next.db.id \in 1..MaxId
        /\ \A u \in unlinked : u.id \in 1..MaxId
    BY FieldFacts DEF TypeOK
  <2>3. UNCHANGED <<aside, next>> /\ unlinked' \subseteq unlinked
    BY ReapFacts DEF WorkerDies, CloseShared
  <2>4. CASE database' = database /\ lastId' = lastId
    BY <2>3, <2>4 DEF FilesOK
  <2>5. CASE ~(database' = database /\ lastId' = lastId)
    <3>1. database = None /\ database'.id = lastId' /\ lastId' = lastId + 1 /\ lastId \in Nat
      BY <2>5, WorkerDiesEffect, WorkspaceAssumption DEF TypeOK
    <3>2. \A id \in 1..MaxId : id <= lastId => id <= lastId' /\ id # lastId'
      BY <3>1
    <3>3. lastId' <= lastId'
      BY <3>1
    <3> QED BY <2>2, <2>3, <3>1, <3>2, <3>3 DEF FilesOK
  <2> QED BY <2>4, <2>5
<1> HIDE DEF IInv, files, restoring, faults
<1> QED BY <1>1, <1>2, <1>3, <1>4, <1>5, <1>6, <1>7, <1>8, <1>9, <1>10, <1>11, <1>12,
         <1>13, <1>14, <1>15, <1>16, <1>17, <1>18, <1>19, <1>20, <1>21, <1>22, <1>23,
         <1>24, <1>25 DEF Next, Requests, Maintenance, Restore, Replacement,
         WorkerCycle, Clears, Ends

\* A handle never loses its file: what is replaced stays until it is closed.
LEMMA HandlesStep ==
    ASSUME IInv, Next
    PROVE  HandlesOK'
<1> USE DEF IInv, files, restoring, faults
<1>1. ASSUME NEW r \in Run, AdmitRun(r)
      PROVE  HandlesOK'
  BY <1>1, KindFacts DEF AdmitRun, HandlesOK
<1>2. ASSUME NEW r \in Run, CreateRun(r)
      PROVE  HandlesOK'
  BY <1>2, KindFacts, CreateEffect DEF CreateRun, HandlesOK, RunMoves
<1>3. ASSUME NEW r \in Run, Decide(r)
      PROVE  HandlesOK'
  BY <1>3, KindFacts, DecideEffect DEF Decide, HandlesOK
<1>4. CASE Monitor
  BY <1>4, KindFacts DEF Monitor, HandlesOK, Handle, TypeOK, Process
<1>5. CASE Snapshot \/ CopyDownload \/ ClearFiles
  BY <1>5, KindFacts DEF Snapshot, CopyDownload, ClearFiles, HandlesOK
<1>6. CASE RefuseMaintenance
  <2> USE <1>6
  <2>0. database # None => database.id # 0
  BY FieldFacts DEF TypeOK
  <2>1. HandlesOK'
  BY <2>0, CloseEffect DEF RefuseMaintenance, restoring, Process, HandlesOK
  <2> QED BY <2>1
<1>7. CASE Clears
  BY <1>7, KindFacts, ClearsEffect DEF CloseShared, HandlesOK, Reap, TypeOK, Process
<1>8. CASE Ends
  <2> USE <1>8
  <2>1. PICK p, db, new :
           /\ p \in Process
           /\ Written(p, db, new) /\ RunMoves(db, new, "active", "done")
           /\ p = "web" => web = "idle"
           /\ p = "worker" => lock = "worker" /\ captured = NoRun
           /\ UNCHANGED <<artifacts, next, lock, restoring, archives, probing, captured, faults>>
    BY EndEffect
  <2>2. \A q \in Process : pool'[q] # 0 => pool'[q] \in {pool[q], db.id}
    BY <2>1 DEF Written, TypeOK
  <2>3. /\ database # None => database' # None /\ database'.id = database.id
        /\ aside.db # None => aside'.db # None /\ aside'.db.id = aside.db.id
        /\ \A u \in unlinked : \E v \in unlinked' : v.id = u.id
    BY <2>1, KindFacts DEF Written
  <2>4. \/ database' # None /\ database'.id = db.id
        \/ aside'.db # None /\ aside'.db.id = db.id
        \/ \E v \in unlinked' : v.id = db.id
    BY <2>1, KindFacts DEF Written
  <2>5. web' = web /\ web \notin {"moveArtifacts", "installDatabase"}
    BY <2>1 DEF restoring, ControlOK, Replacing, Process
  <2> QED BY <2>2, <2>3, <2>4, <2>5 DEF HandlesOK
<1>9. ASSUME NEW u \in archives \cup Defective, BeginRestore(u)
      PROVE  HandlesOK'
  BY <1>9, KindFacts DEF BeginRestore, MayMaintain, HandlesOK, Reap, TypeOK, Process
<1>10. CASE RefuseUpload \/ StageRecovery \/ CopyRecovery
  BY <1>10, KindFacts DEF RefuseUpload, GiveUp, Refused, StageRecovery, CopyRecovery,
       HandlesOK
<1>11. CASE RecoveryFails \/ StagingFails
  BY <1>11, KindFacts DEF RecoveryFails, StagingFails, GiveUp, HandlesOK
<1>12. CASE RefuseReplacement
  BY <1>12, KindFacts DEF RefuseReplacement, GiveUp, HandlesOK
<1>13. CASE StageReplacement
  BY <1>13, KindFacts, StageEffect DEF StageReplacement, HandlesOK, ControlOK, TypeOK
<1>14. CASE MoveDatabase
  BY <1>14, KindFacts DEF MoveDatabase, Renamed, HandlesOK, FilesOK, ReplacementOK,
       Replacing
<1>15. CASE MoveArtifacts
  BY <1>15, KindFacts DEF MoveArtifacts, Renamed, HandlesOK
<1>16. CASE InstallDatabase
  BY <1>16, KindFacts DEF InstallDatabase, Renamed, HandlesOK, FilesOK, ReplacementOK,
       Replacing
<1>17. CASE InstallArtifacts
  BY <1>17, KindFacts DEF InstallArtifacts, Renamed, HandlesOK
<1>18. CASE DropDatabase
  BY <1>18, KindFacts DEF DropDatabase, Renamed, HandlesOK, Reap, ReplacementOK,
       Replacing
<1>19. CASE DropArtifacts
  BY <1>19, KindFacts DEF DropArtifacts, EndRestore, HandlesOK
<1>20. CASE ReplacementFails
  BY <1>20, KindFacts DEF ReplacementFails, RolledBack, EndRestore, HandlesOK, Reap,
       ReplacementOK, Replacing
<1>21. CASE BeginCycle
  BY <1>21, KindFacts DEF BeginCycle, HandlesOK, Handle, TypeOK, Process, ControlOK,
       Replacing
<1>22. CASE ReleaseDatabases
  <2> USE <1>22
  <2>0. database # None => database.id # 0
  BY FieldFacts DEF TypeOK
  <2>1. HandlesOK'
  BY <2>0, CloseEffect DEF ReleaseDatabases, restoring, Process, HandlesOK
  <2> QED BY <2>1
<1>23. CASE Record
  <2> USE <1>23
  <2>1. PICK db, new :
                /\ Written("worker", db, new) /\ captured \in Run
                /\ new.rows = db.rows \cup {captured} /\ new.run = db.run
                /\ db.id = pool["worker"] /\ pool' = pool
    BY RecordEffect
  <2> QED BY <2>1, KindFacts, FieldFacts DEF Record, Written, restoring, faults, HandlesOK, TypeOK, Handle, FilesOK, Process
<1>24. CASE EndCycle
  BY <1>24, KindFacts DEF EndCycle, HandlesOK
<1>25. ASSUME NEW r \in Run, Capture(r)
      PROVE  HandlesOK'
  BY <1>25, KindFacts DEF Capture, HandlesOK
<1>26. CASE WebDies
  <2> USE <1>26
  <2>1. HandlesOK'
  BY CloseEffect DEF WebDies, restoring, Process, HandlesOK
  <2> QED BY <2>1
<1>27. CASE WorkerDies
  <2> USE <1>27
  <2>1. database # None => database' # None /\ database'.id = database.id
  BY WorkerDiesEffect
  <2>3. database = None => database' = None \/ database'.id = lastId'
  BY WorkerDiesEffect
  <2>4. \A q \in Process : pool[q] \in 0..MaxId
  BY DEF TypeOK
  <2>5. \A q \in Process : database = None /\ database' # None => pool[q] # lastId'
    <3> SUFFICES ASSUME NEW q \in Process, database = None, database' # None, pool[q] = lastId' PROVE FALSE
      OBVIOUS
    <3>1. lastId' = lastId + 1 /\ lastId \in Nat /\ pool[q] # 0
      BY WorkerDiesEffect, WorkspaceAssumption DEF TypeOK
    <3>2. ~(pool[q] <= lastId)
      BY <3>1
    <3> QED BY <3>1, <3>2 DEF HandlesOK, FilesOK
  <2>6. database # None => database.id # 0
  BY FieldFacts DEF TypeOK
  <2>7. database = None /\ database' # None => lastId' # 0
  BY WorkerDiesEffect
  <2> QED BY <2>1, <2>3, <2>5, <2>6, <2>7, CloseEffect DEF WorkerDies, restoring, Process, HandlesOK
<1> HIDE DEF IInv, files, restoring, faults
<1> QED BY <1>1, <1>2, <1>3, <1>4, <1>5, <1>6, <1>7, <1>8, <1>9, <1>10, <1>11, <1>12,
         <1>13, <1>14, <1>15, <1>16, <1>17, <1>18, <1>19, <1>20, <1>21, <1>22, <1>23,
         <1>24, <1>25, <1>26, <1>27 DEF Next, Requests, Maintenance, Restore,
         Replacement, WorkerCycle, Clears, Ends

\* No step leaves rows of a run that is gone.
LEMMA RowsStep ==
    ASSUME IInv, Next
    PROVE  RowsOK'
<1> USE DEF IInv, files, restoring, faults
<1>1. ASSUME NEW r \in Run, AdmitRun(r)
      PROVE  RowsOK'
  BY <1>1, KindFacts DEF AdmitRun, RowsOK
<1>2. ASSUME NEW r \in Run, CreateRun(r)
      PROVE  RowsOK'
  BY <1>2, KindFacts, CreateEffect, FieldFacts DEF CreateRun, RowsOK, RunMoves,
       RowsHaveRuns, TypeOK
<1>3. ASSUME NEW r \in Run, Decide(r)
      PROVE  RowsOK'
  BY <1>3, KindFacts, DecideEffect DEF Decide, RowsOK, RowsHaveRuns
<1>4. CASE Monitor
  BY <1>4, KindFacts DEF Monitor, RowsOK
<1>5. CASE Snapshot \/ ClearFiles \/ RefuseUpload
  BY <1>5, KindFacts DEF Snapshot, ClearFiles, RefuseUpload, GiveUp, Refused, RowsOK
<1>6. CASE CopyDownload
  BY <1>6, KindFacts, CopiedFacts DEF CopyDownload, RowsOK, ControlOK
<1>7. CASE RefuseMaintenance \/ ReleaseDatabases
  BY <1>7, KindFacts, ReapFacts DEF RefuseMaintenance, MayMaintain, CloseShared,
       ReleaseDatabases, RowsOK
<1>8. CASE Clears
  BY <1>8, KindFacts, ClearsEffect, CloseEffect, FieldFacts DEF CloseShared, RowsOK,
       Process, RowsHaveRuns
<1>9. CASE Ends
  <2> USE <1>9
  <2>1. PICK p, db, new :
           /\ p \in Process
           /\ Written(p, db, new) /\ RunMoves(db, new, "active", "done")
           /\ p = "web" => web = "idle"
           /\ p = "worker" => lock = "worker" /\ captured = NoRun
           /\ UNCHANGED <<artifacts, next, lock, restoring, archives, probing, captured, faults>>
    BY EndEffect
  <2>3. RowsHaveRuns(db) => RowsHaveRuns(new)
    BY <2>1, FieldFacts DEF RowsHaveRuns, Written, RunMoves
  <2> QED BY <2>1, <2>3, KindFacts DEF Written, restoring, faults, RowsOK
<1>10. ASSUME NEW u \in archives \cup Defective, BeginRestore(u)
      PROVE  RowsOK'
  BY <1>10, KindFacts, ReapFacts DEF BeginRestore, MayMaintain, RowsOK
<1>11. CASE StageRecovery \/ CopyRecovery \/ RefuseReplacement
  BY <1>11, KindFacts DEF StageRecovery, Refused, CopyRecovery, RefuseReplacement,
       GiveUp, RowsOK
<1>12. CASE RecoveryFails \/ StagingFails
  BY <1>12, KindFacts DEF RecoveryFails, StagingFails, GiveUp, RowsOK
<1>13. CASE StageReplacement
  BY <1>13, KindFacts, StageEffect DEF StageReplacement, RowsOK, ControlOK, RowsHaveRuns
<1>14. CASE MoveDatabase
  BY <1>14, KindFacts DEF MoveDatabase, Renamed, RowsOK
<1>15. CASE MoveArtifacts
  BY <1>15, KindFacts DEF MoveArtifacts, Renamed, RowsOK
<1>16. CASE InstallDatabase
  BY <1>16, KindFacts DEF InstallDatabase, Renamed, RowsOK
<1>17. CASE InstallArtifacts
  BY <1>17, KindFacts DEF InstallArtifacts, Renamed, RowsOK
<1>18. CASE DropDatabase
  BY <1>18, KindFacts, ReapFacts DEF DropDatabase, Renamed, RowsOK, ReplacementOK,
       Replacing
<1>19. CASE DropArtifacts
  BY <1>19, KindFacts DEF DropArtifacts, EndRestore, RowsOK
<1>20. CASE ReplacementFails
  BY <1>20, KindFacts, ReapFacts DEF ReplacementFails, RolledBack, EndRestore, RowsOK,
       ReplacementOK
<1>21. CASE BeginCycle
  BY <1>21, KindFacts DEF BeginCycle, RowsOK
<1>22. CASE Record
  <2> USE <1>22
  <2>1. PICK db, new :
                /\ Written("worker", db, new) /\ captured \in Run
                /\ new.rows = db.rows \cup {captured} /\ new.run = db.run
                /\ db.id = pool["worker"] /\ pool' = pool
    BY RecordEffect
  <2>2. new.run[captured] # "absent"
    BY <2>1, KindFacts DEF CapturedOK, Written, Record
  <2>3. RowsHaveRuns(db) => RowsHaveRuns(new)
    BY <2>1, <2>2, FieldFacts DEF RowsHaveRuns, Written
  <2> QED BY <2>1, <2>3, KindFacts DEF Record, Written, restoring, faults, RowsOK
<1>23. CASE EndCycle
  BY <1>23, KindFacts DEF EndCycle, RowsOK
<1>24. ASSUME NEW r \in Run, Capture(r)
      PROVE  RowsOK'
  BY <1>24, KindFacts DEF Capture, RowsOK
<1>25. CASE WebDies
  BY <1>25, KindFacts, ReapFacts DEF WebDies, CloseShared, RowsOK
<1>26. CASE WorkerDies
  BY <1>26, KindFacts, WorkerDiesEffect, ReapFacts DEF WorkerDies, CloseShared, RowsOK,
       RowsHaveRuns
<1> HIDE DEF IInv, files, restoring, faults
<1> QED BY <1>1, <1>2, <1>3, <1>4, <1>5, <1>6, <1>7, <1>8, <1>9, <1>10, <1>11, <1>12,
         <1>13, <1>14, <1>15, <1>16, <1>17, <1>18, <1>19, <1>20, <1>21, <1>22, <1>23,
         <1>24, <1>25, <1>26 DEF Next, Requests, Maintenance, Restore, Replacement,
         WorkerCycle, Clears, Ends

\* The worker's screenshot stays until it is recorded, or the worker dies.
LEMMA CapturedStep ==
    ASSUME IInv, Next
    PROVE  CapturedOK'
<1> USE DEF IInv, files, restoring, faults
<1>1. ASSUME NEW r \in Run, AdmitRun(r)
      PROVE  CapturedOK'
  BY <1>1, KindFacts DEF AdmitRun, CapturedOK, ControlOK
<1>2. ASSUME NEW r \in Run, CreateRun(r)
      PROVE  CapturedOK'
  BY <1>2, KindFacts, CreateEffect DEF CreateRun, CapturedOK, ControlOK, RunMoves,
       TypeOK
<1>3. ASSUME NEW r \in Run, Decide(r)
      PROVE  CapturedOK'
  BY <1>3, KindFacts, DecideEffect DEF Decide, CapturedOK, ControlOK
<1>4. CASE Monitor
  BY <1>4, KindFacts DEF Monitor, CapturedOK, ControlOK
<1>5. CASE Snapshot \/ CopyDownload \/ ClearFiles
  BY <1>5, KindFacts DEF Snapshot, CopyDownload, ClearFiles, CapturedOK, ControlOK
<1>6. CASE RefuseMaintenance
  BY <1>6, KindFacts, ReapFacts DEF RefuseMaintenance, MayMaintain, CloseShared,
       CapturedOK, ControlOK
<1>7. CASE Clears
  BY <1>7, KindFacts, ClearsEffect, CloseEffect, FieldFacts DEF CloseShared, CapturedOK,
       ControlOK, Process
<1>8. CASE Ends
  <2> USE <1>8
  <2>1. PICK p, db, new :
           /\ p \in Process
           /\ Written(p, db, new) /\ RunMoves(db, new, "active", "done")
           /\ p = "web" => web = "idle"
           /\ p = "worker" => lock = "worker" /\ captured = NoRun
           /\ UNCHANGED <<artifacts, next, lock, restoring, archives, probing, captured, faults>>
    BY EndEffect
  <2> QED BY <2>1, KindFacts DEF Written, RunMoves, restoring, faults, CapturedOK, TypeOK
<1>9. ASSUME NEW u \in archives \cup Defective, BeginRestore(u)
      PROVE  CapturedOK'
  BY <1>9, KindFacts DEF BeginRestore, MayMaintain, CapturedOK, ControlOK
<1>10. CASE RefuseUpload \/ StageRecovery \/ CopyRecovery
  BY <1>10, KindFacts DEF RefuseUpload, GiveUp, Refused, StageRecovery, CopyRecovery,
       CapturedOK, ControlOK
<1>11. CASE RecoveryFails \/ StagingFails
  BY <1>11, KindFacts DEF RecoveryFails, StagingFails, GiveUp, CapturedOK, ControlOK
<1>12. CASE RefuseReplacement \/ BeginCycle \/ Record
  BY <1>12, KindFacts DEF RefuseReplacement, GiveUp, BeginCycle, Record, CapturedOK,
       ControlOK
<1>13. CASE StageReplacement
  BY <1>13, KindFacts, StageEffect DEF StageReplacement, CapturedOK, ControlOK,
       RowsHaveRuns
<1>14. CASE MoveDatabase
  BY <1>14, KindFacts, ReapFacts DEF MoveDatabase, Renamed, CapturedOK, ControlOK,
       ReplacementOK, Replacing
<1>15. CASE MoveArtifacts
  BY <1>15, KindFacts, ReapFacts DEF MoveArtifacts, Renamed, CapturedOK, ControlOK,
       ReplacementOK, Replacing
<1>16. CASE InstallDatabase
  BY <1>16, KindFacts, ReapFacts DEF InstallDatabase, Renamed, CapturedOK, ControlOK,
       ReplacementOK, Replacing
<1>17. CASE InstallArtifacts
  BY <1>17, KindFacts, ReapFacts DEF InstallArtifacts, Renamed, CapturedOK, ControlOK,
       ReplacementOK, Replacing
<1>18. CASE DropDatabase
  BY <1>18, KindFacts, ReapFacts DEF DropDatabase, Renamed, CapturedOK, ControlOK,
       ReplacementOK, Replacing
<1>19. CASE DropArtifacts
  BY <1>19, KindFacts, ReapFacts DEF DropArtifacts, EndRestore, CapturedOK, ControlOK,
       Replacing
<1>20. CASE ReplacementFails
  BY <1>20, KindFacts, ReapFacts DEF ReplacementFails, RolledBack, EndRestore,
       CapturedOK, ControlOK, ReplacementOK, Replacing
<1>21. CASE ReleaseDatabases
  BY <1>21, KindFacts, ReapFacts DEF ReleaseDatabases, CloseShared, CapturedOK,
       ControlOK
<1>22. CASE EndCycle
  BY <1>22, KindFacts DEF EndCycle, CapturedOK, ControlOK
<1>23. ASSUME NEW r \in Run, Capture(r)
      PROVE  CapturedOK'
  <2> USE <1>23
  <2>1. /\ lock = "worker" /\ "worker" \in Process /\ pool["worker"] # 0
        /\ Handle("worker") = pool["worker"] /\ captured' = r /\ r \in FilesIn(artifacts')
        /\ UNCHANGED <<database, aside, unlinked, pool, lock>>
    BY CaptureEffect DEF Capture, ControlOK, Handle, Process
  <2> DEFINE db == FileOf(Handle("worker"))
  <2>2. /\ db.id = pool["worker"] /\ db.run[r] = "active"
        /\ database # None /\ database.id = db.id => database = db
        /\ aside.db # None /\ aside.db.id = db.id => aside.db = db
        /\ \A u \in unlinked : u.id = db.id => u = db
    BY <2>1, FileFacts DEF Capture
  <2> HIDE DEF db
  <2>3. aside.db # None => aside.db.id # pool["worker"]
    BY <2>2 DEF SavedOK, HasActive
  <2> QED BY <2>1, <2>2, <2>3 DEF CapturedOK
<1>24. CASE WebDies
  BY <1>24, KindFacts, ReapFacts DEF WebDies, CloseShared, CapturedOK, ControlOK,
       TypeOK, Process
<1>25. CASE WorkerDies
  BY <1>25, KindFacts DEF WorkerDies, CloseShared, CapturedOK, ControlOK
<1> HIDE DEF IInv, files, restoring, faults
<1> QED BY <1>1, <1>2, <1>3, <1>4, <1>5, <1>6, <1>7, <1>8, <1>9, <1>10, <1>11, <1>12,
         <1>13, <1>14, <1>15, <1>16, <1>17, <1>18, <1>19, <1>20, <1>21, <1>22, <1>23,
         <1>24, <1>25 DEF Next, Requests, Maintenance, Restore, Replacement,
         WorkerCycle, Clears, Ends

\* The workspace stays whole, in the place where a replacement has put it.
LEMMA WholeStep ==
    ASSUME IInv, Next
    PROVE  WholeOK'
<1> USE DEF IInv, files, restoring, faults
<1>1. ASSUME NEW r \in Run, AdmitRun(r)
      PROVE  WholeOK'
  BY <1>1, KindFacts DEF AdmitRun, WholeOK, Whole
<1>2. ASSUME NEW r \in Run, CreateRun(r)
      PROVE  WholeOK'
  BY <1>2, KindFacts, CreateEffect DEF CreateRun, WholeOK, Whole, RunMoves, Replacing
<1>3. ASSUME NEW r \in Run, Decide(r)
      PROVE  WholeOK'
  BY <1>3, KindFacts, DecideEffect DEF Decide, WholeOK, Whole, Replacing
<1>4. CASE Monitor
  BY <1>4, KindFacts DEF Monitor, WholeOK, Whole, Process, TypeOK, Replacing
<1>5. CASE Snapshot \/ CopyDownload \/ RefuseUpload
  BY <1>5, KindFacts DEF Snapshot, CopyDownload, RefuseUpload, GiveUp, Refused, WholeOK,
       Whole, Replacing
<1>6. CASE RefuseMaintenance \/ ReleaseDatabases
  BY <1>6, KindFacts DEF RefuseMaintenance, MayMaintain, CloseShared, ReleaseDatabases,
       WholeOK, Whole, TypeOK, Process
<1>7. CASE Clears
  BY <1>7, KindFacts, ClearsEffect DEF CloseShared, WholeOK, Whole, Process, TypeOK,
       Replacing
<1>8. CASE Ends
  <2> USE <1>8
  <2>1. PICK p, db, new :
           /\ p \in Process
           /\ Written(p, db, new) /\ RunMoves(db, new, "active", "done")
           /\ p = "web" => web = "idle"
           /\ p = "worker" => lock = "worker" /\ captured = NoRun
           /\ UNCHANGED <<artifacts, next, lock, restoring, archives, probing, captured, faults>>
    BY EndEffect
  <2>2. web' = web /\ web \notin Replacing /\ damaged' = damaged /\ artifacts' = artifacts
    BY <2>1 DEF restoring, faults, ControlOK, Replacing, Process
  <2>3. pool'["worker"] = pool["worker"]
    BY <2>1 DEF Written, TypeOK, Process, ControlOK, Handle
  <2>4. database # None => /\ database' # None /\ database'.id = database.id
                           /\ database'.rows = database.rows
    BY <2>1, KindFacts DEF Written, RunMoves
  <2> QED BY <2>2, <2>3, <2>4 DEF WholeOK, Whole, Replacing
<1>9. CASE ClearFiles
  BY <1>9, KindFacts, ClearFilesEffect, DirectoryFacts DEF ClearFiles, WholeOK, Whole,
       ControlOK, Replacing
<1>10. ASSUME NEW u \in archives \cup Defective, BeginRestore(u)
      PROVE  WholeOK'
  BY <1>10, KindFacts DEF BeginRestore, MayMaintain, WholeOK, Whole, Replacing, TypeOK,
       Process
<1>11. CASE StageRecovery \/ CopyRecovery \/ RefuseReplacement
  BY <1>11, KindFacts DEF StageRecovery, Refused, CopyRecovery, RefuseReplacement,
       GiveUp, WholeOK, Whole, Replacing
<1>12. CASE RecoveryFails \/ StagingFails
  BY <1>12, KindFacts DEF RecoveryFails, StagingFails, GiveUp, WholeOK, Whole, Replacing
<1>13. CASE StageReplacement
  BY <1>13, KindFacts, StageEffect DEF StageReplacement, WholeOK, Whole, Replacing,
       ArchivesOK
<1>14. CASE MoveDatabase
  BY <1>14, KindFacts DEF MoveDatabase, Renamed, WholeOK, Whole, Replacing
<1>15. CASE MoveArtifacts
  BY <1>15, KindFacts DEF MoveArtifacts, Renamed, WholeOK, Whole, Replacing,
       ReplacementOK
<1>16. CASE InstallDatabase
  BY <1>16, KindFacts DEF InstallDatabase, Renamed, WholeOK, Whole, Replacing,
       ReplacementOK
<1>17. CASE InstallArtifacts
  BY <1>17, KindFacts, DirectoryFacts DEF InstallArtifacts, Renamed, WholeOK, Whole,
       Replacing, ReplacementOK, TypeOK
<1>18. CASE DropDatabase
  BY <1>18, KindFacts DEF DropDatabase, Renamed, WholeOK, Whole, Replacing,
       ReplacementOK
<1>19. CASE DropArtifacts
  BY <1>19, KindFacts DEF DropArtifacts, EndRestore, WholeOK, Whole, Replacing,
       ReplacementOK
<1>20. CASE ReplacementFails
  BY <1>20, KindFacts DEF ReplacementFails, RolledBack, EndRestore, WholeOK, Whole,
       Replacing, ReplacementOK
<1>21. CASE BeginCycle
  BY <1>21, KindFacts DEF BeginCycle, WholeOK, Whole, Process, TypeOK, Replacing,
       Handle, ControlOK
<1>22. CASE Record
  <2> USE <1>22
  <2>1. PICK db, new :
                /\ Written("worker", db, new) /\ captured \in Run
                /\ new.rows = db.rows \cup {captured} /\ new.run = db.run
                /\ db.id = pool["worker"] /\ pool' = pool
    BY RecordEffect
  <2> QED BY <2>1, KindFacts DEF Record, Written, restoring, faults, WholeOK, Whole, TypeOK, Process, ControlOK, Replacing, CapturedOK
<1>23. CASE EndCycle
  BY <1>23, KindFacts DEF EndCycle, WholeOK, Whole
<1>24. ASSUME NEW r \in Run, Capture(r)
      PROVE  WholeOK'
  BY <1>24, KindFacts, CaptureEffect DEF Capture, WholeOK, Whole, ControlOK, Replacing
<1>25. CASE WebDies
  BY <1>25, KindFacts DEF WebDies, CloseShared, WholeOK, Whole, Replacing,
       ReplacementOK, TypeOK, Process
<1>26. CASE WorkerDies
  BY <1>26, KindFacts, WorkerDiesEffect DEF WorkerDies, CloseShared, WholeOK, Whole,
       TypeOK, Process, Replacing, ReplacementOK
<1> HIDE DEF IInv, files, restoring, faults
<1> QED BY <1>1, <1>2, <1>3, <1>4, <1>5, <1>6, <1>7, <1>8, <1>9, <1>10, <1>11, <1>12,
         <1>13, <1>14, <1>15, <1>16, <1>17, <1>18, <1>19, <1>20, <1>21, <1>22, <1>23,
         <1>24, <1>25, <1>26 DEF Next, Requests, Maintenance, Restore, Replacement,
         WorkerCycle, Clears, Ends

\* An archive is copied after its snapshot, and files go only after their rows.
LEMMA ArchivesStep ==
    ASSUME IInv, Next
    PROVE  ArchivesOK'
<1> USE DEF IInv, files, restoring, faults
<1>1. ASSUME NEW r \in Run, AdmitRun(r)
      PROVE  ArchivesOK'
  BY <1>1, KindFacts DEF AdmitRun, ArchivesOK
<1>2. ASSUME NEW r \in Run, CreateRun(r)
      PROVE  ArchivesOK'
  BY <1>2, KindFacts DEF CreateRun, ArchivesOK
<1>3. ASSUME NEW r \in Run, Decide(r)
      PROVE  ArchivesOK'
  BY <1>3, KindFacts DEF Decide, ArchivesOK
<1>4. CASE Monitor
  BY <1>4, KindFacts DEF Monitor, ArchivesOK
<1>5. CASE Snapshot \/ StageRecovery
  BY <1>5, KindFacts DEF Snapshot, StageRecovery, Refused, ArchivesOK, WholeOK, Whole,
       Replacing
<1>6. CASE CopyDownload \/ CopyRecovery
  BY <1>6, KindFacts, CopiedFacts DEF CopyDownload, CopyRecovery, ArchivesOK, ControlOK
<1>7. CASE RefuseMaintenance \/ RefuseUpload \/ RefuseReplacement
  BY <1>7, KindFacts DEF RefuseMaintenance, MayMaintain, CloseShared, RefuseUpload,
       GiveUp, Refused, RefuseReplacement, ArchivesOK
<1>8. CASE Clears
  BY <1>8, KindFacts, ClearsEffect DEF CloseShared, ArchivesOK, ControlOK
<1>9. CASE Ends
  <2> USE <1>9
  <2>1. PICK p, db, new :
           /\ p \in Process
           /\ Written(p, db, new) /\ RunMoves(db, new, "active", "done")
           /\ p = "web" => web = "idle"
           /\ p = "worker" => lock = "worker" /\ captured = NoRun
           /\ UNCHANGED <<artifacts, next, lock, restoring, archives, probing, captured, faults>>
    BY EndEffect
  <2> QED BY <2>1, KindFacts DEF Written, RunMoves, restoring, faults, ArchivesOK
<1>10. CASE ClearFiles
  BY <1>10, KindFacts, ClearFilesEffect, DirectoryFacts DEF ClearFiles, ArchivesOK,
       ControlOK
<1>11. ASSUME NEW u \in archives \cup Defective, BeginRestore(u)
      PROVE  ArchivesOK'
  BY <1>11, KindFacts DEF BeginRestore, MayMaintain, ArchivesOK, TypeOK
<1>12. CASE RecoveryFails \/ StagingFails
  BY <1>12, KindFacts DEF RecoveryFails, StagingFails, GiveUp, ArchivesOK
<1>13. CASE StageReplacement \/ BeginCycle \/ ReleaseDatabases
  BY <1>13, KindFacts DEF StageReplacement, BeginCycle, ReleaseDatabases, CloseShared,
       ArchivesOK
<1>14. CASE MoveDatabase
  BY <1>14, KindFacts DEF MoveDatabase, Renamed, ArchivesOK
<1>15. CASE MoveArtifacts
  BY <1>15, KindFacts DEF MoveArtifacts, Renamed, ArchivesOK, ControlOK
<1>16. CASE InstallDatabase
  BY <1>16, KindFacts DEF InstallDatabase, Renamed, ArchivesOK
<1>17. CASE InstallArtifacts
  BY <1>17, KindFacts DEF InstallArtifacts, Renamed, ArchivesOK, ControlOK
<1>18. CASE DropDatabase
  BY <1>18, KindFacts DEF DropDatabase, Renamed, ArchivesOK
<1>19. CASE DropArtifacts
  BY <1>19, KindFacts DEF DropArtifacts, EndRestore, ArchivesOK
<1>20. CASE ReplacementFails
  BY <1>20, KindFacts DEF ReplacementFails, RolledBack, EndRestore, ArchivesOK,
       ControlOK, Replacing
<1>21. CASE Record
  <2> USE <1>21
  <2>1. PICK db, new :
                /\ Written("worker", db, new) /\ captured \in Run
                /\ new.rows = db.rows \cup {captured} /\ new.run = db.run
                /\ db.id = pool["worker"] /\ pool' = pool
    BY RecordEffect
  <2> QED BY <2>1, KindFacts DEF Record, Written, restoring, faults, ArchivesOK
<1>22. CASE EndCycle
  BY <1>22, KindFacts DEF EndCycle, ArchivesOK
<1>23. ASSUME NEW r \in Run, Capture(r)
      PROVE  ArchivesOK'
  BY <1>23, KindFacts, CaptureEffect DEF Capture, ArchivesOK, ControlOK
<1>24. CASE WebDies
  BY <1>24, KindFacts DEF WebDies, CloseShared, ArchivesOK
<1>25. CASE WorkerDies
  BY <1>25, KindFacts DEF WorkerDies, CloseShared, ArchivesOK
<1> HIDE DEF IInv, files, restoring, faults
<1> QED BY <1>1, <1>2, <1>3, <1>4, <1>5, <1>6, <1>7, <1>8, <1>9, <1>10, <1>11, <1>12,
         <1>13, <1>14, <1>15, <1>16, <1>17, <1>18, <1>19, <1>20, <1>21, <1>22, <1>23,
         <1>24, <1>25 DEF Next, Requests, Maintenance, Restore, Replacement,
         WorkerCycle, Clears, Ends

\* What a replacement moves aside is what the recovery backup was made of: the
\* awaits between them let runs be created and end, and no row be written.
LEMMA SavedStep ==
    ASSUME IInv, Next
    PROVE  SavedOK'
<1> USE DEF IInv, files, restoring, faults
<1>1. ASSUME NEW r \in Run, AdmitRun(r)
      PROVE  SavedOK'
  BY <1>1, KindFacts DEF AdmitRun, SavedOK, Replacing
<1>2. ASSUME NEW r \in Run, CreateRun(r)
      PROVE  SavedOK'
  BY <1>2, KindFacts, CreateEffect, FieldFacts DEF CreateRun, SavedOK, Replacing,
       RunMoves, Kept, TypeOK, ReplacementOK
<1>3. ASSUME NEW r \in Run, Decide(r)
      PROVE  SavedOK'
  BY <1>3, KindFacts, DecideEffect DEF Decide, SavedOK, Replacing, Kept
<1>4. CASE Monitor
  BY <1>4, KindFacts DEF Monitor, SavedOK, Replacing
<1>5. CASE Snapshot \/ CopyDownload \/ RefuseMaintenance
  BY <1>5, KindFacts DEF Snapshot, CopyDownload, RefuseMaintenance, MayMaintain,
       CloseShared, SavedOK, Replacing
<1>6. CASE Clears
  BY <1>6, KindFacts, ClearsEffect DEF CloseShared, SavedOK, Replacing, ControlOK
<1>7. CASE Ends
  <2> USE <1>7
  <2>1. PICK p, db, new :
           /\ p \in Process
           /\ Written(p, db, new) /\ RunMoves(db, new, "active", "done")
           /\ p = "web" => web = "idle"
           /\ p = "worker" => lock = "worker" /\ captured = NoRun
           /\ UNCHANGED <<artifacts, next, lock, restoring, archives, probing, captured, faults>>
    BY EndEffect
  <2> QED BY <2>1, KindFacts, FieldFacts DEF Written, RunMoves, restoring, faults, SavedOK, Kept, HasActive, Replacing, ControlOK, Process, ReplacementOK
<1>8. CASE ClearFiles
  BY <1>8, KindFacts, ClearFilesEffect, DirectoryFacts DEF ClearFiles, SavedOK,
       Replacing, ControlOK
<1>9. ASSUME NEW u \in archives \cup Defective, BeginRestore(u)
      PROVE  SavedOK'
  BY <1>9, KindFacts, FieldFacts DEF BeginRestore, MayMaintain, SavedOK, Replacing,
       HasActive, RowsOK, RowsHaveRuns, TypeOK
<1>10. CASE RefuseUpload \/ StageRecovery \/ RefuseReplacement
  BY <1>10, KindFacts DEF RefuseUpload, GiveUp, Refused, StageRecovery,
       RefuseReplacement, SavedOK, Replacing
<1>11. CASE CopyRecovery
  BY <1>11, KindFacts, CopiedFacts DEF CopyRecovery, SavedOK, Replacing, ControlOK, Kept
<1>12. CASE RecoveryFails \/ StagingFails
  BY <1>12, KindFacts DEF RecoveryFails, StagingFails, GiveUp, SavedOK, Replacing, ControlOK
<1>13. CASE StageReplacement
  BY <1>13, KindFacts, StageEffect DEF StageReplacement, SavedOK, Replacing, ControlOK
<1>14. CASE MoveDatabase
  BY <1>14, KindFacts DEF MoveDatabase, Renamed, SavedOK, Replacing, ControlOK, Kept,
       ReplacementOK, HasActive
<1>15. CASE MoveArtifacts
  BY <1>15, KindFacts, DirectoryFacts DEF MoveArtifacts, Renamed, SavedOK, Replacing,
       ReplacementOK, TypeOK
<1>16. CASE InstallDatabase
  BY <1>16, KindFacts DEF InstallDatabase, Renamed, SavedOK, Replacing, ReplacementOK,
       ControlOK
<1>17. CASE InstallArtifacts
  BY <1>17, KindFacts DEF InstallArtifacts, Renamed, SavedOK, Replacing, ReplacementOK,
       ControlOK
<1>18. CASE DropDatabase
  BY <1>18, KindFacts DEF DropDatabase, Renamed, SavedOK, Replacing, ReplacementOK
<1>19. CASE DropArtifacts
  BY <1>19, KindFacts DEF DropArtifacts, EndRestore, SavedOK, Replacing, ControlOK,
       ReplacementOK
<1>20. CASE ReplacementFails
  BY <1>20, KindFacts DEF ReplacementFails, RolledBack, EndRestore, SavedOK, Replacing,
       ControlOK
<1>21. CASE BeginCycle \/ ReleaseDatabases
  BY <1>21, KindFacts DEF BeginCycle, ReleaseDatabases, CloseShared, SavedOK, Replacing
<1>22. CASE Record
  <2> USE <1>22
  <2>1. PICK db, new :
                /\ Written("worker", db, new) /\ captured \in Run
                /\ new.rows = db.rows \cup {captured} /\ new.run = db.run
                /\ db.id = pool["worker"] /\ pool' = pool
    BY RecordEffect
  <2> QED BY <2>1, KindFacts, FieldFacts DEF Record, Written, restoring, faults, SavedOK, Kept, HasActive, Replacing, CapturedOK, ControlOK
<1>23. CASE EndCycle
  BY <1>23, KindFacts DEF EndCycle, SavedOK, Replacing
<1>24. ASSUME NEW r \in Run, Capture(r)
      PROVE  SavedOK'
  BY <1>24, KindFacts, CaptureEffect DEF Capture, SavedOK, Replacing, ControlOK
<1>25. CASE WebDies
  BY <1>25, KindFacts DEF WebDies, CloseShared, SavedOK, Replacing
<1>26. CASE WorkerDies
  BY <1>26, KindFacts, WorkerDiesEffect DEF WorkerDies, CloseShared, SavedOK, Replacing,
       ReplacementOK, ControlOK
<1> HIDE DEF IInv, files, restoring, faults
<1> QED BY <1>1, <1>2, <1>3, <1>4, <1>5, <1>6, <1>7, <1>8, <1>9, <1>10, <1>11, <1>12,
         <1>13, <1>14, <1>15, <1>16, <1>17, <1>18, <1>19, <1>20, <1>21, <1>22, <1>23,
         <1>24, <1>25, <1>26 DEF Next, Requests, Maintenance, Restore, Replacement,
         WorkerCycle, Clears, Ends

-----------------------------------------------------------------------------
(* The theorems.                                                           *)

LEMMA InitIInv == Init => IInv
<1> SUFFICES ASSUME Init PROVE IInv
  OBVIOUS
<1>1. /\ 1 \in 1..MaxId /\ 0 \in 0..MaxId /\ 0 \in 0..MaxErrors /\ 0 \in 0..MaxCrashes
  BY WorkspaceAssumption
<1>2. /\ database \in Database /\ database.id = 1 /\ database.rows = {}
      /\ \A r \in Run : database.run[r] = "absent"
  BY <1>1, EmptyFacts DEF Init
<1>3. artifacts # None => /\ artifacts \in Directory /\ artifacts.of = 1
                          /\ FilesIn(artifacts) = {}
  BY <1>1, DirectoryFacts DEF Init
<1>4. aside.db = None /\ aside.dir = None /\ next.db = None /\ next.dir = None
  BY DEF Init
<1>5. TypeOK
  BY <1>1, <1>2, <1>3 DEF Init, TypeOK, WebStep, Process
<1>6. ControlOK /\ ReplacementOK
  BY <1>4 DEF Init, ControlOK, ReplacementOK, Replacing
<1>7. FilesOK /\ HandlesOK
  BY <1>2, <1>4 DEF Init, FilesOK, HandlesOK
<1>8. RowsOK /\ CapturedOK
  BY <1>2, <1>4, KindFacts DEF Init, RowsOK, RowsHaveRuns, CapturedOK
<1>9. WholeOK /\ ArchivesOK /\ SavedOK
  BY <1>2, <1>3, <1>4, KindFacts
  DEF Init, WholeOK, Whole, ArchivesOK, SavedOK, Replacing, Process
<1> QED BY <1>5, <1>6, <1>7, <1>8, <1>9 DEF IInv

LEMMA NextIInv == IInv /\ [Next]_vars => IInv'
<1> SUFFICES ASSUME IInv, [Next]_vars PROVE IInv'
  OBVIOUS
<1>1. CASE Next
  <2>1. TypeOK'
    BY <1>1, ScalarTypes, ArchiveTypes, FileTypes
    DEF TypeOK, ScalarTypeOK, ArchiveTypeOK, FileTypeOK
  <2> QED BY <1>1, <2>1, ControlStep, ReplacementStep, FilesStep, HandlesStep, RowsStep,
             CapturedStep, WholeStep, ArchivesStep, SavedStep DEF IInv
<1>2. CASE UNCHANGED vars
  <2> USE <1>2 DEF IInv, vars, files, restoring, faults
  <2>1. TypeOK'
    BY DEF TypeOK
  <2>2. ControlOK' /\ ReplacementOK'
    BY DEF ControlOK, ReplacementOK
  <2>3. FilesOK' /\ HandlesOK'
    BY DEF FilesOK, HandlesOK
  <2>4. RowsOK' /\ CapturedOK'
    BY DEF RowsOK, CapturedOK
  <2>5. WholeOK' /\ ArchivesOK' /\ SavedOK'
    BY DEF WholeOK, Whole, ArchivesOK, SavedOK
  <2> QED BY <2>1, <2>2, <2>3, <2>4, <2>5
<1> QED BY <1>1, <1>2

\* The invariant is inductive: it holds in every state of every behaviour.
THEOREM WorkspaceInvariant == Spec => []IInv
<1> QED BY InitIInv, NextIInv, PTL DEF Spec

\* Every variable keeps its type.
THEOREM TypesAreKept == Spec => []TypeOK
<1>1. IInv => TypeOK
  BY DEF IInv
<1> QED BY <1>1, WorkspaceInvariant, PTL

\* Unless a replacement has ended between its renames, the database and the
\* artifacts at the configured paths are of one workspace (replaceWorkspace).
THEOREM WorkspaceStaysWhole == Spec => []WorkspaceIsWhole
<1>1. IInv => WorkspaceIsWhole
  BY DEF IInv, WholeOK, Whole, WorkspaceIsWhole
<1> QED BY <1>1, WorkspaceInvariant, PTL

\* No row of the workspace, of a download or of a recovery backup refers to a
\* screenshot that is not there, whatever the worker wrote during the copy.
THEOREM EvidenceStaysWhole == Spec => []EvidenceIsWhole
<1>1. IInv => EvidenceIsWhole
  BY DEF IInv, WholeOK, Whole, ArchivesOK, EvidenceIsWhole, RowsHaveFiles, BackupsAreComplete
<1> QED BY <1>1, WorkspaceInvariant, PTL

\* Every row, screenshot and ended run that a restore has moved aside is in its
\* recovery backup, whatever is decided, created and cancelled while the backup
\* is written; what those requests themselves wrote may not be.
THEOREM RecoveryKeepsEvidence == Spec => []RecoveryHoldsEvidence
<1>1. IInv => RecoveryHoldsEvidence
  BY DEF IInv, SavedOK, Kept, HasActive, RecoveryHoldsEvidence
<1> QED BY <1>1, WorkspaceInvariant, PTL

\* No reset, deletion, cleanup, restore or failure takes an active run away.
THEOREM ActiveRunsStay == Spec => NoActiveRunIsLost
<1> DEFINE Stay == (database # None /\ web \notin Replacing \ {"moveDatabase"}) =>
                     \A r \in Run : database.run[r] = "active" =>
                        database' # None /\ database'.run[r] # "absent"
<1>1. ASSUME IInv, Next PROVE Stay
  <2> SUFFICES ASSUME database # None, web \notin Replacing \ {"moveDatabase"},
                      NEW r \in Run, database.run[r] = "active"
               PROVE  database' # None /\ database'.run[r] # "absent"
    OBVIOUS
  <2> USE <1>1 DEF IInv, files, restoring, faults
  <2>1. ASSUME NEW x \in Run, CreateRun(x) PROVE database' # None /\ database'.run[r] # "absent"
    BY <2>1, CreateEffect, KindFacts DEF RunMoves
  <2>2. ASSUME NEW x \in Run, Decide(x) PROVE database' # None /\ database'.run[r] # "absent"
    BY <2>2, DecideEffect, KindFacts
  <2>3. CASE Ends
    BY <2>3, EndEffect, KindFacts DEF Written, RunMoves
  <2>4. CASE Record
    BY <2>4, RecordEffect, KindFacts DEF Written
  <2>5. CASE Clears
    BY <2>5, ClearsEffect, KindFacts
  <2>6. CASE MoveDatabase
    BY <2>6 DEF MoveDatabase, Renamed, ReplacementOK, HasActive
  <2>7. CASE ReplacementFails
    BY <2>7 DEF ReplacementFails, RolledBack, ReplacementOK
  <2>8. CASE WorkerDies
    BY <2>8, WorkerDiesEffect
  <2>9. CASE database' = database
    BY <2>9
  <2>10. \/ \E x \in Run : CreateRun(x) \/ Decide(x)
         \/ Ends \/ Record \/ Clears \/ MoveDatabase \/ ReplacementFails \/ WorkerDies
         \/ database' = database
    <3>1. CASE Requests
      BY <3>1 DEF Requests, AdmitRun, Monitor, Snapshot, CopyDownload, Ends
    <3>2. CASE Maintenance
      BY <3>2 DEF Maintenance, Clears, RefuseMaintenance, ClearFiles
    <3>3. CASE Restore
      <4>1. ~InstallDatabase
        BY DEF InstallDatabase, Renamed, Replacing
      <4> QED BY <3>3, <4>1 DEF Restore, Replacement, BeginRestore, RefuseUpload, StageRecovery,
            CopyRecovery, RecoveryFails, RefuseReplacement, GiveUp, StagingFails, StageReplacement,
            MoveArtifacts, InstallArtifacts, DropDatabase, DropArtifacts
    <3>4. CASE WorkerCycle
      BY <3>4 DEF WorkerCycle, BeginCycle, ReleaseDatabases, EndCycle, Capture, Ends
    <3>5. CASE WebDies
      BY <3>5 DEF WebDies
    <3> QED BY <3>1, <3>2, <3>3, <3>4, <3>5 DEF Next
  <2> QED BY <2>1, <2>2, <2>3, <2>4, <2>5, <2>6, <2>7, <2>8, <2>9, <2>10
<1>2. IInv /\ [Next]_vars => [Stay]_vars
  BY <1>1
<1> QED BY <1>2, WorkspaceInvariant, PTL DEF Spec, NoActiveRunIsLost
=============================================================================
