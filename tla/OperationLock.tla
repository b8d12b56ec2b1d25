--------------------------- MODULE OperationLock ---------------------------
(***************************************************************************)
(* The lock file that keeps workspace maintenance and worker cycles apart  *)
(* (workspace-operation-lock.ts).  A client is one user of the lock: the   *)
(* worker's cycle, or a maintenance operation of the web process.  Every   *)
(* step is one file system call, for clients of different processes        *)
(* interleave between any two of them; a process runs one client's         *)
(* synchronous code at a time, but a maintenance operation may hold the    *)
(* lock across awaits while the process serves another.                    *)
(*                                                                         *)
(* A lock file is identified by the client and the incarnation of its      *)
(* process that created it; `pid' stands for that pair's process and       *)
(* incarnation.  External: the file system's atomic create-exclusive, and  *)
(* the liveness test of a pid.  Assumed: a dead process's pid is not       *)
(* reused, and a live process writes the file it created within the grace  *)
(* of 30 seconds.                                                          *)
(***************************************************************************)
EXTENDS Naturals, FiniteSets

CONSTANTS
    Client,         \* users of the lock
    Process,        \* operating system processes
    ProcessOf,      \* [Client -> Process]
    Maintenance,    \* the clients that are maintenance operations
    MaxCrashes,     \* bound on the number of process deaths
    MaxErrors       \* bound on the number of failing writes

ASSUME LockAssumption ==
    /\ ProcessOf \in [Client -> Process]
    /\ Maintenance \subseteq Client
    /\ MaxCrashes \in Nat /\ MaxErrors \in Nat

VARIABLES
    file,        \* the lock file, or NoFile
    pc,          \* pc[c]: what client c does next
    seen,        \* seen[c]: the pid that isStale has read, or NoPid
    life,        \* life[p]: the incarnation of process p
    crashes, errors

vars == <<file, pc, seen, life, crashes, errors>>

Life == 0..MaxCrashes
NoFile == [kind |-> "none"]
NoPid == [kind |-> "none"]
Pid == [kind : {"pid"}, process : Process, life : Life]
LockFile == [kind : {"file"}, client : Client, life : Life, written : BOOLEAN, old : BOOLEAN]
Step == {"idle", "inspect", "judge", "remove", "retry", "write", "hold", "check", "unlink"}

\* The lock file that client c creates now, and the pid that a file names.
Mine(c) == [kind |-> "file", client |-> c, life |-> life[ProcessOf[c]],
            written |-> FALSE, old |-> FALSE]
\* Faulty: the file names the client.
PidOfClient(f) == IF f # NoFile /\ f.written
                  THEN [kind |-> "pid", process |-> f.client, life |-> f.life]
                  ELSE NoPid
PidIn(f) == IF f # NoFile /\ f.written
            THEN [kind |-> "pid", process |-> ProcessOf[f.client], life |-> f.life]
            ELSE NoPid
Alive(pid) == life[pid.process] = pid.life

\* File f was created by the present incarnation of client c.
IsMine(c, f) == f # NoFile /\ f.client = c /\ f.life = life[ProcessOf[c]]

\* Steps at which a client runs synchronous code of its process.
Synchronous == Step \ {"idle", "hold"}
MayRun(c) == \A d \in Client \ {c} :
                 ProcessOf[d] = ProcessOf[c] => pc[d] \notin Synchronous

Goto(c, step) == pc' = [pc EXCEPT ![c] = step]

Init ==
    /\ file = NoFile
    /\ pc = [c \in Client |-> "idle"]
    /\ seen = [c \in Client |-> NoPid]
    /\ life = [p \in Process |-> 0]
    /\ crashes = 0 /\ errors = 0

-----------------------------------------------------------------------------
(* Acquisition.                                                            *)

\* Faulty: opens without the exclusive flag.
TryAcquireShared(c, otherwise) ==
    /\ file' = Mine(c) /\ Goto(c, "write")
    /\ UNCHANGED <<seen, life, crashes, errors>>

\* openSync(path, "wx") creates the file, or fails because it exists.
TryAcquire(c, otherwise) ==
    /\ IF file = NoFile
       THEN file' = Mine(c) /\ Goto(c, "write")
       ELSE Goto(c, otherwise) /\ UNCHANGED file
    /\ UNCHANGED <<seen, life, crashes, errors>>

Open(c)   == pc[c] = "idle"  /\ MayRun(c) /\ TryAcquire(c, "inspect")
Reopen(c) == pc[c] = "retry" /\ TryAcquire(c, "idle")

\* isStale, first half: read the pid; an unwritten or missing file has none.
Inspect(c) ==
    /\ pc[c] = "inspect"
    /\ seen' = [seen EXCEPT ![c] = PidIn(file)]
    /\ Goto(c, "judge")
    /\ UNCHANGED <<file, life, crashes, errors>>

\* Faulty: no grace for a file that is still being written; and no age at all.
StaleAtOnce(c) == IF seen[c] = NoPid THEN file # NoFile ELSE ~Alive(seen[c])
StaleWithPid(c) == IF seen[c] = NoPid THEN FALSE ELSE ~Alive(seen[c])

\* isStale, second half: without a pid the age of the file decides, which is
\* the age of whatever file is there by now.
Stale(c) == IF seen[c] = NoPid THEN file # NoFile /\ file.old ELSE ~Alive(seen[c])

Judge(c) ==
    /\ pc[c] = "judge"
    /\ seen' = [seen EXCEPT ![c] = NoPid]
    /\ Goto(c, IF Stale(c) THEN "remove" ELSE "idle")
    /\ UNCHANGED <<file, life, crashes, errors>>

\* rmSync(path, { force: true }): whatever file is there by now.
Remove(c) ==
    /\ pc[c] = "remove"
    /\ file' = NoFile
    /\ Goto(c, "retry")
    /\ UNCHANGED <<seen, life, crashes, errors>>

\* The contents go to the file of the descriptor, which may be gone from the path.
Write(c) ==
    /\ pc[c] = "write"
    /\ file' = IF IsMine(c, file) THEN [file EXCEPT !.written = TRUE] ELSE file
    /\ Goto(c, "hold")
    /\ UNCHANGED <<seen, life, crashes, errors>>

\* A failing write removes the path's file and passes the error on.
WriteError(c) ==
    /\ pc[c] = "write" /\ errors < MaxErrors
    /\ file' = NoFile
    /\ errors' = errors + 1
    /\ Goto(c, "idle")
    /\ UNCHANGED <<seen, life, crashes>>

-----------------------------------------------------------------------------
(* Release: read the owner, then remove the file.                          *)

Release(c) ==
    /\ pc[c] = "hold" /\ MayRun(c)
    /\ Goto(c, "check")
    /\ UNCHANGED <<file, seen, life, crashes, errors>>

CheckOwner(c) ==
    /\ pc[c] = "check"
    /\ Goto(c, IF IsMine(c, file) /\ file.written THEN "unlink" ELSE "idle")
    /\ UNCHANGED <<file, seen, life, crashes, errors>>

Unlink(c) ==
    /\ pc[c] = "unlink"
    /\ file' = NoFile
    /\ Goto(c, "idle")
    /\ UNCHANGED <<seen, life, crashes, errors>>

-----------------------------------------------------------------------------
(* The environment.                                                        *)

\* A process dies, and its supervisor starts it again with another pid.
Crash(p) ==
    /\ crashes < MaxCrashes
    /\ crashes' = crashes + 1
    /\ life' = [life EXCEPT ![p] = @ + 1]
    /\ pc' = [c \in Client |-> IF ProcessOf[c] = p THEN "idle" ELSE pc[c]]
    /\ seen' = [c \in Client |-> IF ProcessOf[c] = p THEN NoPid ELSE seen[c]]
    /\ UNCHANGED <<file, errors>>

\* An unwritten file left by a dead process outlives its grace.
GraceEnds ==
    /\ file # NoFile /\ ~file.written /\ ~file.old
    /\ life[ProcessOf[file.client]] # file.life
    /\ file' = [file EXCEPT !.old = TRUE]
    /\ UNCHANGED <<pc, seen, life, crashes, errors>>

Acquisition(c) == Open(c) \/ Inspect(c) \/ Judge(c) \/ Remove(c) \/ Reopen(c) \/ Write(c)
Returning(c) == Release(c) \/ CheckOwner(c) \/ Unlink(c)

Next ==
    \/ \E c \in Client : Acquisition(c) \/ Returning(c) \/ WriteError(c)
    \/ \E p \in Process : Crash(p)
    \/ GraceEnds

Spec == Init /\ [][Next]_vars

\* Synchronous code runs to its end; a holder finishes its operation; the
\* worker asks again for ever, a maintenance operation is up to the user; time passes.
Fairness ==
    /\ \A c \in Client : /\ WF_vars(pc[c] # "idle" /\ Acquisition(c))
                         /\ WF_vars(Returning(c))
    /\ \A c \in Client \ Maintenance : WF_vars(Acquisition(c))
    /\ WF_vars(GraceEnds)

FairSpec == Spec /\ Fairness

-----------------------------------------------------------------------------
(* Properties.                                                             *)

TypeOK ==
    /\ file \in LockFile \cup {NoFile}
    /\ pc \in [Client -> Step]
    /\ seen \in [Client -> Pid \cup {NoPid}]
    /\ life \in [Process -> Life]
    /\ crashes \in 0..MaxCrashes /\ errors \in 0..MaxErrors

\* The clients that created the lock file and have not given it back.
Owners == {c \in Client : pc[c] \in {"write", "hold", "check", "unlink"}}

\* As long as no process has died, at most one client owns the workspace: no
\* interleaving of creation, staleness test, failed write and release lets a
\* second one in.
ExclusiveUntilCrash == crashes = 0 => \A c, d \in Owners : c = d

\* An owner finds its own lock file at the path for as long as no process has
\* died: the release removes what it created and never another's file.
OwnerKeepsFile == crashes = 0 => \A c \in Owners : IsMine(c, file)

\* The lock of a dead process does not keep everyone out: it is removed, once
\* its age or its dead owner is noticed.
AbandonedLockIsRemoved ==
    (file # NoFile /\ life[ProcessOf[file.client]] # file.life)
        ~> (file = NoFile \/ life[ProcessOf[file.client]] = file.life)
=============================================================================
