------------------------ MODULE OperationLockProofs ------------------------
(***************************************************************************)
(* Proofs about the operation lock, for any number of processes, clients,  *)
(* deaths and failing writes.  Before the first death nobody ever finds    *)
(* the lock stale: the file at the path is its owner's, and its owner      *)
(* lives.  That is the invariant from which exclusion follows.             *)
(***************************************************************************)
EXTENDS OperationLock, TLAPS

\* Before the first death: every process is in its first life, the lock file is
\* young, whoever owns the workspace owns it, nobody has read a dead pid and
\* nobody removes a lock as stale.
Quiet ==
    /\ \A p \in Process : life[p] = 0
    /\ file # NoFile => file.life = 0 /\ ~file.old
    /\ \A c \in Owners : IsMine(c, file)
    /\ \A c \in Client : /\ seen[c] # NoPid => seen[c].life = 0
                         /\ pc[c] \notin {"remove", "retry"}

LockInv ==
    /\ TypeOK
    /\ \A p \in Process : life[p] <= crashes
    /\ crashes = 0 => Quiet

-----------------------------------------------------------------------------
(* Types.                                                                  *)

LEMMA TypeFacts ==
    ASSUME TypeOK
    PROVE  /\ \A c \in Client : Mine(c) \in LockFile /\ ProcessOf[c] \in Process
           /\ PidIn(file) \in Pid \cup {NoPid}
           /\ NoFile \notin LockFile /\ NoPid \notin Pid
<1> USE LockAssumption
<1>1. \A c \in Client : ProcessOf[c] \in Process
  OBVIOUS
<1>2. NoFile \notin LockFile /\ NoPid \notin Pid
  BY DEF NoFile, LockFile, NoPid, Pid
<1>3. \A c \in Client : Mine(c) \in LockFile
  BY <1>1 DEF TypeOK, Mine, LockFile
<1>4. PidIn(file) \in Pid \cup {NoPid}
  BY <1>1 DEF TypeOK, PidIn, LockFile, Pid
<1> QED BY <1>1, <1>2, <1>3, <1>4

LEMMA InitLockInv == Init => LockInv
<1> SUFFICES ASSUME Init PROVE LockInv
  OBVIOUS
<1>1. 0 \in Life
  BY LockAssumption DEF Life
<1>2. TypeOK
  BY <1>1, LockAssumption DEF Init, TypeOK, Step
<1>3. Quiet
  BY DEF Init, Quiet, Owners
<1> QED BY <1>2, <1>3 DEF LockInv, Init

\* Each step keeps the types; a death is what they need the bound on lives for.
LEMMA TypeStep == LockInv /\ [Next]_vars => TypeOK'
<1> SUFFICES ASSUME LockInv, [Next]_vars PROVE TypeOK'
  OBVIOUS
<1> USE DEF LockInv, TypeOK
<1>1. ASSUME NEW c \in Client, Acquisition(c) PROVE TypeOK'
  <2>1. CASE Open(c) \/ Reopen(c)
    BY <2>1, TypeFacts DEF Open, Reopen, TryAcquire, Goto, Step
  <2>2. CASE Inspect(c)
    BY <2>2, TypeFacts DEF Inspect, Goto, Step
  <2>3. CASE Judge(c)
    BY <2>3 DEF Judge, Goto, Step
  <2>4. CASE Remove(c)
    BY <2>4 DEF Remove, Goto, Step
  <2>5. CASE Write(c)
    <3>1. IsMine(c, file) => [file EXCEPT !.written = TRUE] \in LockFile
      BY DEF IsMine, LockFile
    <3> QED BY <2>5, <3>1 DEF Write, Goto, Step
  <2> QED BY <1>1, <2>1, <2>2, <2>3, <2>4, <2>5 DEF Acquisition
<1>2. ASSUME NEW c \in Client, Returning(c) PROVE TypeOK'
  BY <1>2 DEF Returning, Release, CheckOwner, Unlink, Goto, Step
<1>3. ASSUME NEW c \in Client, WriteError(c) PROVE TypeOK'
  BY <1>3, LockAssumption DEF WriteError, Goto, Step
<1>4. ASSUME NEW p \in Process, Crash(p) PROVE TypeOK'
  <2>1. life[p] + 1 \in Life /\ crashes + 1 \in 0..MaxCrashes
    BY <1>4, LockAssumption DEF Crash, Life
  <2>2. life' \in [Process -> Life]
    BY <1>4, <2>1 DEF Crash
  <2> QED BY <1>4, <2>1, <2>2 DEF Crash, Step
<1>5. CASE GraceEnds
  <2>1. [file EXCEPT !.old = TRUE] \in LockFile
    BY <1>5 DEF GraceEnds, LockFile
  <2> QED BY <1>5, <2>1 DEF GraceEnds
<1>6. CASE UNCHANGED vars
  BY <1>6 DEF vars
<1> QED BY <1>1, <1>2, <1>3, <1>4, <1>5, <1>6 DEF Next

-----------------------------------------------------------------------------
(* Before the first death.                                                 *)

\* Two owners would both have created the one file at the path.
LEMMA OneOwner == Quiet => \A c, d \in Owners : c = d
  BY DEF Quiet, IsMine

\* Nobody alive is found stale, and no young file is.
LEMMA NothingStale ==
    ASSUME TypeOK, Quiet, NEW c \in Client
    PROVE  ~Stale(c)
<1>1. seen[c] # NoPid => Alive(seen[c])
  BY DEF Quiet, TypeOK, Alive, Pid
<1> QED BY <1>1 DEF Stale, Quiet

LEMMA QuietStep ==
    ASSUME LockInv, [Next]_vars, crashes' = 0
    PROVE  Quiet'
<1>0. crashes = 0 /\ Quiet /\ TypeOK
  <2>1. crashes' = crashes \/ crashes' = crashes + 1
    BY DEF Next, Acquisition, Returning, Open, Reopen, TryAcquire, Inspect, Judge, Remove,
           Write, WriteError, Release, CheckOwner, Unlink, Crash, GraceEnds, vars
  <2> QED BY <2>1, LockAssumption DEF LockInv, TypeOK
<1>1. ASSUME NEW c \in Client, Acquisition(c) PROVE Quiet'
  <2>1. CASE Open(c)
    <3>1. CASE file = NoFile
      <4>1. Owners = {}
        BY <1>0, <3>1 DEF Quiet, IsMine
      <4>2. file' = Mine(c) /\ Owners' = {c} /\ IsMine(c, file)'
        BY <1>0, <2>1, <3>1, <4>1, TypeFacts
           DEF Open, TryAcquire, Goto, Owners, TypeOK, IsMine, Mine, NoFile
      <4>3. file'.life = 0 /\ ~file'.old
        BY <1>0, <4>2, TypeFacts DEF Quiet, Mine
      <4> QED BY <1>0, <2>1, <3>1, <4>2, <4>3 DEF Open, TryAcquire, Goto, Quiet, TypeOK
    <3>2. CASE file # NoFile
      BY <1>0, <2>1, <3>2 DEF Open, TryAcquire, Goto, Quiet, TypeOK, Owners, IsMine
    <3> QED BY <3>1, <3>2
  <2>2. CASE Inspect(c)
    <3>1. PidIn(file) # NoPid => PidIn(file).life = 0
      BY <1>0 DEF PidIn, NoPid, Quiet
    <3>2. /\ Owners' = Owners /\ file' = file /\ life' = life
          /\ \A d \in Client : pc'[d] \notin {"remove", "retry"}
      BY <1>0, <2>2 DEF Inspect, Goto, Quiet, TypeOK, Owners
    <3>3. \A d \in Client : seen'[d] # NoPid => seen'[d].life = 0
      BY <1>0, <2>2, <3>1 DEF Inspect, Quiet, TypeOK
    <3> QED BY <1>0, <3>2, <3>3 DEF Quiet, IsMine
  <2>3. CASE Judge(c)
    <3>1. pc' = [pc EXCEPT ![c] = "idle"]
      BY <1>0, <2>3, NothingStale DEF Judge, Goto
    <3> QED BY <1>0, <2>3, <3>1 DEF Judge, Quiet, TypeOK, Owners, IsMine
  <2>4. ~Remove(c) /\ ~Reopen(c)
    BY <1>0 DEF Quiet, Remove, Reopen
  <2>5. CASE Write(c)
    <3>1. file' = [file EXCEPT !.written = TRUE] /\ file # NoFile /\ file \in LockFile
      BY <1>0, <2>5 DEF Write, Quiet, Owners, TypeOK, IsMine
    <3>2. Owners' = Owners /\ life' = life /\ seen' = seen
      BY <1>0, <2>5 DEF Write, Goto, Owners, TypeOK
    <3>3. /\ file'.client = file.client /\ file'.life = file.life /\ file'.old = file.old
          /\ file' # NoFile
      BY <3>1 DEF LockFile, NoFile
    <3> QED BY <1>0, <2>5, <3>1, <3>2, <3>3 DEF Write, Goto, Quiet, TypeOK, IsMine
  <2> QED BY <1>1, <2>1, <2>2, <2>3, <2>4, <2>5 DEF Acquisition
<1>2. ASSUME NEW c \in Client, Returning(c) PROVE Quiet'
  <2>1. CASE Release(c)
    BY <1>0, <2>1 DEF Release, Goto, Quiet, TypeOK, Owners, IsMine
  <2>2. CASE CheckOwner(c)
    BY <1>0, <2>2 DEF CheckOwner, Goto, Quiet, TypeOK, Owners, IsMine
  <2>3. CASE Unlink(c)
    <3>1. Owners = {c}
      BY <1>0, <2>3, OneOwner DEF Unlink, Owners
    <3>2. Owners' = {}
      BY <1>0, <2>3, <3>1 DEF Unlink, Goto, Owners, TypeOK
    <3> QED BY <1>0, <2>3, <3>2 DEF Unlink, Goto, Quiet, TypeOK
  <2> QED BY <1>2, <2>1, <2>2, <2>3 DEF Returning
<1>3. ASSUME NEW c \in Client, WriteError(c) PROVE Quiet'
  <2>1. Owners = {c}
    BY <1>0, <1>3, OneOwner DEF WriteError, Owners
  <2>2. Owners' = {}
    BY <1>0, <1>3, <2>1 DEF WriteError, Goto, Owners, TypeOK
  <2> QED BY <1>0, <1>3, <2>2 DEF WriteError, Goto, Quiet, TypeOK
<1>4. \A p \in Process : ~Crash(p)
  BY <1>0 DEF Crash
<1>5. ~GraceEnds
  BY <1>0, LockAssumption DEF GraceEnds, Quiet, TypeOK, LockFile
<1>6. CASE UNCHANGED vars
  BY <1>0, <1>6 DEF vars, Quiet, Owners, IsMine
<1> QED BY <1>1, <1>2, <1>3, <1>4, <1>5, <1>6 DEF Next

LEMMA NextLockInv == LockInv /\ [Next]_vars => LockInv'
<1> SUFFICES ASSUME LockInv, [Next]_vars PROVE LockInv'
  OBVIOUS
<1>1. TypeOK'
  BY TypeStep
<1>2. \A p \in Process : life'[p] <= crashes'
  <2>1. ASSUME NEW q \in Process, Crash(q) PROVE \A p \in Process : life'[p] <= crashes'
    BY <2>1 DEF LockInv, TypeOK, Crash, Life
  <2>2. (\E q \in Process : Crash(q)) \/ (life' = life /\ crashes' = crashes)
    BY DEF Next, Acquisition, Returning, Open, Reopen, TryAcquire, Inspect, Judge, Remove,
           Write, WriteError, Release, CheckOwner, Unlink, GraceEnds, vars
  <2> QED BY <2>1, <2>2 DEF LockInv
<1>3. crashes' = 0 => Quiet'
  BY QuietStep
<1> QED BY <1>1, <1>2, <1>3 DEF LockInv

\* The invariant the results below rest on.
THEOREM LockInvariant == Spec => []LockInv
  BY InitLockInv, NextLockInv, PTL DEF Spec

-----------------------------------------------------------------------------
(* What the lock promises.                                                 *)

\* Rows of the lock keep their types: a file always names a client, and a life
\* is never one that the process has not had.
THEOREM LockTypes == Spec => []TypeOK
<1>1. LockInv => TypeOK
  BY DEF LockInv
<1> QED BY <1>1, LockInvariant, PTL

\* Until a process dies at most one client owns the workspace, however
\* creation, staleness tests, failed writes and releases interleave.
THEOREM LockIsExclusive == Spec => []ExclusiveUntilCrash
<1>1. LockInv => ExclusiveUntilCrash
  BY OneOwner DEF LockInv, ExclusiveUntilCrash
<1> QED BY <1>1, LockInvariant, PTL

\* Until a process dies an owner finds its own file, and no release removes
\* another's.
THEOREM OwnersKeepTheirFiles == Spec => []OwnerKeepsFile
<1>1. LockInv => OwnerKeepsFile
  BY DEF LockInv, Quiet, OwnerKeepsFile
<1> QED BY <1>1, LockInvariant, PTL
=============================================================================
