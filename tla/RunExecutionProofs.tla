------------------------- MODULE RunExecutionProofs -------------------------
(***************************************************************************)
(* Proofs about RunExecution, for any number of runs, slots and attempts   *)
(* and any per-business chain: the type invariant, exclusive execution,    *)
(* the agreement of every run row with its tasks, the finality of a        *)
(* settled run, kept checkpoints and effective cancellation, one stage at  *)
(* a time, what a run's outcome says of its tasks and businesses, and that *)
(* the rows implement the run its user was promised (RunLifecycle).        *)
(***************************************************************************)
EXTENDS RunExecution, SequenceTheorems, FiniteSetTheorems, TLAPS

-----------------------------------------------------------------------------
(* Sequences of rows.                                                      *)

\* A function on 1..n is a sequence of length n.
LEMMA FunctionIsSeq ==
    ASSUME NEW S, NEW n \in Nat, NEW f \in [1..n -> S]
    PROVE  f \in Seq(S) /\ Len(f) = n
<1>1. f \in Seq(S)
  BY SeqDef
<1>2. Len(f) \in Nat /\ DOMAIN f = 1..Len(f)
  BY <1>1, LenProperties
<1>3. 1..n = 1..Len(f)
  BY <1>2
<1>4. QED
  BY <1>1, <1>2, <1>3

\* The rows of a table have their types.
LEMMA RowTypes ==
    ASSUME NEW ts \in Seq(Task)
    PROVE  /\ Len(ts) \in Nat
           /\ \A i \in 1..Len(ts) : ts[i] \in Task
BY ElementOfSeq, LenProperties

\* The initial rows insertTask and the triggers write are rows.
LEMMA NewTaskType ==
    ASSUME NEW r \in Run, NEW b \in Business \cup {None},
           NEW stage \in RunStage \cup BusinessStage,
           NEW runtime \in Runtime \cup {None}
    PROVE  NewTask(r, b, stage, runtime) \in Task
BY StoreAssumption DEF NewTask, Task, Status

\* Two tables that agree on the statuses of a run's rows agree on Has.
LEMMA HasFrame ==
    ASSUME NEW ts \in Seq(Task), NEW us \in Seq(Task), NEW r \in Run, NEW statuses,
           Len(ts) <= Len(us),
           \A i \in 1..Len(ts) : /\ us[i].run = ts[i].run
                                 /\ ts[i].run = r => us[i].status = ts[i].status,
           \A i \in 1..Len(us) : us[i].run = r => i <= Len(ts)
    PROVE  Has(us, r, statuses) <=> Has(ts, r, statuses)
BY RowTypes DEF Has

\* A run none of whose rows changed stays consistent.
LEMMA ConsistentFrame ==
    ASSUME NEW ts \in Seq(Task), NEW us \in Seq(Task), NEW r \in Run, NEW run,
           Len(ts) <= Len(us),
           \A i \in 1..Len(ts) : /\ us[i].run = ts[i].run
                                 /\ ts[i].run = r => us[i].status = ts[i].status,
           \A i \in 1..Len(us) : us[i].run = r => i <= Len(ts)
    PROVE  RunConsistent(run, us, r) <=> RunConsistent(run, ts, r)
<1>1. \A statuses : Has(us, r, statuses) <=> Has(ts, r, statuses)
  BY HasFrame
<1>2. QED
  BY <1>1 DEF RunConsistent

\* How the sets of statuses that decisions ask about relate.
LEMMA HasFacts ==
    ASSUME NEW ts, NEW r
    PROVE  /\ Has(ts, r, {"Leased"}) => Has(ts, r, Active)
           /\ Has(ts, r, Active) => Has(ts, r, {"Leased"}) \/ Has(ts, r, {"Pending"})
           /\ Has(ts, r, {"Pending"}) => Has(ts, r, Active) /\ Has(ts, r, {"Pending", "Blocked"})
           /\ Has(ts, r, {"Blocked"}) => Has(ts, r, {"Pending", "Blocked"})
           /\ Has(ts, r, Active) => Has(ts, r, Status)
BY DEF Has, Active, Status

-----------------------------------------------------------------------------
(* Settlement.                                                             *)

\* Settling a run that has no active task, however it got there.
LEMMA SettleConsistent ==
    ASSUME NEW run \in RunRow, NEW ts, NEW r, ~Has(ts, r, Active)
    PROVE  /\ Settle(run, Outcome(run, ts, r)) \in RunRow
           /\ RunConsistent(Settle(run, Outcome(run, ts, r)), ts, r)
<1> DEFINE out == Outcome(run, ts, r)
           new == Settle(run, out)
<1>1. \/ /\ out.state = "Completed" /\ out.completion \in Verdict
         /\ out.completion = "Target Reached" => TargetRemaining(run) = 0
      \/ /\ out.state = "Paused" /\ out.completion = "Runtime Unavailable"
         /\ Has(ts, r, {"Blocked"})
      \/ out.state = "Cancelled" /\ out.completion = "Cancelled with Partial Results"
  BY DEF Outcome, Ends, Verdict, CleanOutcome
<1> HIDE DEF out
<1>2. new = [run EXCEPT !.state = out.state, !.completion = out.completion, !.control = None]
  BY DEF Settle
<1>3. new \in RunRow
  BY <1>1, <1>2 DEF RunRow, State, Control, Completion, Verdict, CleanOutcome, None
<1>4. /\ new.control = None /\ new.state = out.state /\ new.completion = out.completion
      /\ TargetRemaining(new) = TargetRemaining(run)
  BY <1>2 DEF RunRow, TargetRemaining
<1>5. ~Has(ts, r, {"Leased"}) /\ (Has(ts, r, {"Blocked"}) => Has(ts, r, {"Pending", "Blocked"}))
  BY HasFacts
<1>6. RunConsistent(new, ts, r)
  <2> HIDE DEF new
  <2> QED BY <1>1, <1>4, <1>5 DEF RunConsistent
<1> QED BY <1>3, <1>6 DEF out

\* What reconcileRunAfterTaskSettlement needs of the run it is given: the
\* state agrees with the control, and a run that stopped has no lease.
Reconcilable(run, ts, r) ==
    /\ run.state \notin {"Absent", "Completed"}
    /\ run.state \in {"Pending", "Running"} => run.control = None /\ run.completion = None
    /\ run.state = "Pausing" => run.control = "Pause"
    /\ run.state = "Cancelling" => run.control = "Cancel"
    /\ run.state = "Paused" => run.control = "Pause" /\ ~Has(ts, r, {"Leased"})
    /\ run.state = "Cancelled" => run.control = "Cancel" /\ ~Has(ts, r, {"Leased"})

\* Reconciliation makes any such run consistent with its tasks.
LEMMA ReconcileConsistent ==
    ASSUME NEW run \in RunRow, NEW ts, NEW r, Reconcilable(run, ts, r)
    PROVE  /\ Reconcile(run, ts, r) \in RunRow
           /\ RunConsistent(Reconcile(run, ts, r), ts, r)
<1>1. CASE run.control = "Cancel" /\ ~Has(ts, r, {"Leased"})
  <2> DEFINE new == [run EXCEPT !.state = "Cancelled",
                                !.completion = "Cancelled with Partial Results"]
  <2>1. Reconcile(run, ts, r) = new
    BY <1>1 DEF Reconcile
  <2>2. new \in RunRow /\ new.state = "Cancelled" /\ new.control = "Cancel"
        /\ new.completion = "Cancelled with Partial Results"
    BY <1>1 DEF RunRow, State, Completion
  <2>3. RunConsistent(new, ts, r)
    BY <1>1, <2>2 DEF RunConsistent
  <2> QED BY <2>1, <2>2, <2>3
<1>2. CASE /\ ~(run.control = "Cancel" /\ ~Has(ts, r, {"Leased"}))
           /\ Has(ts, r, Active)
  <2>1. CASE run.control = "Pause" /\ ~Has(ts, r, {"Leased"})
    <3> DEFINE new == [run EXCEPT !.state = "Paused", !.completion = "Paused"]
    <3>1. Reconcile(run, ts, r) = new
      BY <1>2, <2>1 DEF Reconcile
    <3>2. new \in RunRow /\ new.state = "Paused" /\ new.control = "Pause"
          /\ new.completion = "Paused"
      BY <2>1 DEF RunRow, State, Completion
    <3>3. Has(ts, r, {"Pending", "Blocked"})
      BY <1>2, <2>1, HasFacts
    <3>4. RunConsistent(new, ts, r)
      BY <2>1, <3>2, <3>3 DEF RunConsistent
    <3> QED BY <3>1, <3>2, <3>4
  <2>2. CASE ~(run.control = "Pause" /\ ~Has(ts, r, {"Leased"}))
    <3>1. Reconcile(run, ts, r) = run
      BY <1>2, <2>2 DEF Reconcile
    <3>2. RunConsistent(run, ts, r)
      BY <1>2, <2>2 DEF RunConsistent, Reconcilable, RunRow, State, Control, None
    <3> QED BY <3>1, <3>2
  <2> QED BY <2>1, <2>2
<1>3. CASE /\ ~(run.control = "Cancel" /\ ~Has(ts, r, {"Leased"}))
           /\ ~Has(ts, r, Active)
  BY <1>3, SettleConsistent DEF Reconcile
<1> QED BY <1>1, <1>2, <1>3

\* A run with a leased task is one that settling that task reconciles.
LEMMA LeasedReconcilable ==
    ASSUME NEW run \in RunRow, NEW ts, NEW us, NEW r,
           RunConsistent(run, ts, r), Has(ts, r, {"Leased"})
    PROVE  Reconcilable(run, us, r) /\ run.state \notin Terminal
BY HasFacts DEF RunConsistent, Reconcilable, RunRow, State, Status, Active, Terminal

-----------------------------------------------------------------------------
(* Row updates keep rows typed.                                            *)

\* Each update of a task row yields a task row of the same run and business.
LEMMA RowUpdates ==
    ASSUME NEW t \in Task
    PROVE  /\ \A p \in Nat : t.attempts < MaxAttempts =>
                 /\ Lease(t, p) \in Task /\ Lease(t, p).run = t.run
                 /\ Lease(t, p).status = "Leased" /\ Lease(t, p).owner = p
           /\ \A status \in Status : Unlease(t, status) \in Task
           /\ CompleteTask(t) \in Task /\ CompleteTask(t).run = t.run
           /\ CancelTask(t) \in Task /\ CancelTask(t).run = t.run
           /\ UnblockTask(t) \in Task /\ UnblockTask(t).run = t.run
           /\ StoreResult(t) \in Task /\ StoreResult(t).run = t.run
           /\ RecoverTask(t) \in Task /\ RecoverTask(t).run = t.run
           /\ \A class : FailTask(t, class) \in Task /\ FailTask(t, class).run = t.run
<1> USE StoreAssumption DEF Task, Status
<1>1. \A p \in Nat : t.attempts < MaxAttempts =>
          /\ Lease(t, p) \in Task /\ Lease(t, p).run = t.run
          /\ Lease(t, p).status = "Leased" /\ Lease(t, p).owner = p
  <2> TAKE p \in Nat
  <2> HAVE t.attempts < MaxAttempts
  <2>1. t.attempts \in Nat /\ MaxAttempts \in Nat /\ t.attempts + 1 \in 0..MaxAttempts
    OBVIOUS
  <2> QED BY <2>1 DEF Lease
<1>2. \A status \in Status : Unlease(t, status) \in Task /\ Unlease(t, status).run = t.run
  BY DEF Unlease
<1>3. /\ CompleteTask(t) \in Task /\ CompleteTask(t).run = t.run
      /\ CancelTask(t) \in Task /\ CancelTask(t).run = t.run
      /\ UnblockTask(t) \in Task /\ UnblockTask(t).run = t.run
      /\ StoreResult(t) \in Task /\ StoreResult(t).run = t.run
  <2>1. CompleteTask(t) \in Task /\ CompleteTask(t).run = t.run
    BY DEF CompleteTask, Unlease
  <2>2. CancelTask(t) \in Task /\ CancelTask(t).run = t.run
    BY DEF CancelTask
  <2>3. UnblockTask(t) \in Task /\ UnblockTask(t).run = t.run
    BY DEF UnblockTask
  <2>4. StoreResult(t) \in Task /\ StoreResult(t).run = t.run
    BY DEF StoreResult
  <2> QED BY <2>1, <2>2, <2>3, <2>4
<1>4. RecoverTask(t) \in Task /\ RecoverTask(t).run = t.run
  <2>1. CASE Exhausted(t)
    BY <2>1 DEF RecoverTask, Unlease
  <2>2. CASE ~Exhausted(t) /\ Abandoned(t)
    BY <2>2 DEF RecoverTask, Unlease
  <2>3. CASE ~Exhausted(t) /\ ~Abandoned(t)
    BY <2>3 DEF RecoverTask
  <2> QED BY <2>1, <2>2, <2>3
<1>5. \A class : FailTask(t, class) \in Task /\ FailTask(t, class).run = t.run
  <2> TAKE class
  <2>1. FailedStatus(t, class) \in Status
    BY DEF FailedStatus
  <2>2. Unlease(t, FailedStatus(t, class)) \in Task
        /\ Unlease(t, FailedStatus(t, class)).run = t.run
    BY <1>2, <2>1
  <2> DEFINE u == Unlease(t, FailedStatus(t, class))
             isInfra == class = "Infrastructure"
             isDue == FailedStatus(t, class) # "Pending"
  <2>3. u \in Task /\ u.run = t.run /\ isInfra \in BOOLEAN /\ isDue \in BOOLEAN
    BY <2>2
  <2>4. FailTask(t, class) = [u EXCEPT !.infra = isInfra, !.due = isDue]
    BY DEF FailTask
  <2> HIDE DEF u, isInfra, isDue
  <2> QED BY <2>3, <2>4
<1> QED BY <1>1, <1>2, <1>3, <1>4, <1>5

\* Updating one row keeps the table typed and every other row as it was.
LEMMA RowUpdate ==
    ASSUME NEW ts \in Seq(Task), NEW i \in 1..Len(ts), NEW t \in Task
    PROVE  LET us == [ts EXCEPT ![i] = t]
           IN  /\ us \in Seq(Task) /\ Len(us) = Len(ts)
               /\ us[i] = t
               /\ \A j \in 1..Len(ts) : j # i => us[j] = ts[j]
BY ExceptSeq

-----------------------------------------------------------------------------
(* How a step that writes one run's rows preserves the invariants.         *)

\* Consistency, when run r was made consistent and the others were left.
LEMMA OneRunStep ==
    ASSUME TypeOK, RunsConsistent, tasks' \in Seq(Task), NEW r \in Run,
           RunConsistent(runs'[r], tasks', r),
           \A x \in Run \ {r} : runs'[x] = runs[x],
           Len(tasks) <= Len(tasks'),
           \A i \in 1..Len(tasks) :
               /\ tasks'[i].run = tasks[i].run
               /\ tasks[i].run # r => tasks'[i].status = tasks[i].status,
           \A i \in 1..Len(tasks') : i > Len(tasks) => tasks'[i].run = r
    PROVE  RunsConsistent'
<1> SUFFICES ASSUME NEW x \in Run PROVE RunConsistent(runs'[x], tasks', x)
  BY DEF RunsConsistent
<1>1. CASE x = r
  BY <1>1
<1>2. CASE x # r
  <2>1. RunConsistent(runs[x], tasks, x)
    BY DEF RunsConsistent
  <2>2. \A i \in 1..Len(tasks') : tasks'[i].run = x => i <= Len(tasks)
    BY <1>2, RowTypes DEF TypeOK
  <2>3. \A i \in 1..Len(tasks) : /\ tasks'[i].run = tasks[i].run
                                 /\ tasks[i].run = x => tasks'[i].status = tasks[i].status
    BY <1>2
  <2>4. RunConsistent(runs[x], tasks', x) <=> RunConsistent(runs[x], tasks, x)
    BY <2>2, <2>3, ConsistentFrame DEF TypeOK
  <2>5. runs'[x] = runs[x]
    BY <1>2
  <2> QED BY <2>1, <2>4, <2>5
<1> QED BY <1>1, <1>2

\* Exclusive execution, when no slot takes a task and the leases of the
\* tasks still held are left alone.
LEMMA HeldStep ==
    ASSUME ExclusiveExecution, Len(tasks) \in Nat, Len(tasks') \in Nat,
           Len(tasks) <= Len(tasks'),
           \A s \in Slot : slots'[s].phase = "Working" =>
               /\ slots'[s] = slots[s]
               /\ process' = process
               /\ tasks'[slots[s].task].status = tasks[slots[s].task].status
               /\ tasks'[slots[s].task].owner = tasks[slots[s].task].owner
    PROVE  ExclusiveExecution'
<1> SUFFICES ASSUME NEW s \in Slot, slots'[s].phase = "Working"
             PROVE  /\ slots'[s].task \in 1..Len(tasks')
                    /\ tasks'[slots'[s].task].status = "Leased"
                    /\ tasks'[slots'[s].task].owner = process'
                    /\ \A x \in Slot : slots'[x] = slots'[s] => x = s
  BY DEF ExclusiveExecution, Owned
<1>1. /\ slots'[s] = slots[s]
      /\ slots[s].task \in 1..Len(tasks) /\ Owned(tasks[slots[s].task])
      /\ \A x \in Slot : slots[x] = slots[s] => x = s
  BY DEF ExclusiveExecution
<1>2. ASSUME NEW x \in Slot, slots'[x] = slots'[s] PROVE x = s
  <2>1. slots'[x] = slots[x]
    BY <1>2
  <2> QED BY <1>1, <1>2, <2>1
<1> QED BY <1>1, <1>2 DEF Owned

\* A run row that is what it was, or has qualified more candidates.
RunKept(run, new) ==
    /\ new.state = run.state /\ new.control = run.control
    /\ new.completion = run.completion
    /\ TargetRemaining(run) = 0 => TargetRemaining(new) = 0

\* Consistency, when no status and no run state changed.
LEMMA QuietStep ==
    ASSUME TypeOK, RunsConsistent, tasks' \in Seq(Task), Len(tasks') = Len(tasks),
           \A i \in 1..Len(tasks) : /\ tasks'[i].run = tasks[i].run
                                   /\ tasks'[i].status = tasks[i].status,
           \A r \in Run : RunKept(runs[r], runs'[r])
    PROVE  RunsConsistent'
<1> SUFFICES ASSUME NEW r \in Run PROVE RunConsistent(runs'[r], tasks', r)
  BY DEF RunsConsistent
<1>1. RunConsistent(runs[r], tasks, r)
  BY DEF RunsConsistent
<1>2. \A statuses : Has(tasks', r, statuses) <=> Has(tasks, r, statuses)
  BY HasFrame DEF TypeOK
<1> QED BY <1>1, <1>2 DEF RunConsistent, RunKept

\* The rows a checkpoint hands on are pending rows of the same run.
LEMMA CheckpointRows ==
    ASSUME TypeOK, NEW i \in 1..Len(tasks), NEW next \in Checkpoints(tasks[i])
    PROVE  /\ next \in Seq(Task)
           /\ \A k \in 1..Len(next) : next[k].run = tasks[i].run /\ next[k].status = "Pending"
<1> DEFINE t == tasks[i]
           Opens(row) == row.run = t.run /\ row.status = "Pending"
<1>1. t \in Task /\ t.run \in Run /\ runs[t.run].found \subseteq Business
  BY RowTypes DEF TypeOK, Task, RunRow
<1>2. ASSUME NEW b \in Business \cup {None}, NEW stage \in RunStage \cup BusinessStage,
             NEW runtime \in Runtime \cup {None}
      PROVE  /\ <<NewTask(t.run, b, stage, runtime)>> \in Seq(Task)
             /\ \A k \in 1..Len(<<NewTask(t.run, b, stage, runtime)>>) :
                    Opens(<<NewTask(t.run, b, stage, runtime)>>[k])
  <2>1. NewTask(t.run, b, stage, runtime) \in Task
    BY <1>1, NewTaskType
  <2>2. Opens(NewTask(t.run, b, stage, runtime))
    BY DEF NewTask
  <2> HIDE DEF t
  <2> QED BY <2>1, <2>2
<1>3. << >> \in Seq(Task) /\ Len(<< >>) = 0
  BY EmptySeq
<1>4. ASSUME NEW q \in Orderings(runs[t.run].found)
      PROVE  /\ BusinessTasks(t.run, q) \in Seq(Task)
             /\ \A k \in 1..Len(BusinessTasks(t.run, q)) :
                    Opens(BusinessTasks(t.run, q)[k])
  <2> DEFINE found == runs[t.run].found
             rows == BusinessTasks(t.run, q)
  <2>1. Cardinality(found) \in Nat
    BY <1>1, StoreAssumption, FS_Subset, FS_CardinalityType
  <2>2. q \in [1..Cardinality(found) -> found]
    BY DEF Orderings
  <2>3. q \in Seq(found) /\ Len(q) = Cardinality(found)
    BY <2>1, <2>2, FunctionIsSeq
  <2>4. \A k \in 1..Len(q) : NewTask(t.run, q[k], FirstStage, None) \in Task
    <3> TAKE k \in 1..Len(q)
    <3>1. q[k] \in Business
      BY <1>1, <2>2, <2>3
    <3> QED BY <1>1, <3>1, NewTaskType, StoreAssumption
  <2>5. rows \in [1..Len(q) -> Task] /\ \A k \in 1..Len(q) : Opens(rows[k])
    BY <2>4 DEF BusinessTasks, NewTask
  <2>6. rows \in Seq(Task) /\ Len(rows) = Len(q)
    BY <2>1, <2>3, <2>5, FunctionIsSeq
  <2> QED BY <2>5, <2>6
<1>5. CASE t.stage = "RunPlanning"
  <2>1. t.runtime \in Runtime \cup {None}
    BY <1>1 DEF Task
  <2>2. next \in PlanCheckpoints(t)
    BY <1>5 DEF Checkpoints
  <2>3. PICK stage \in RunStage : next = <<NewTask(t.run, None, stage, t.runtime)>>
    BY <2>2 DEF PlanCheckpoints, RunStage
  <2> QED BY <1>2, <2>1, <2>3
<1>6. CASE t.stage \in {"SeedReassessment", "DiscoverBusinesses"}
  <2>1. next \in {BusinessTasks(t.run, q) : q \in Orderings(runs[t.run].found)}
    BY <1>6 DEF Checkpoints, SeedCheckpoints, DiscoverCheckpoints
  <2> QED BY <1>4, <2>1
<1>7. CASE t.stage = "ScoreCandidate"
  <2>1. next = << >>
    BY <1>7 DEF Checkpoints
  <2> QED BY <1>3, <2>1
<1>8. CASE t.stage \notin RunStage \cup {"ScoreCandidate"}
  <2>1. next \in BusinessCheckpoints(t)
    BY <1>8 DEF Checkpoints, RunStage
  <2>2. t.stage \in BusinessStage /\ t.business \in Business \cup {None}
    BY <1>1, <1>8 DEF Task
  <2>3. Successors[t.stage] \subseteq BusinessStage \cup {Done}
    BY <2>2, StoreAssumption
  <2>4. PICK n \in Successors[t.stage] :
            next = IF n = Done THEN << >> ELSE <<NewTask(t.run, t.business, n, None)>>
    BY <2>1 DEF BusinessCheckpoints
  <2>5. CASE n = Done
    BY <1>3, <2>4, <2>5
  <2>6. CASE n # Done
    <3>1. n \in RunStage \cup BusinessStage
      BY <2>3, <2>6
    <3>2. next = <<NewTask(t.run, t.business, n, None)>>
      BY <2>4, <2>6
    <3> QED BY <1>2, <2>2, <3>1, <3>2
  <2> QED BY <2>5, <2>6
<1> QED BY <1>5, <1>6, <1>7, <1>8 DEF RunStage

-----------------------------------------------------------------------------
(* The web process's steps.                                                *)

\* Creating a run gives it the one pending task it needs.
LEMMA CreateRunStep ==
    ASSUME IInv, NEW r \in Run, NEW reassess \in BOOLEAN, NEW runtime \in Runtime,
           CreateRun(r, reassess, runtime)
    PROVE  IInv'
<1> DEFINE row == NewTask(r, None, "RunPlanning", runtime)
<1>1. TypeOK /\ ExclusiveExecution /\ RunsConsistent /\ tasks \in Seq(Task)
  BY DEF IInv, TypeOK
<1>2. runs[r] \in RunRow /\ runs[r].state = "Absent" /\ RunConsistent(runs[r], tasks, r)
  BY <1>1 DEF CreateRun, TypeOK, RunsConsistent
<1>3. row \in Task /\ row.run = r /\ row.status = "Pending"
  BY NewTaskType DEF NewTask, RunStage
<1>4. /\ tasks' \in Seq(Task) /\ Len(tasks') = Len(tasks) + 1
      /\ \A i \in 1..Len(tasks) : tasks'[i] = tasks[i]
      /\ tasks'[Len(tasks) + 1] = row
  <2> HIDE DEF row
  <2>1. tasks' = Append(tasks, row)
    BY DEF CreateRun, row
  <2> QED BY <1>1, <1>3, <2>1, AppendProperties
<1>5. /\ runs' = [runs EXCEPT ![r] = runs'[r]] /\ runs'[r] \in RunRow
      /\ runs'[r].state = "Pending" /\ runs'[r].control = runs[r].control
      /\ runs'[r].completion = runs[r].completion
  BY <1>1, <1>2 DEF CreateRun, TypeOK, RunRow, State
<1>6. TypeOK'
  BY <1>1, <1>4, <1>5 DEF TypeOK, CreateRun
<1>7. Has(tasks', r, Active)
  BY <1>1, <1>3, <1>4, RowTypes DEF Has, Active
<1>8. RunConsistent(runs'[r], tasks', r)
  BY <1>2, <1>5, <1>7 DEF RunConsistent
<1>9. RunsConsistent'
  <2> HIDE DEF row
  <2>1. \A x \in Run \ {r} : runs'[x] = runs[x]
    BY <1>1, <1>5 DEF TypeOK
  <2>2. Len(tasks) \in Nat /\ Len(tasks') \in Nat
    BY <1>1, <1>4, LenProperties
  <2>3. \A i \in 1..Len(tasks') : i > Len(tasks) => tasks'[i].run = r
    BY <1>3, <1>4, <2>2
  <2> QED BY <1>1, <1>4, <1>8, <2>1, <2>2, <2>3, OneRunStep
<1>10. ExclusiveExecution'
  BY <1>1, <1>4, HeldStep, RowTypes DEF CreateRun, ExclusiveExecution
<1> QED BY <1>6, <1>9, <1>10 DEF IInv

\* A pause leaves a run that waits for a lease, or one that can be resumed.
LEMMA PauseStep ==
    ASSUME IInv, NEW r \in Run, Pause(r)
    PROVE  IInv'
<1>1. TypeOK /\ ExclusiveExecution /\ RunsConsistent /\ tasks' = tasks
  BY DEF IInv, Pause
<1>2. /\ runs[r] \in RunRow /\ RunConsistent(runs[r], tasks, r)
      /\ runs[r].state \notin Terminal \cup {"Absent"}
  BY <1>1 DEF Pause, Controllable, TypeOK, RunsConsistent
<1>3. Has(tasks, r, {"Pending", "Blocked"}) \/ Has(tasks, r, {"Leased"})
  BY <1>2, HasFacts DEF RunConsistent, RunRow, State, Terminal
<1>4. /\ runs' = [runs EXCEPT ![r] = runs'[r]] /\ runs'[r] \in RunRow
      /\ runs'[r].control = "Pause"
      /\ \/ /\ Has(tasks, r, {"Leased"}) /\ runs'[r].state = "Pausing"
         \/ /\ ~Has(tasks, r, {"Leased"}) /\ runs'[r].state = "Paused"
            /\ runs'[r].completion = "Paused"
  <2> DEFINE new == [runs[r] EXCEPT
                        !.control = "Pause",
                        !.state = IF Has(tasks, r, {"Leased"}) THEN "Pausing" ELSE "Paused",
                        !.completion = IF Has(tasks, r, {"Leased"}) THEN None ELSE "Paused"]
  <2>1. runs' = [runs EXCEPT ![r] = new]
    BY DEF Pause
  <2>2. new \in RunRow
    BY <1>2 DEF RunRow, State, Control, Completion, Verdict, CleanOutcome
  <2>3. runs'[r] = new
    BY <1>1, <2>1 DEF TypeOK
  <2>4. /\ new.control = "Pause"
        /\ new.state = IF Has(tasks, r, {"Leased"}) THEN "Pausing" ELSE "Paused"
        /\ new.completion = IF Has(tasks, r, {"Leased"}) THEN None ELSE "Paused"
    BY <1>2 DEF RunRow
  <2> HIDE DEF new
  <2> QED BY <2>1, <2>2, <2>3, <2>4
<1>5. RunConsistent(runs'[r], tasks', r)
  BY <1>1, <1>3, <1>4 DEF RunConsistent
<1>6. TypeOK'
  BY <1>1, <1>4 DEF TypeOK, Pause
<1>7. RunsConsistent'
  BY <1>1, <1>4, <1>5, OneRunStep, RowTypes DEF TypeOK
<1>8. ExclusiveExecution'
  BY <1>1, HeldStep, RowTypes DEF Pause, TypeOK
<1> QED BY <1>6, <1>7, <1>8 DEF IInv

\* A cancellation touches no leased row, and waits for one if there is one.
LEMMA CancelStep ==
    ASSUME IInv, NEW r \in Run, Cancel(r)
    PROVE  IInv'
<1>1. TypeOK /\ ExclusiveExecution /\ RunsConsistent /\ Len(tasks) \in Nat
  BY RowTypes DEF IInv, TypeOK
<1>2. runs[r] \in RunRow
  BY <1>1 DEF TypeOK
<1>3. /\ tasks' \in Seq(Task) /\ Len(tasks') = Len(tasks)
      /\ \A i \in 1..Len(tasks) :
            /\ tasks'[i] = IF tasks[i].run = r /\ tasks[i].status \in {"Pending", "Blocked"}
                            THEN CancelTask(tasks[i]) ELSE tasks[i]
            /\ tasks'[i].run = tasks[i].run
  <2>1. tasks' = [i \in 1..Len(tasks) |->
                    IF tasks[i].run = r /\ tasks[i].status \in {"Pending", "Blocked"}
                    THEN CancelTask(tasks[i]) ELSE tasks[i]]
    BY DEF Cancel
  <2>2. \A i \in 1..Len(tasks) : /\ tasks[i] \in Task
                                 /\ CancelTask(tasks[i]) \in Task
                                 /\ CancelTask(tasks[i]).run = tasks[i].run
    BY <1>1, RowTypes, RowUpdates DEF TypeOK
  <2>3. tasks' \in [1..Len(tasks) -> Task]
    BY <2>1, <2>2
  <2> QED BY <1>1, <2>1, <2>2, <2>3, FunctionIsSeq
<1>4. \A i \in 1..Len(tasks) : tasks'[i].status = "Leased" <=> tasks[i].status = "Leased"
  <2> TAKE i \in 1..Len(tasks)
  <2>1. tasks[i] \in Task /\ CancelTask(tasks[i]).status = "Cancelled"
    BY <1>1, RowTypes DEF TypeOK, CancelTask, Task
  <2> QED BY <1>3, <2>1
<1>5. Has(tasks', r, {"Leased"}) <=> Has(tasks, r, {"Leased"})
  BY <1>3, <1>4 DEF Has
<1>6. /\ runs' = [runs EXCEPT ![r] = runs'[r]] /\ runs'[r] \in RunRow
      /\ runs'[r].control = "Cancel"
      /\ \/ /\ Has(tasks, r, {"Leased"}) /\ runs'[r].state = "Cancelling"
         \/ /\ ~Has(tasks, r, {"Leased"}) /\ runs'[r].state = "Cancelled"
            /\ runs'[r].completion = "Cancelled with Partial Results"
  <2> DEFINE new == [runs[r] EXCEPT
                 !.control = "Cancel",
                 !.state = IF Has(tasks, r, {"Leased"}) THEN "Cancelling" ELSE "Cancelled",
                 !.completion = IF Has(tasks, r, {"Leased"}) THEN None
                                ELSE "Cancelled with Partial Results"]
  <2>1. runs' = [runs EXCEPT ![r] = new]
    BY DEF Cancel
  <2>2. new \in RunRow
    BY <1>2 DEF RunRow, State, Control, Completion, Verdict, CleanOutcome
  <2>3. runs'[r] = new
    BY <1>1, <2>1 DEF TypeOK
  <2>4. /\ new.control = "Cancel"
        /\ new.state = IF Has(tasks, r, {"Leased"}) THEN "Cancelling" ELSE "Cancelled"
        /\ new.completion = IF Has(tasks, r, {"Leased"}) THEN None
                            ELSE "Cancelled with Partial Results"
    BY <1>2 DEF RunRow
  <2> HIDE DEF new
  <2> QED BY <2>1, <2>2, <2>3, <2>4
<1>7. RunConsistent(runs'[r], tasks', r)
  BY <1>5, <1>6 DEF RunConsistent
<1>8. TypeOK'
  BY <1>1, <1>3, <1>6 DEF TypeOK, Cancel
<1>9. RunsConsistent'
  <2>1. \A x \in Run \ {r} : runs'[x] = runs[x]
    BY <1>1, <1>6 DEF TypeOK
  <2>2. \A i \in 1..Len(tasks) : tasks[i].run # r => tasks'[i].status = tasks[i].status
    BY <1>3
  <2>3. \A i \in 1..Len(tasks') : i > Len(tasks) => tasks'[i].run = r
    BY <1>1, <1>3
  <2>4. Len(tasks) <= Len(tasks')
    BY <1>1, <1>3
  <2> QED BY <1>1, <1>3, <1>7, <2>1, <2>2, <2>3, <2>4, OneRunStep
<1>10. ExclusiveExecution'
  <2>1. \A s \in Slot : slots[s].phase = "Working" =>
            tasks'[slots[s].task] = tasks[slots[s].task]
    BY <1>1, <1>3 DEF ExclusiveExecution, Owned
  <2> QED BY <1>1, <1>3, <2>1, HeldStep DEF Cancel
<1> QED BY <1>8, <1>9, <1>10 DEF IInv

\* A resumed run has a task to claim or to settle: whatever it paused with.
LEMMA ResumedRows ==
    ASSUME IInv, NEW r \in Run, NEW runtime \in Runtime, Resume(r, runtime)
    PROVE  /\ tasks' \in Seq(Task) /\ Len(tasks') = Len(tasks)
           /\ \A i \in 1..Len(tasks) :
                 /\ tasks'[i].run = tasks[i].run
                 /\ tasks[i].run # r => tasks'[i] = tasks[i]
                 /\ tasks[i].status \notin {"Pending", "Blocked"} => tasks'[i] = tasks[i]
                 /\ (tasks[i].run = r /\ tasks[i].status \in {"Pending", "Blocked"})
                        => tasks'[i].status = "Pending"
           /\ Has(tasks', r, Active)
           /\ runs' = [runs EXCEPT ![r] = runs'[r]] /\ runs'[r] \in RunRow
           /\ runs'[r].control = None /\ runs'[r].completion = None
           /\ runs'[r].state \in {"Pending", "Running"}
<1> DEFINE row(i) == Unblock(ChangeRuntime(tasks[i], r, runtime), r)
           run == [runs[r] EXCEPT !.runtime = runtime]
<1>1. TypeOK /\ ExclusiveExecution /\ RunsConsistent /\ Len(tasks) \in Nat
  BY RowTypes DEF IInv, TypeOK
<1>2. /\ runs[r] \in RunRow /\ RunConsistent(runs[r], tasks, r)
      /\ runs[r].state \notin Terminal \cup {"Absent"}
  BY <1>1 DEF Resume, Controllable, TypeOK, RunsConsistent
<1>3. ASSUME NEW i \in 1..Len(tasks)
      PROVE  /\ row(i) \in Task /\ row(i).run = tasks[i].run
             /\ tasks[i].run # r => row(i) = tasks[i]
             /\ tasks[i].status \notin {"Pending", "Blocked"} => row(i) = tasks[i]
             /\ (tasks[i].run = r /\ tasks[i].status \in {"Pending", "Blocked"})
                    => row(i).status = "Pending"
  <2> DEFINE t == tasks[i]
             u == ChangeRuntime(t, r, runtime)
  <2>1. t \in Task
    BY <1>1, RowTypes DEF TypeOK
  <2>2. /\ u \in Task /\ u.run = t.run /\ u.status = t.status
        /\ t.run # r \/ t.status \notin {"Pending", "Blocked"} => u = t
    BY <2>1 DEF ChangeRuntime, Task
  <2>3. /\ UnblockTask(u) \in Task /\ UnblockTask(u).run = u.run
        /\ UnblockTask(u).status = "Pending"
    BY <2>2, RowUpdates DEF UnblockTask, Task
  <2> HIDE DEF u
  <2> QED BY <2>2, <2>3 DEF Unblock, u
<1>4. /\ tasks' \in Seq(Task) /\ Len(tasks') = Len(tasks)
      /\ \A i \in 1..Len(tasks) : tasks'[i] = row(i)
  <2>1. tasks' = [i \in 1..Len(tasks) |-> row(i)]
    BY DEF Resume
  <2> HIDE DEF row
  <2>2. tasks' \in [1..Len(tasks) -> Task]
    BY <1>3, <2>1
  <2> QED BY <1>1, <2>1, <2>2, FunctionIsSeq
<1> HIDE DEF row
<1>5. Has(tasks', r, Active)
  <2>1. PICK i \in 1..Len(tasks) : /\ tasks[i].run = r
                                   /\ tasks[i].status \in {"Leased", "Pending", "Blocked"}
    BY <1>2 DEF RunConsistent, RunRow, State, Terminal, Has, Active
  <2>2. tasks'[i].run = r /\ tasks'[i].status \in Active
    BY <1>3, <1>4, <2>1 DEF Active
  <2> QED BY <1>4, <2>2 DEF Has
<1>6. /\ runs' = [runs EXCEPT ![r] = runs'[r]] /\ runs'[r] \in RunRow
      /\ runs'[r].control = None /\ runs'[r].completion = None
      /\ runs'[r].state \in {"Pending", "Running"}
  <2> DEFINE new == [run EXCEPT !.control = None, !.completion = None,
                        !.state = IF Has(tasks', r, {"Leased"}) THEN "Running" ELSE "Pending"]
  <2>1. runs' = [runs EXCEPT ![r] = new]
    BY <1>5 DEF Resume, Resumed
  <2>2. run \in RunRow
    BY <1>2 DEF RunRow
  <2>3. /\ new \in RunRow /\ new.control = None /\ new.completion = None
        /\ new.state \in {"Pending", "Running"}
    BY <2>2 DEF RunRow, State, Control, Completion
  <2> HIDE DEF new
  <2> QED BY <1>1, <2>1, <2>3 DEF TypeOK
<1> QED BY <1>3, <1>4, <1>5, <1>6

\* So what it blocked is claimed again.
LEMMA ResumeStep ==
    ASSUME IInv, NEW r \in Run, NEW runtime \in Runtime, Resume(r, runtime)
    PROVE  IInv'
<1>1. TypeOK /\ ExclusiveExecution /\ RunsConsistent /\ Len(tasks) \in Nat
  BY RowTypes DEF IInv, TypeOK
<1>2. /\ tasks' \in Seq(Task) /\ Len(tasks') = Len(tasks)
      /\ \A i \in 1..Len(tasks) :
            /\ tasks'[i].run = tasks[i].run
            /\ tasks[i].run # r => tasks'[i] = tasks[i]
            /\ tasks[i].status \notin {"Pending", "Blocked"} => tasks'[i] = tasks[i]
  BY ResumedRows
<1>3. /\ Has(tasks', r, Active)
      /\ runs' = [runs EXCEPT ![r] = runs'[r]] /\ runs'[r] \in RunRow
      /\ runs'[r].control = None /\ runs'[r].completion = None
      /\ runs'[r].state \in {"Pending", "Running"}
  BY ResumedRows
<1>4. RunConsistent(runs'[r], tasks', r)
  BY <1>3 DEF RunConsistent
<1>5. TypeOK'
  BY <1>1, <1>2, <1>3 DEF TypeOK, Resume
<1>6. RunsConsistent'
  <2>1. \A x \in Run \ {r} : runs'[x] = runs[x]
    BY <1>1, <1>3 DEF TypeOK
  <2>2. \A i \in 1..Len(tasks) :
            /\ tasks'[i].run = tasks[i].run
            /\ tasks[i].run # r => tasks'[i].status = tasks[i].status
    BY <1>2
  <2>3. \A i \in 1..Len(tasks') : i > Len(tasks) => tasks'[i].run = r
    BY <1>1, <1>2
  <2>4. Len(tasks) <= Len(tasks')
    BY <1>1, <1>2
  <2> QED BY <1>1, <1>2, <1>4, <2>1, <2>2, <2>3, <2>4, OneRunStep
<1>7. ExclusiveExecution'
  <2>1. \A s \in Slot : slots[s].phase = "Working" =>
            tasks'[slots[s].task] = tasks[slots[s].task]
    BY <1>1, <1>2 DEF ExclusiveExecution, Owned
  <2> QED BY <1>1, <1>2, <2>1, HeldStep DEF Resume
<1> QED BY <1>5, <1>6, <1>7 DEF IInv

-----------------------------------------------------------------------------
(* The worker's steps: the cycle and its claims.                           *)

\* Recovered rows: typed, in their places, and never leased anew.
LEMMA RecoveredRows ==
    ASSUME NEW ts \in Seq(Task)
    PROVE  /\ Recovered(ts) \in Seq(Task) /\ Len(Recovered(ts)) = Len(ts)
           /\ \A i \in 1..Len(ts) :
                 /\ Recovered(ts)[i] = RecoverTask(ts[i])
                 /\ Recovered(ts)[i].run = ts[i].run
                 /\ Recovered(ts)[i].status = "Leased" => ts[i].status = "Leased"
                 /\ ~Exhausted(ts[i]) =>
                       \/ Recovered(ts)[i].status = ts[i].status
                       \/ ts[i].status = "Leased" /\ Recovered(ts)[i].status = "Pending"
<1>1. Recovered(ts) = [i \in 1..Len(ts) |-> RecoverTask(ts[i])]
  BY DEF Recovered
<1>2. ASSUME NEW i \in 1..Len(ts)
      PROVE  /\ RecoverTask(ts[i]) \in Task
             /\ RecoverTask(ts[i]).run = ts[i].run
             /\ RecoverTask(ts[i]).status = "Leased" => ts[i].status = "Leased"
             /\ ~Exhausted(ts[i]) =>
                   \/ RecoverTask(ts[i]).status = ts[i].status
                   \/ ts[i].status = "Leased" /\ RecoverTask(ts[i]).status = "Pending"
  <2>1. ts[i] \in Task
    BY RowTypes
  <2>2. RecoverTask(ts[i]) \in Task /\ RecoverTask(ts[i]).run = ts[i].run
    BY <2>1, RowUpdates
  <2>3. Exhausted(ts[i]) => RecoverTask(ts[i]).status = "FailedPermanent"
    BY <2>1 DEF RecoverTask, Unlease, Task
  <2>4. ~Exhausted(ts[i]) /\ Abandoned(ts[i]) =>
            RecoverTask(ts[i]).status = "Pending" /\ ts[i].status \in Active
    BY <2>1 DEF RecoverTask, Unlease, Task, Abandoned, Active
  <2>5. ~Abandoned(ts[i]) => RecoverTask(ts[i]) = ts[i]
    BY DEF RecoverTask, Exhausted
  <2> QED BY <2>2, <2>3, <2>4, <2>5 DEF Active
<1>3. Len(ts) \in Nat /\ Recovered(ts) \in [1..Len(ts) -> Task]
  BY <1>1, <1>2, RowTypes
<1> QED BY <1>1, <1>2, <1>3, FunctionIsSeq

\* After recovery's first half a run agrees with the recovered rows, or is
\* stranded and can be reconciled against whatever the sweep leaves.
LEMMA AfterExhaustionConsistent ==
    ASSUME NEW run \in RunRow, NEW ts \in Seq(Task), NEW r \in Run,
           RunConsistent(run, ts, r)
    PROVE  /\ AfterExhaustion(run, ts, r) \in RunRow
           /\ ~Stranded(AfterExhaustion(run, ts, r), Recovered(ts), r) =>
                  RunConsistent(AfterExhaustion(run, ts, r), Recovered(ts), r)
           /\ Stranded(AfterExhaustion(run, ts, r), Recovered(ts), r) =>
                  \A us : Reconcilable(AfterExhaustion(run, ts, r), us, r)
<1> DEFINE ex == AfterExhaustion(run, ts, r)
           done == Recovered(ts)
<1>1. CorrectTarget(run) = run
  <2>1. TargetRemaining(run) = 0 => ~(TargetRemaining(run) > 0)
    OBVIOUS
  <2> QED BY <2>1 DEF CorrectTarget, RunConsistent
<1>2. /\ Len(ts) \in Nat /\ Len(done) = Len(ts)
      /\ \A i \in 1..Len(ts) :
            /\ done[i].run = ts[i].run
            /\ done[i].status = "Leased" => ts[i].status = "Leased"
            /\ ~Exhausted(ts[i]) =>
                  \/ done[i].status = ts[i].status
                  \/ ts[i].status = "Leased" /\ done[i].status = "Pending"
  BY RecoveredRows, RowTypes
<1> HIDE DEF done
<1>3. Has(done, r, {"Leased"}) => Has(ts, r, {"Leased"})
  BY <1>2 DEF Has
<1>4. CASE \E i \in 1..Len(ts) : ts[i].run = r /\ Exhausted(ts[i])
  <2>1. Has(ts, r, Active)
    BY <1>4 DEF Has, Exhausted, Abandoned, Active
  <2>2. Reconcilable(run, done, r)
    BY <1>3, <2>1, HasFacts DEF RunConsistent, Reconcilable, Status
  <2>3. ex = Reconcile(run, done, r)
    BY <1>1, <1>4 DEF AfterExhaustion, done
  <2>4. ex \in RunRow /\ RunConsistent(ex, done, r)
    BY <2>2, <2>3, ReconcileConsistent
  <2> HIDE DEF ex
  <2>5. ~Stranded(ex, done, r)
    BY <2>4 DEF Stranded, RunConsistent
  <2> QED BY <2>4, <2>5 DEF ex, done
<1>5. CASE ~\E i \in 1..Len(ts) : ts[i].run = r /\ Exhausted(ts[i])
  <2>1. ex = run
    BY <1>1, <1>5 DEF AfterExhaustion
  <2>2. /\ Has(done, r, Active) <=> Has(ts, r, Active)
        /\ Has(done, r, Status) <=> Has(ts, r, Status)
        /\ Has(ts, r, {"Pending", "Blocked"}) => Has(done, r, {"Pending", "Blocked"})
    BY <1>2, <1>5 DEF Has, Active, Status
  <2>3. Stranded(run, done, r) => \A us : Reconcilable(run, us, r)
    BY DEF Stranded, Reconcilable, RunConsistent
  <2>4. ~Stranded(run, done, r) => RunConsistent(run, done, r)
    BY <1>3, <2>2 DEF Stranded, RunConsistent
  <2> QED BY <2>1, <2>3, <2>4 DEF done
<1> QED BY <1>4, <1>5

\* What recovery makes of a run whose rows it has recovered.
SettledBy(run, ts, us, r) ==
    LET ex == AfterExhaustion(run, ts, r)
    IN  IF Stranded(ex, Recovered(ts), r) THEN Reconcile(ex, us, r) ELSE ex

\* Recovery leaves every row in its place, and every run consistent with them:
\* none is reopened.
LEMMA RecoveredRuns ==
    ASSUME IInv, StartCycle
    PROVE  /\ tasks' \in Seq(Task) /\ Len(tasks') = Len(tasks)
           /\ \A i \in 1..Len(tasks) : tasks'[i].run = tasks[i].run
           /\ \A r \in Run : /\ runs'[r] = SettledBy(runs[r], tasks, tasks', r)
                            /\ runs'[r] \in RunRow
                            /\ RunConsistent(runs'[r], tasks', r)
<1>1. TypeOK /\ ExclusiveExecution /\ RunsConsistent /\ Len(tasks) \in Nat
  BY RowTypes DEF IInv, TypeOK
<1>2. /\ Recovered(tasks) \in Seq(Task) /\ Len(Recovered(tasks)) = Len(tasks)
      /\ \A i \in 1..Len(tasks) : Recovered(tasks)[i].run = tasks[i].run
  BY <1>1, RecoveredRows DEF TypeOK
<1> DEFINE done == Recovered(tasks)
           swept(x) == AfterExhaustion(runs[x], tasks, x).state = "Cancelling"
                       /\ Stranded(AfterExhaustion(runs[x], tasks, x), done, x)
<1>3. /\ tasks' \in Seq(Task) /\ Len(tasks') = Len(tasks)
      /\ \A i \in 1..Len(tasks) :
            /\ tasks'[i] = IF done[i].status \in {"Pending", "Blocked"} /\ swept(done[i].run)
                           THEN CancelTask(done[i]) ELSE done[i]
            /\ tasks'[i].run = tasks[i].run
  <2>1. tasks' = [i \in 1..Len(tasks) |->
                    IF done[i].status \in {"Pending", "Blocked"} /\ swept(done[i].run)
                    THEN CancelTask(done[i]) ELSE done[i]]
    BY DEF StartCycle, RecoveredTasks
  <2> HIDE DEF done, swept
  <2>2. \A i \in 1..Len(tasks) : /\ done[i] \in Task /\ CancelTask(done[i]) \in Task
                                 /\ done[i].run = tasks[i].run
                                 /\ CancelTask(done[i]).run = tasks[i].run
    BY <1>2, RowTypes, RowUpdates DEF done
  <2>3. tasks' \in [1..Len(tasks) -> Task]
    BY <2>1, <2>2
  <2> QED BY <1>1, <2>1, <2>2, <2>3, FunctionIsSeq
<1>4. ASSUME NEW r \in Run
      PROVE  /\ RecoveredRun(runs[r], tasks, tasks', r) \in RunRow
             /\ RunConsistent(RecoveredRun(runs[r], tasks, tasks', r), tasks', r)
             /\ RecoveredRun(runs[r], tasks, tasks', r) = SettledBy(runs[r], tasks, tasks', r)
  <2> DEFINE ex == AfterExhaustion(runs[r], tasks, r)
             settled == IF Stranded(ex, done, r) THEN Reconcile(ex, tasks', r) ELSE ex
  <2>1. /\ ex \in RunRow
        /\ ~Stranded(ex, done, r) => RunConsistent(ex, done, r)
        /\ Stranded(ex, done, r) => Reconcilable(ex, tasks', r)
    BY <1>1, AfterExhaustionConsistent DEF TypeOK, RunsConsistent
  <2>2. ASSUME Stranded(ex, done, r)
        PROVE  settled \in RunRow /\ RunConsistent(settled, tasks', r)
    <3> HIDE DEF ex, done
    <3> QED BY <2>1, <2>2, ReconcileConsistent
  <2>3. ASSUME ~Stranded(ex, done, r)
        PROVE  settled \in RunRow /\ RunConsistent(settled, tasks', r)
    <3>1. \A i \in 1..Len(tasks) : done[i].run = r => tasks'[i] = done[i]
      BY <1>3, <2>3
    <3> HIDE DEF ex, done
    <3>2. RunConsistent(ex, tasks', r) <=> RunConsistent(ex, done, r)
      BY <1>2, <1>3, <3>1, ConsistentFrame DEF done
    <3> QED BY <2>1, <2>3, <3>2
  <2>4. settled \in RunRow /\ RunConsistent(settled, tasks', r)
    BY <2>2, <2>3
  <2>5. /\ RecoveredRun(runs[r], tasks, tasks', r) = Reopen(settled, tasks', r)
        /\ SettledBy(runs[r], tasks, tasks', r) = settled
    BY DEF RecoveredRun, SettledBy
  <2> HIDE DEF settled
  <2>6. Reopen(settled, tasks', r) = settled
    BY <2>4 DEF Reopen, RunConsistent
  <2> QED BY <2>4, <2>5, <2>6
<1> QED BY <1>3, <1>4 DEF StartCycle

\* A cycle recovers before any slot opens, so no held task is recovered.
LEMMA StartCycleStep ==
    ASSUME IInv, StartCycle
    PROVE  IInv'
<1>1. TypeOK /\ ExclusiveExecution /\ RunsConsistent /\ Len(tasks) \in Nat
  BY RowTypes DEF IInv, TypeOK
<1>2. /\ tasks' \in Seq(Task) /\ Len(tasks') = Len(tasks)
      /\ \A r \in Run : runs'[r] \in RunRow /\ RunConsistent(runs'[r], tasks', r)
  BY RecoveredRuns
<1>3. TypeOK'
  BY <1>1, <1>2 DEF TypeOK, StartCycle, SlotState, Seeking
<1>4. RunsConsistent'
  BY <1>2 DEF RunsConsistent
<1>5. ExclusiveExecution'
  BY DEF StartCycle, ExclusiveExecution, Seeking
<1> QED BY <1>3, <1>4, <1>5 DEF IInv

\* A claim takes a row nobody holds, of a run nobody has stopped.
LEMMA ClaimStep ==
    ASSUME IInv, NEW s \in Slot, Claim(s)
    PROVE  IInv'
<1>1. TypeOK /\ ExclusiveExecution /\ RunsConsistent /\ Len(tasks) \in Nat
  BY RowTypes DEF IInv, TypeOK
<1>2. PICK i \in 1..Len(tasks) :
        /\ Claimable(i)
        /\ tasks' = [tasks EXCEPT ![i] = Lease(@, process)]
        /\ runs' = [runs EXCEPT ![tasks[i].run] = [@ EXCEPT !.state = "Running"]]
        /\ slots' = [slots EXCEPT ![s] = Working(i)]
  BY DEF Claim
<1> DEFINE r == tasks[i].run
           leased == Lease(tasks[i], process)
<1>3. /\ tasks[i] \in Task /\ r \in Run /\ runs[r] \in RunRow
      /\ RunConsistent(runs[r], tasks, r)
      /\ tasks[i].status = "Pending" /\ tasks[i].attempts < MaxAttempts
      /\ runs[r].control = None /\ runs[r].state \notin Terminal
  BY <1>1, <1>2, RowTypes DEF TypeOK, RunsConsistent, Task, Claimable
<1>4. /\ leased \in Task /\ leased.run = r
      /\ leased.status = "Leased" /\ leased.owner = process
  BY <1>1, <1>3, RowUpdates DEF TypeOK
<1>5. /\ tasks' \in Seq(Task) /\ Len(tasks') = Len(tasks)
      /\ tasks'[i] = leased
      /\ \A j \in 1..Len(tasks) : j # i => tasks'[j] = tasks[j]
  <2> HIDE DEF leased
  <2>1. tasks' = [tasks EXCEPT ![i] = leased]
    BY <1>2 DEF leased
  <2> QED BY <1>1, <1>4, <2>1, RowUpdate DEF TypeOK
<1> HIDE DEF leased
<1>6. Has(tasks, r, Active)
  BY <1>3 DEF Has, Active
<1>7. runs[r].completion = None
  BY <1>3, <1>6, HasFacts DEF RunConsistent, RunRow, State, Terminal, None
<1>8. /\ runs' = [runs EXCEPT ![r] = runs'[r]] /\ runs'[r] \in RunRow
      /\ runs'[r].state = "Running" /\ runs'[r].control = None
      /\ runs'[r].completion = None
  BY <1>1, <1>2, <1>3, <1>7 DEF TypeOK, RunRow, State
<1>9. RunConsistent(runs'[r], tasks', r)
  <2>1. Has(tasks', r, Active)
    BY <1>4, <1>5 DEF Has, Active
  <2> QED BY <1>8, <2>1 DEF RunConsistent
<1>10. TypeOK'
  <2>1. Working(i) \in SlotState
    BY <1>1 DEF Working, SlotState
  <2>2. slots' \in [Slot -> SlotState]
    BY <1>1, <1>2, <2>1 DEF TypeOK
  <2>3. runs' \in [Run -> RunRow]
    BY <1>1, <1>8 DEF TypeOK
  <2> QED BY <1>1, <1>5, <2>2, <2>3 DEF TypeOK, Claim
<1>11. RunsConsistent'
  <2>1. \A x \in Run \ {r} : runs'[x] = runs[x]
    BY <1>1, <1>8 DEF TypeOK
  <2>2. \A j \in 1..Len(tasks) :
            /\ tasks'[j].run = tasks[j].run
            /\ tasks[j].run # r => tasks'[j].status = tasks[j].status
    BY <1>4, <1>5
  <2>3. \A j \in 1..Len(tasks') : j > Len(tasks) => tasks'[j].run = r
    BY <1>1, <1>5
  <2>4. Len(tasks) <= Len(tasks')
    BY <1>1, <1>5
  <2> QED BY <1>1, <1>3, <1>5, <1>9, <2>1, <2>2, <2>3, <2>4, OneRunStep
<1>12. ExclusiveExecution'
  <2>1. process' = process /\ \A x \in Slot : slots'[x] = IF x = s THEN Working(i) ELSE slots[x]
    BY <1>1, <1>2 DEF Claim, TypeOK
  <2>2. \A x \in Slot : slots[x].phase = "Working" =>
            slots[x].task # i /\ tasks'[slots[x].task] = tasks[slots[x].task]
    BY <1>1, <1>3, <1>5 DEF ExclusiveExecution, Owned
  <2> SUFFICES ASSUME NEW x \in Slot, slots'[x].phase = "Working"
               PROVE  /\ slots'[x].task \in 1..Len(tasks')
                      /\ tasks'[slots'[x].task].status = "Leased"
                      /\ tasks'[slots'[x].task].owner = process'
                      /\ \A y \in Slot : slots'[y] = slots'[x] => y = x
    BY DEF ExclusiveExecution, Owned
  <2>3. CASE x = s
    <3>1. slots'[x].task = i
      BY <2>1, <2>3 DEF Working
    <3>2. \A y \in Slot : slots'[y] = slots'[x] => y = x
      BY <2>1, <2>2, <2>3 DEF Working
    <3> QED BY <1>4, <1>5, <2>1, <3>1, <3>2
  <2>4. CASE x # s
    <3>1. slots'[x] = slots[x]
      BY <2>1, <2>4
    <3>2. /\ slots[x].task \in 1..Len(tasks) /\ Owned(tasks[slots[x].task])
          /\ \A y \in Slot : slots[y] = slots[x] => y = x
      BY <1>1, <3>1 DEF ExclusiveExecution
    <3>3. \A y \in Slot : slots'[y] = slots'[x] => y = x
      BY <2>1, <2>2, <3>1, <3>2 DEF Working
    <3> QED BY <1>5, <2>1, <2>2, <3>1, <3>2, <3>3 DEF Owned
  <2> QED BY <2>3, <2>4
<1> QED BY <1>10, <1>11, <1>12 DEF IInv

\* Steps that free slots and leave the database alone.
LEMMA SlotsFreedStep ==
    ASSUME IInv, runs' = runs, tasks' = tasks, process' \in Nat, errors' \in Nat,
           slots' \in [Slot -> SlotState],
           \A s \in Slot : slots'[s].phase = "Working" =>
               slots'[s] = slots[s] /\ process' = process
    PROVE  IInv'
<1>1. TypeOK /\ ExclusiveExecution /\ RunsConsistent /\ Len(tasks) \in Nat
  BY RowTypes DEF IInv, TypeOK
<1>2. TypeOK'
  BY <1>1 DEF TypeOK
<1>3. RunsConsistent'
  BY <1>1 DEF RunsConsistent
<1>4. ExclusiveExecution'
  BY <1>1, HeldStep
<1> QED BY <1>2, <1>3, <1>4 DEF IInv

\* Leaving the cycle, a failed claim, a failed settlement and a crash.
LEMMA SlotSteps ==
    ASSUME IInv,
           \/ \E s \in Slot : LeaveCycle(s) \/ ClaimError(s) \/ SettlementError(s)
           \/ Crash
    PROVE  IInv'
<1> USE DEF IInv, TypeOK, SlotState, Idle, Seeking
<1>1. CASE \E s \in Slot : LeaveCycle(s)
  BY <1>1, SlotsFreedStep DEF LeaveCycle
<1>2. CASE \E s \in Slot : ClaimError(s)
  BY <1>2, SlotsFreedStep DEF ClaimError
<1>3. CASE \E s \in Slot : SettlementError(s)
  BY <1>3, SlotsFreedStep DEF SettlementError
<1>4. CASE Crash
  BY <1>4, SlotsFreedStep DEF Crash
<1> QED BY <1>1, <1>2, <1>3, <1>4

-----------------------------------------------------------------------------
(* Stage results, lease renewal and time: no status and no state changes.  *)

\* Such a step preserves the invariant as long as the leases stay.
LEMMA RowsKeptStep ==
    ASSUME IInv, tasks' \in Seq(Task), Len(tasks') = Len(tasks), runs' \in [Run -> RunRow],
           \A i \in 1..Len(tasks) : /\ tasks'[i].run = tasks[i].run
                                   /\ tasks'[i].status = tasks[i].status
                                   /\ tasks'[i].owner = tasks[i].owner,
           \A r \in Run : RunKept(runs[r], runs'[r]),
           slots' = slots, process' = process, errors' = errors
    PROVE  IInv'
<1>1. TypeOK /\ ExclusiveExecution /\ RunsConsistent /\ Len(tasks) \in Nat
  BY RowTypes DEF IInv, TypeOK
<1>2. TypeOK'
  BY <1>1 DEF TypeOK
<1>3. RunsConsistent'
  BY <1>1, QuietStep
<1>4. ExclusiveExecution'
  <2>1. \A s \in Slot : slots[s].phase = "Working" => slots[s].task \in 1..Len(tasks)
    BY <1>1 DEF ExclusiveExecution
  <2> QED BY <1>1, <2>1, HeldStep
<1> QED BY <1>2, <1>3, <1>4 DEF IInv

\* One row rewritten with its run, status and owner kept.
LEMMA KeptRow ==
    ASSUME TypeOK, NEW i \in 1..Len(tasks), NEW t \in Task,
           t.run = tasks[i].run, t.status = tasks[i].status, t.owner = tasks[i].owner,
           tasks' = [tasks EXCEPT ![i] = t]
    PROVE  /\ tasks' \in Seq(Task) /\ Len(tasks') = Len(tasks)
           /\ \A j \in 1..Len(tasks) : /\ tasks'[j].run = tasks[j].run
                                       /\ tasks'[j].status = tasks[j].status
                                       /\ tasks'[j].owner = tasks[j].owner
<1>1. /\ tasks' \in Seq(Task) /\ Len(tasks') = Len(tasks)
      /\ tasks'[i] = t
      /\ \A j \in 1..Len(tasks) : j # i => tasks'[j] = tasks[j]
  BY RowUpdate DEF TypeOK
<1> QED BY <1>1

\* One run rewritten with its state, control and completion kept.
LEMMA KeptRun ==
    ASSUME TypeOK, NEW r \in Run, NEW run \in RunRow, RunKept(runs[r], run),
           runs' = [runs EXCEPT ![r] = run]
    PROVE  runs' \in [Run -> RunRow] /\ \A x \in Run : RunKept(runs[x], runs'[x])
BY DEF TypeOK, RunKept

\* A business recorded, the businesses carried forward, a score stored.
LEMMA StageResultSteps ==
    ASSUME IInv, NEW s \in Slot,
           \/ \E report \in SUBSET Business : RecordReport(s, report)
           \/ \E carried \in SUBSET Business : CarryForward(s, carried)
           \/ \E qualifies \in BOOLEAN : Score(s, qualifies)
    PROVE  IInv'
<1>1. TypeOK /\ \A i \in 1..Len(tasks) :
          tasks[i] \in Task /\ tasks[i].run \in Run /\ runs[tasks[i].run] \in RunRow
  BY RowTypes DEF IInv, TypeOK, Task
<1>2. ASSUME NEW i \in 1..Len(tasks)
      PROVE  /\ StoreResult(tasks[i]) \in Task
             /\ StoreResult(tasks[i]).run = tasks[i].run
             /\ StoreResult(tasks[i]).status = tasks[i].status
             /\ StoreResult(tasks[i]).owner = tasks[i].owner
  BY <1>1, StoreAssumption DEF StoreResult, Task
<1>3. CASE \E report \in SUBSET Business : RecordReport(s, report)
  <2>1. PICK report \in SUBSET Business, i \in 1..Len(tasks) :
            runs' = [runs EXCEPT ![tasks[i].run] = Record(@, report)]
    BY <1>3 DEF RecordReport
  <2>2. UNCHANGED <<tasks, slots, process, errors>>
    BY <1>3 DEF RecordReport
  <2> DEFINE row == runs[tasks[i].run]
             run == Record(row, report)
  <2>3. run \in RunRow /\ RunKept(row, run)
    BY <1>1 DEF RunRow, RunKept, TargetRemaining, Record
  <2>5. runs' \in [Run -> RunRow] /\ \A x \in Run : RunKept(runs[x], runs'[x])
    <3> HIDE DEF run
    <3>1. runs' = [runs EXCEPT ![tasks[i].run] = run]
      BY <2>1 DEF run
    <3> QED BY <1>1, <2>3, <3>1, KeptRun
  <2> QED BY <1>1, <2>2, <2>5, RowsKeptStep DEF TypeOK
<1>4. CASE \E carried \in SUBSET Business : CarryForward(s, carried)
  <2>1. PICK carried \in SUBSET Business, i \in 1..Len(tasks) :
            /\ runs' = [runs EXCEPT ![tasks[i].run] = Record(@, carried)]
            /\ tasks' = [tasks EXCEPT ![i] = StoreResult(@)]
    BY <1>4 DEF CarryForward
  <2>2. UNCHANGED <<slots, process, errors>>
    BY <1>4 DEF CarryForward
  <2> DEFINE row == runs[tasks[i].run]
             run == Record(row, carried)
  <2>3. run \in RunRow /\ RunKept(row, run)
    BY <1>1, StoreAssumption DEF RunRow, RunKept, TargetRemaining, Record, Qualify
  <2>4. runs' \in [Run -> RunRow] /\ \A x \in Run : RunKept(runs[x], runs'[x])
    <3> HIDE DEF run
    <3>1. runs' = [runs EXCEPT ![tasks[i].run] = run]
      BY <2>1 DEF run
    <3> QED BY <1>1, <2>3, <3>1, KeptRun
  <2>5. /\ tasks' \in Seq(Task) /\ Len(tasks') = Len(tasks)
        /\ \A j \in 1..Len(tasks) : /\ tasks'[j].run = tasks[j].run
                                    /\ tasks'[j].status = tasks[j].status
                                    /\ tasks'[j].owner = tasks[j].owner
    BY <1>1, <1>2, <2>1, KeptRow
  <2> QED BY <2>2, <2>4, <2>5, RowsKeptStep
<1>5. CASE \E qualifies \in BOOLEAN : Score(s, qualifies)
  <2>1. PICK i \in 1..Len(tasks) :
            /\ \/ runs' = runs
               \/ runs' = [runs EXCEPT ![tasks[i].run] = Qualify(@)]
            /\ tasks' = [tasks EXCEPT ![i] = StoreResult(@)]
    BY <1>5 DEF Score
  <2>2. UNCHANGED <<slots, process, errors>>
    BY <1>5 DEF Score
  <2> DEFINE row == runs[tasks[i].run]
             run == Qualify(row)
  <2>3. run \in RunRow /\ RunKept(row, run)
    <3>1. row \in RunRow
      BY <1>1 DEF TypeOK, Task
    <3> HIDE DEF row
    <3>2. run \in RunRow /\ run.qualified = row.qualified + 1 /\ row.qualified \in Nat
          /\ run.state = row.state /\ run.control = row.control
          /\ run.completion = row.completion
      BY <3>1 DEF RunRow, Qualify
    <3> QED BY <3>2, StoreAssumption DEF RunKept, TargetRemaining
  <2>4. runs' \in [Run -> RunRow] /\ \A x \in Run : RunKept(runs[x], runs'[x])
    <3>1. CASE runs' = runs
      BY <1>1, <3>1 DEF TypeOK, RunKept
    <3>2. CASE runs' = [runs EXCEPT ![tasks[i].run] = Qualify(@)]
      <4> HIDE DEF run
      <4>1. runs' = [runs EXCEPT ![tasks[i].run] = run]
        BY <3>2 DEF run
      <4> QED BY <1>1, <2>3, <4>1, KeptRun
    <3> QED BY <2>1, <3>1, <3>2
  <2>5. /\ tasks' \in Seq(Task) /\ Len(tasks') = Len(tasks)
        /\ \A j \in 1..Len(tasks) : /\ tasks'[j].run = tasks[j].run
                                    /\ tasks'[j].status = tasks[j].status
                                    /\ tasks'[j].owner = tasks[j].owner
    BY <1>1, <1>2, <2>1, KeptRow
  <2> QED BY <2>2, <2>4, <2>5, RowsKeptStep
<1> QED BY <1>3, <1>4, <1>5

\* A lease renewed or run out, a retry delay passed.
LEMMA ClockSteps ==
    ASSUME IInv, (\E s \in Slot : RenewLease(s)) \/ Time
    PROVE  IInv'
<1>1. TypeOK /\ \A i \in 1..Len(tasks) : tasks[i] \in Task
  BY RowTypes DEF IInv, TypeOK
<1>2. /\ UNCHANGED <<runs, slots, process, errors>>
      /\ \E i \in 1..Len(tasks), value \in BOOLEAN :
            \/ tasks' = [tasks EXCEPT ![i] = [@ EXCEPT !.expired = value]]
            \/ tasks' = [tasks EXCEPT ![i] = [@ EXCEPT !.due = value]]
  BY DEF RenewLease, Time, LeaseExpires, RetryDelayPasses
<1>3. PICK i \in 1..Len(tasks), value \in BOOLEAN :
          \/ tasks' = [tasks EXCEPT ![i] = [@ EXCEPT !.expired = value]]
          \/ tasks' = [tasks EXCEPT ![i] = [@ EXCEPT !.due = value]]
  BY <1>2
<1>4. \A t \in {[tasks[i] EXCEPT !.expired = value], [tasks[i] EXCEPT !.due = value]} :
          /\ t \in Task /\ t.run = tasks[i].run
          /\ t.status = tasks[i].status /\ t.owner = tasks[i].owner
  BY <1>1 DEF Task
<1>5. /\ tasks' \in Seq(Task) /\ Len(tasks') = Len(tasks)
      /\ \A j \in 1..Len(tasks) : /\ tasks'[j].run = tasks[j].run
                                  /\ tasks'[j].status = tasks[j].status
                                  /\ tasks'[j].owner = tasks[j].owner
  BY <1>1, <1>3, <1>4, KeptRow
<1> QED BY <1>1, <1>2, <1>5, RowsKeptStep DEF TypeOK, RunKept

-----------------------------------------------------------------------------
(* Settlement.                                                             *)

\* What a completed and a failed task have in common: the held row is
\* rewritten, rows of its run may follow, and its run agrees with them.
LEMMA SettlingStep ==
    ASSUME IInv, NEW s \in Slot, NEW i \in 1..Len(tasks), Holds(s, i),
           NEW t \in Task, t.run = tasks[i].run,
           NEW next \in Seq(Task), \A k \in 1..Len(next) : next[k].run = tasks[i].run,
           NEW run \in RunRow, RunConsistent(run, tasks', tasks[i].run),
           tasks' = [tasks EXCEPT ![i] = t] \o next,
           runs' = [runs EXCEPT ![tasks[i].run] = run],
           slots' = [slots EXCEPT ![s] = Seeking],
           process' = process, errors' = errors
    PROVE  IInv'
<1> DEFINE done == [tasks EXCEPT ![i] = t]
           r == tasks[i].run
<1>1. TypeOK /\ ExclusiveExecution /\ RunsConsistent /\ Len(tasks) \in Nat
  BY RowTypes DEF IInv, TypeOK
<1>2. r \in Run
  BY <1>1, RowTypes DEF TypeOK, Task
<1>3. /\ done \in Seq(Task) /\ Len(done) = Len(tasks)
      /\ done[i] = t
      /\ \A j \in 1..Len(tasks) : j # i => done[j] = tasks[j]
  BY <1>1, RowUpdate DEF TypeOK
<1> HIDE DEF done
<1>4. /\ tasks' \in Seq(Task) /\ Len(tasks') = Len(tasks) + Len(next) /\ Len(next) \in Nat
      /\ \A j \in 1..(Len(tasks) + Len(next)) :
            tasks'[j] = IF j <= Len(tasks) THEN done[j] ELSE next[j - Len(tasks)]
  BY <1>3, ConcatProperties, LenProperties DEF done
<1>5. \A j \in 1..Len(tasks) : tasks'[j] = done[j]
  BY <1>1, <1>4
<1>6. TypeOK'
  <2>1. runs' \in [Run -> RunRow]
    BY <1>1, <1>2 DEF TypeOK
  <2>2. slots' \in [Slot -> SlotState]
    BY <1>1 DEF TypeOK, SlotState, Seeking
  <2> QED BY <1>1, <1>4, <2>1, <2>2 DEF TypeOK
<1>7. RunsConsistent'
  <2>1. \A x \in Run \ {r} : runs'[x] = runs[x]
    BY <1>1 DEF TypeOK
  <2>2. \A j \in 1..Len(tasks) :
            /\ tasks'[j].run = tasks[j].run
            /\ tasks[j].run # r => tasks'[j].status = tasks[j].status
    BY <1>3, <1>5
  <2>3. ASSUME NEW j \in 1..Len(tasks'), j > Len(tasks) PROVE tasks'[j].run = r
    <3>1. j - Len(tasks) \in 1..Len(next) /\ tasks'[j] = next[j - Len(tasks)]
      BY <1>1, <1>4, <2>3
    <3> QED BY <3>1
  <2>4. Len(tasks) <= Len(tasks')
    BY <1>1, <1>4
  <2>5. RunConsistent(runs'[r], tasks', r)
    BY <1>1, <1>2 DEF TypeOK
  <2> QED BY <1>1, <1>2, <1>4, <2>1, <2>2, <2>3, <2>4, <2>5, OneRunStep
<1>8. ExclusiveExecution'
  <2>1. ASSUME NEW x \in Slot, slots'[x].phase = "Working"
        PROVE  slots'[x] = slots[x] /\ tasks'[slots[x].task] = tasks[slots[x].task]
    <3>1. x # s /\ slots'[x] = slots[x]
      BY <1>1, <2>1 DEF TypeOK, Seeking
    <3>2. /\ slots[x].task \in 1..Len(tasks) /\ slots[x] \in SlotState
          /\ \A y \in Slot : slots[y] = slots[x] => y = x
      BY <1>1, <2>1, <3>1 DEF ExclusiveExecution, TypeOK
    <3>3. slots[x] = Working(slots[x].task)
      BY <2>1, <3>1, <3>2 DEF SlotState, Working
    <3>4. slots[x].task # i
      BY <3>1, <3>2, <3>3 DEF Holds
    <3> QED BY <1>3, <1>5, <3>1, <3>2, <3>4
  <2>2. Len(tasks') \in Nat /\ Len(tasks) <= Len(tasks')
    BY <1>1, <1>4
  <2> QED BY <1>1, <2>1, <2>2, HeldStep
<1> QED BY <1>6, <1>7, <1>8 DEF IInv

\* The run of a held task can be reconciled with any rows.
LEMMA HeldReconcilable ==
    ASSUME IInv, NEW i \in 1..Len(tasks), tasks[i].status = "Leased"
    PROVE  /\ tasks[i] \in Task /\ tasks[i].run \in Run /\ runs[tasks[i].run] \in RunRow
           /\ runs[tasks[i].run].state \notin Terminal
           /\ \A us : Reconcilable(runs[tasks[i].run], us, tasks[i].run)
<1>1. /\ tasks[i] \in Task /\ tasks[i].run \in Run /\ runs[tasks[i].run] \in RunRow
      /\ RunConsistent(runs[tasks[i].run], tasks, tasks[i].run)
  BY RowTypes DEF IInv, TypeOK, RunsConsistent, Task
<1>2. Has(tasks, tasks[i].run, {"Leased"})
  BY DEF Has
<1> QED BY <1>1, <1>2, LeasedReconcilable

\* A completed task hands its run on, stops with it, or ends it.
LEMMA CompleteStep ==
    ASSUME IInv, NEW s \in Slot, Complete(s)
    PROVE  IInv'
<1>1. PICK i \in 1..Len(tasks) : \E next \in Checkpoints(tasks[i]) :
        LET r == tasks[i].run
            done == [tasks EXCEPT ![i] = CompleteTask(@)]
            reported == tasks[i].stage = "DiscoverBusinesses" /\ next = << >>
        IN  /\ Holds(s, i) /\ Owned(tasks[i])
            /\ tasks' = done \o Handed(runs[r], next)
            /\ runs' = [runs EXCEPT ![r] =
                   IF runs[r].control # "Cancel" /\ reported /\ ~Has(done, r, Active)
                   THEN Settle(@, Ends("Completed", "Search Exhausted"))
                   ELSE Reconcile(@, tasks', r)]
  BY DEF Complete
<1>2. PICK next \in Checkpoints(tasks[i]) :
        LET r == tasks[i].run
            done == [tasks EXCEPT ![i] = CompleteTask(@)]
            reported == tasks[i].stage = "DiscoverBusinesses" /\ next = << >>
        IN  /\ Holds(s, i) /\ Owned(tasks[i])
            /\ tasks' = done \o Handed(runs[r], next)
            /\ runs' = [runs EXCEPT ![r] =
                   IF runs[r].control # "Cancel" /\ reported /\ ~Has(done, r, Active)
                   THEN Settle(@, Ends("Completed", "Search Exhausted"))
                   ELSE Reconcile(@, tasks', r)]
  BY <1>1
<1> DEFINE r == tasks[i].run
           t == CompleteTask(tasks[i])
           done == [tasks EXCEPT ![i] = t]
           added == Handed(runs[r], next)
           exhausted == /\ runs[r].control # "Cancel"
                        /\ tasks[i].stage = "DiscoverBusinesses" /\ next = << >>
                        /\ ~Has(done, r, Active)
           run == IF exhausted THEN Settle(runs[r], Ends("Completed", "Search Exhausted"))
                  ELSE Reconcile(runs[r], tasks', r)
<1>3. TypeOK /\ tasks \in Seq(Task) /\ tasks[i].status = "Leased"
  BY <1>2 DEF IInv, TypeOK, Owned
<1>4. /\ tasks[i] \in Task /\ r \in Run /\ runs[r] \in RunRow
      /\ Reconcilable(runs[r], tasks', r)
  BY <1>3, HeldReconcilable
<1>5. t \in Task /\ t.run = r
  BY <1>4, RowUpdates
<1>6. done \in Seq(Task)
  <2> HIDE DEF t
  <2> QED BY <1>3, <1>5, RowUpdate
<1>7. added \in Seq(Task) /\ \A k \in 1..Len(added) : added[k].run = r
  BY <1>3, CheckpointRows, EmptySeq DEF Handed
<1>8. /\ tasks' = done \o added
      /\ runs' = [runs EXCEPT ![r] = run]
  BY <1>2
<1>9. run \in RunRow /\ RunConsistent(run, tasks', r)
  <2>1. CASE exhausted
    <3> DEFINE new == Settle(runs[r], Ends("Completed", "Search Exhausted"))
    <3>1. /\ new \in RunRow /\ new.state = "Completed" /\ new.control = None
          /\ new.completion = "Search Exhausted"
      BY <1>4 DEF Settle, Ends, RunRow, State, Control, Completion, Verdict, CleanOutcome
    <3>2. tasks' = done
      BY <1>6, <1>8, <2>1, ConcatEmptySeq DEF Handed
    <3>3. run = new
      BY <2>1
    <3> HIDE DEF new, run, done
    <3>4. ~Has(tasks', r, Active)
      BY <2>1, <3>2
    <3> QED BY <3>1, <3>3, <3>4 DEF RunConsistent, None, Verdict, CleanOutcome
  <2>2. CASE ~exhausted
    BY <1>4, <2>2, ReconcileConsistent
  <2> QED BY <2>1, <2>2
<1>10. /\ Holds(s, i) /\ slots' = [slots EXCEPT ![s] = Seeking]
       /\ process' = process /\ errors' = errors
  BY <1>2 DEF Complete
<1> HIDE DEF t, added, run
<1> QED BY <1>5, <1>7, <1>8, <1>9, <1>10, SettlingStep

\* A failed task is retried, blocks its run, or counts against it.
LEMMA FailStep ==
    ASSUME IInv, NEW s \in Slot, Fail(s)
    PROVE  IInv'
<1>1. PICK i \in 1..Len(tasks) : \E class \in Failures(tasks[i]) :
        /\ Holds(s, i) /\ Owned(tasks[i])
        /\ tasks' = [tasks EXCEPT ![i] = FailTask(@, class)]
        /\ runs' = [runs EXCEPT ![tasks[i].run] = Reconcile(@, tasks', tasks[i].run)]
  BY DEF Fail
<1>2. PICK class \in Failures(tasks[i]) :
        /\ Holds(s, i) /\ Owned(tasks[i])
        /\ tasks' = [tasks EXCEPT ![i] = FailTask(@, class)]
        /\ runs' = [runs EXCEPT ![tasks[i].run] = Reconcile(@, tasks', tasks[i].run)]
  BY <1>1
<1> DEFINE r == tasks[i].run
           t == FailTask(tasks[i], class)
           run == Reconcile(runs[r], tasks', r)
           added == << >>
<1>3. tasks \in Seq(Task) /\ tasks[i].status = "Leased"
  BY <1>2 DEF IInv, TypeOK, Owned
<1>4. /\ tasks[i] \in Task /\ r \in Run /\ runs[r] \in RunRow
      /\ Reconcilable(runs[r], tasks', r)
  BY <1>3, HeldReconcilable
<1>5. t \in Task /\ t.run = r
  BY <1>4, RowUpdates
<1>6. run \in RunRow /\ RunConsistent(run, tasks', r)
  BY <1>4, ReconcileConsistent
<1>7. tasks' = [tasks EXCEPT ![i] = t] \o added /\ runs' = [runs EXCEPT ![r] = run]
  <2>1. tasks' = [tasks EXCEPT ![i] = t] /\ runs' = [runs EXCEPT ![r] = run]
    BY <1>2
  <2>2. [tasks EXCEPT ![i] = t] \in Seq(Task)
    <3> HIDE DEF t
    <3> QED BY <1>3, <1>5, RowUpdate
  <2> QED BY <2>1, <2>2, ConcatEmptySeq
<1>8. added \in Seq(Task) /\ \A k \in 1..Len(added) : added[k].run = r
  BY EmptySeq
<1>9. /\ Holds(s, i) /\ slots' = [slots EXCEPT ![s] = Seeking]
      /\ process' = process /\ errors' = errors
  BY <1>2 DEF Fail
<1> HIDE DEF t, run, added
<1> QED BY <1>5, <1>6, <1>7, <1>8, <1>9, SettlingStep

-----------------------------------------------------------------------------
(* The theorems.                                                           *)

\* The invariant holds of a database with no runs and no worker slots busy.
LEMMA InitIInv == Init => IInv
<1> SUFFICES ASSUME Init PROVE IInv
  OBVIOUS
<1>1. tasks \in Seq(Task) /\ Len(tasks) = 0
  BY EmptySeq DEF Init
<1>2. \A r \in Run : runs[r] = AbsentRun(CHOOSE x \in Runtime : TRUE)
  BY DEF Init
<1>3. AbsentRun(CHOOSE x \in Runtime : TRUE) \in RunRow
  BY StoreAssumption DEF AbsentRun, RunRow, State, Control, Completion
<1>4. TypeOK
  BY <1>1, <1>3 DEF Init, TypeOK, SlotState, Idle
<1>5. ExclusiveExecution
  BY DEF Init, ExclusiveExecution, Idle
<1>6. RunsConsistent
  <2>1. \A r \in Run : runs[r].state = "Absent" /\ runs[r].control = None
                       /\ runs[r].completion = None
    <3> DEFINE row == AbsentRun(CHOOSE x \in Runtime : TRUE)
    <3>1. row.state = "Absent" /\ row.control = None /\ row.completion = None
      BY DEF AbsentRun
    <3> HIDE DEF row
    <3>2. \A r \in Run : runs[r] = row
      BY <1>2 DEF row
    <3> QED BY <3>1, <3>2
  <2>2. \A r, statuses : ~Has(tasks, r, statuses)
    BY <1>1 DEF Has
  <2> QED BY <2>1, <2>2 DEF RunsConsistent, RunConsistent
<1> QED BY <1>4, <1>5, <1>6 DEF IInv

\* Every step of the web process, the worker, the clock and a crash keeps it.
LEMMA NextIInv == IInv /\ [Next]_vars => IInv'
<1> SUFFICES ASSUME IInv, [Next]_vars PROVE IInv'
  OBVIOUS
<1>1. CASE Web
  BY <1>1, CreateRunStep, PauseStep, ResumeStep, CancelStep DEF Web
<1>2. CASE StartCycle
  BY <1>2, StartCycleStep
<1>3. ASSUME NEW s \in Slot, Claim(s) PROVE IInv'
  BY <1>3, ClaimStep
<1>4. ASSUME NEW s \in Slot, LeaveCycle(s) \/ ClaimError(s) \/ SettlementError(s) PROVE IInv'
  BY <1>4, SlotSteps
<1>5. ASSUME NEW s \in Slot,
             \/ \E report \in SUBSET Business : RecordReport(s, report)
             \/ \E carried \in SUBSET Business : CarryForward(s, carried)
             \/ \E qualifies \in BOOLEAN : Score(s, qualifies)
      PROVE  IInv'
  BY <1>5, StageResultSteps
<1>6. ASSUME NEW s \in Slot, Complete(s) \/ Fail(s) PROVE IInv'
  BY <1>6, CompleteStep, FailStep
<1>7. ASSUME NEW s \in Slot, RenewLease(s) PROVE IInv'
  BY <1>7, ClockSteps
<1>8. CASE Time
  BY <1>8, ClockSteps
<1>9. CASE Crash
  BY <1>9, SlotSteps
<1>10. CASE UNCHANGED vars
  BY <1>10 DEF vars, IInv, TypeOK, ExclusiveExecution, Owned, RunsConsistent
<1> QED
  BY <1>1, <1>2, <1>3, <1>4, <1>5, <1>6, <1>7, <1>8, <1>9, <1>10 DEF Next, Worker, Seek, Finish

\* The inductive invariant: types, exclusive execution and the agreement of
\* every run with its tasks hold in every reachable state.
THEOREM InductiveInvariant == Spec => []IInv
BY InitIInv, NextIInv, PTL DEF Spec

\* Rows and slots keep their types through every settlement and recovery.
THEOREM TypeCorrectness == Spec => []TypeOK
<1>1. IInv => TypeOK
  BY DEF IInv
<1> QED BY <1>1, InductiveInvariant, PTL

\* No task is executed twice at once and no settlement is refused, for any
\* number of slots, crashes and expired leases.
THEOREM ExecutionIsExclusive == Spec => []ExclusiveExecution
<1>1. IInv => ExclusiveExecution
  BY DEF IInv
<1> QED BY <1>1, InductiveInvariant, PTL

\* Every run agrees with its tasks, whatever controls, settlements and
\* recoveries interleave.
THEOREM RunsAreConsistent == Spec => []RunsConsistent
<1>1. IInv => RunsConsistent
  BY DEF IInv
<1> QED BY <1>1, InductiveInvariant, PTL

\* A live run has work, a stopping run a lease, a paused run something to
\* resume, and a settled run nothing in execution.
THEOREM RunStatesAreHonest == Spec => []StatesAreHonest
<1>1. IInv => StatesAreHonest
  BY DEF IInv, RunsConsistent, RunConsistent, StatesAreHonest, LiveRunHasWork,
         StoppingRunHasLease, PausedRunCanResume, SettledRunIsQuiet, Leased
<1> QED BY <1>1, InductiveInvariant, PTL

\* Reconciling a cancelled run cancels it again, and recovery does no more.
LEMMA RecoveryKeepsSettled ==
    ASSUME NEW run \in RunRow, NEW ts \in Seq(Task), NEW us, NEW r \in Run,
           RunConsistent(run, ts, r), run.state \in Terminal,
           run.state = "Completed" => ~Has(us, r, Active)
    PROVE  /\ RecoveredRun(run, ts, us, r).state = run.state
           /\ RecoveredRun(run, ts, us, r).completion = run.completion
<1> DEFINE ex == AfterExhaustion(run, ts, r)
           done == Recovered(ts)
<1>1. CorrectTarget(run) = run
  <2>1. TargetRemaining(run) = 0 => ~(TargetRemaining(run) > 0)
    OBVIOUS
  <2> QED BY <2>1 DEF CorrectTarget, RunConsistent
<1>2. ~Has(done, r, {"Leased"})
  <2>1. ~Has(ts, r, {"Leased"})
    BY HasFacts DEF RunConsistent, Terminal
  <2>2. /\ Len(done) = Len(ts)
        /\ \A i \in 1..Len(ts) : /\ done[i].run = ts[i].run
                                 /\ done[i].status = "Leased" => ts[i].status = "Leased"
    BY RecoveredRows
  <2> HIDE DEF done
  <2> QED BY <2>1, <2>2 DEF Has
<1>3. ex.state = run.state /\ ex.completion = run.completion
  <2>1. CASE \E i \in 1..Len(ts) : ts[i].run = r /\ Exhausted(ts[i])
    <3>1. Has(ts, r, Active)
      BY <2>1 DEF Has, Exhausted, Abandoned, Active
    <3>2. /\ run.state = "Cancelled" /\ run.control = "Cancel"
          /\ run.completion = "Cancelled with Partial Results"
      BY <3>1 DEF RunConsistent, Terminal
    <3>3. ex = [run EXCEPT !.state = "Cancelled",
                           !.completion = "Cancelled with Partial Results"]
      BY <1>1, <1>2, <2>1, <3>2 DEF AfterExhaustion, Reconcile
    <3> QED BY <3>2, <3>3 DEF RunRow
  <2>2. CASE ~\E i \in 1..Len(ts) : ts[i].run = r /\ Exhausted(ts[i])
    BY <1>1, <2>2 DEF AfterExhaustion
  <2> QED BY <2>1, <2>2
<1> HIDE DEF ex
<1>4. ~Stranded(ex, done, r)
  BY <1>3 DEF Stranded, Terminal
<1>5. RecoveredRun(run, ts, us, r) = Reopen(ex, us, r)
  BY <1>4 DEF RecoveredRun, ex
<1>6. Reopen(ex, us, r) = ex
  BY <1>3 DEF Reopen
<1> QED BY <1>3, <1>5, <1>6

\* No step changes the state or the outcome of a settled run.
LEMMA SettledStep ==
    ASSUME IInv, IInv', [Next]_vars, NEW r \in Run, runs[r].state \in Terminal
    PROVE  runs'[r].state = runs[r].state /\ runs'[r].completion = runs[r].completion
<1>1. /\ runs \in [Run -> RunRow] /\ tasks \in Seq(Task)
      /\ RunConsistent(runs[r], tasks, r)
      /\ \A i \in 1..Len(tasks) : tasks[i] \in Task /\ tasks[i].run \in Run
  BY RowTypes DEF IInv, TypeOK, RunsConsistent, Task
<1>2. \A i \in 1..Len(tasks) : Owned(tasks[i]) => tasks[i].run # r
  BY HeldReconcilable DEF Owned
<1>3. CASE Web
  <2>1. ASSUME NEW x \in Run,
               \/ \E reassess \in BOOLEAN, runtime \in Runtime : CreateRun(x, reassess, runtime)
               \/ Pause(x) \/ Cancel(x)
               \/ \E runtime \in Runtime : Resume(x, runtime)
        PROVE  runs'[r] = runs[r]
    <3>1. x # r
      BY <2>1 DEF CreateRun, Pause, Cancel, Resume, Controllable, Terminal
    <3> QED BY <1>1, <2>1, <3>1 DEF CreateRun, Pause, Cancel, Resume
  <2> QED BY <1>3, <2>1 DEF Web
<1>4. CASE StartCycle
  <2>1. runs'[r] = RecoveredRun(runs[r], tasks, tasks', r)
    BY <1>4 DEF StartCycle
  <2>2. ASSUME runs[r].state = "Completed" PROVE ~Has(tasks', r, Active)
    <3> DEFINE done == Recovered(tasks)
               swept(x) == AfterExhaustion(runs[x], tasks, x).state = "Cancelling"
                           /\ Stranded(AfterExhaustion(runs[x], tasks, x), done, x)
    <3>1. tasks' = [i \in 1..Len(tasks) |->
                      IF done[i].status \in {"Pending", "Blocked"} /\ swept(done[i].run)
                      THEN CancelTask(done[i]) ELSE done[i]]
      BY <1>4 DEF StartCycle, RecoveredTasks
    <3> HIDE DEF swept
    <3>2. /\ Len(tasks) \in Nat /\ done \in Seq(Task) /\ Len(done) = Len(tasks)
          /\ \A i \in 1..Len(tasks) : /\ done[i] = RecoverTask(tasks[i])
                                      /\ done[i].run = tasks[i].run
      BY <1>1, RecoveredRows, RowTypes
    <3> HIDE DEF done
    <3>3. \A i \in 1..Len(tasks) : /\ CancelTask(done[i]).run = tasks[i].run
                                   /\ CancelTask(done[i]).status = "Cancelled"
      BY <3>2, RowTypes DEF CancelTask, Task
    <3>4. \A i \in 1..Len(tasks) : tasks[i].run = r => done[i] = tasks[i]
      BY <1>1, <2>2, <3>2 DEF RunConsistent, Has, RecoverTask, Exhausted, Abandoned, Active
    <3>5. Len(tasks') = Len(tasks)
      BY <3>1, <3>2, LenProperties DEF IInv, TypeOK
    <3>6. \A i \in 1..Len(tasks) : /\ tasks'[i].run = tasks[i].run
                                   /\ tasks'[i] = done[i] \/ tasks'[i].status = "Cancelled"
      BY <3>1, <3>2, <3>3
    <3>7. \A i \in 1..Len(tasks) : tasks[i].run = r => tasks[i].status \notin Active
      BY <1>1, <2>2 DEF Has, RunConsistent
    <3>8. \A i \in 1..Len(tasks) : tasks'[i].run = r => tasks'[i].status \notin Active
      BY <3>4, <3>6, <3>7 DEF Active
    <3> QED BY <3>5, <3>8 DEF Has
  <2> QED BY <1>1, <2>1, <2>2, RecoveryKeepsSettled
<1>5. ASSUME NEW s \in Slot, Claim(s) PROVE runs'[r] = runs[r]
  <2>1. PICK i \in 1..Len(tasks) :
          /\ Claimable(i)
          /\ runs' = [runs EXCEPT ![tasks[i].run] = [@ EXCEPT !.state = "Running"]]
    BY <1>5 DEF Claim
  <2> QED BY <1>1, <2>1 DEF Claimable
<1>6. ASSUME NEW s \in Slot,
             \/ \E report \in SUBSET Business : RecordReport(s, report)
             \/ \E carried \in SUBSET Business : CarryForward(s, carried)
             \/ \E qualifies \in BOOLEAN : Score(s, qualifies)
      PROVE  runs'[r].state = runs[r].state /\ runs'[r].completion = runs[r].completion
  <2>1. \E i \in 1..Len(tasks) :
            \/ runs' = runs
            \/ \E found : runs' = [runs EXCEPT ![tasks[i].run] = Record(@, found)]
            \/ runs' = [runs EXCEPT ![tasks[i].run] = Qualify(@)]
    BY <1>6 DEF RecordReport, CarryForward, Score
  <2>2. /\ \A found : /\ Record(runs[r], found).state = runs[r].state
                      /\ Record(runs[r], found).completion = runs[r].completion
        /\ Qualify(runs[r]).state = runs[r].state
        /\ Qualify(runs[r]).completion = runs[r].completion
    BY <1>1 DEF Record, Qualify, RunRow
  <2> QED BY <1>1, <2>1, <2>2
<1>7. ASSUME NEW s \in Slot, Complete(s) \/ Fail(s) PROVE runs'[r] = runs[r]
  BY <1>1, <1>2, <1>7 DEF Complete, Fail
<1>8. ASSUME \/ \E s \in Slot : LeaveCycle(s) \/ ClaimError(s) \/ SettlementError(s) \/ RenewLease(s)
             \/ Time \/ Crash \/ UNCHANGED vars
      PROVE  runs' = runs
  BY <1>8 DEF LeaveCycle, ClaimError, SettlementError, RenewLease, Time, LeaseExpires,
              RetryDelayPasses, Crash, vars
<1> QED
  BY <1>3, <1>4, <1>5, <1>6, <1>7, <1>8 DEF Next, Worker, Seek, Finish

\* A settled run is final: no control, late settlement, claim or recovery
\* sweep of any cycle changes its state or its outcome.
THEOREM SettledIsFinal == Spec => SettledRunIsFinal
<1>1. IInv /\ IInv' /\ [Next]_vars =>
        [\A r \in Run : runs[r].state \in Terminal =>
           runs'[r].state = runs[r].state /\ runs'[r].completion = runs[r].completion]_vars
  BY SettledStep
<1> QED BY <1>1, InductiveInvariant, PTL DEF Spec, SettledRunIsFinal

\* Two of recovery's repairs never find anything to repair: no run stands as
\* having reached a target it has not reached (CorrectTarget), and none that
\* is or becomes completed has work left to reopen it for (Reopen).  What
\* recovery does to a run is to reconcile it, for its exhausted tasks or
\* because nobody is left to stop it.
THEOREM RecoveryRepairsNothing ==
    Spec => [][StartCycle =>
                  \A r \in Run : /\ CorrectTarget(runs[r]) = runs[r]
                                 /\ runs'[r] = SettledBy(runs[r], tasks, tasks', r)]_vars
<1>1. IInv /\ StartCycle => \A r \in Run : /\ CorrectTarget(runs[r]) = runs[r]
                                           /\ runs'[r] = SettledBy(runs[r], tasks, tasks', r)
  <2> SUFFICES ASSUME IInv, StartCycle, NEW r \in Run
               PROVE  /\ CorrectTarget(runs[r]) = runs[r]
                      /\ runs'[r] = SettledBy(runs[r], tasks, tasks', r)
    OBVIOUS
  <2>1. runs'[r] = SettledBy(runs[r], tasks, tasks', r)
    BY RecoveredRuns
  <2>2. TargetRemaining(runs[r]) = 0 => ~(TargetRemaining(runs[r]) > 0)
    OBVIOUS
  <2>3. CorrectTarget(runs[r]) = runs[r]
    BY <2>2 DEF CorrectTarget, IInv, RunsConsistent, RunConsistent
  <2> QED BY <2>1, <2>3
<1> QED BY <1>1, InductiveInvariant, PTL DEF Spec

-----------------------------------------------------------------------------
(* Checkpoints and attempts.                                               *)

\* What a step may not take from a row.
RowKept(t, u) ==
    (t.status = "Completed" => u.status = "Completed") /\ u.attempts >= t.attempts

\* A row left alone keeps everything, and keeping composes.
LEMMA RowKeptFacts ==
    ASSUME NEW t \in Task, NEW u \in Task, NEW v \in Task
    PROVE  /\ RowKept(t, t)
           /\ RowKept(t, u) /\ RowKept(u, v) => RowKept(t, v)
<1>1. t.attempts \in Nat /\ u.attempts \in Nat /\ v.attempts \in Nat
  BY StoreAssumption DEF Task
<1> QED BY <1>1 DEF RowKept

\* Each update of a row keeps a completed checkpoint and gives no attempt back.
LEMMA UpdatesKeep ==
    ASSUME NEW t \in Task
    PROVE  /\ \A p \in Nat : t.status = "Pending" => RowKept(t, Lease(t, p))
           /\ t.status = "Leased" => RowKept(t, CompleteTask(t))
           /\ t.status = "Leased" => \A class : RowKept(t, FailTask(t, class))
           /\ t.status \in {"Pending", "Blocked"} => RowKept(t, CancelTask(t))
           /\ RowKept(t, StoreResult(t))
           /\ RowKept(t, RecoverTask(t))
           /\ \A r, runtime : RowKept(t, Unblock(ChangeRuntime(t, r, runtime), r))
<1>1. t.attempts \in Nat /\ MaxAttempts \in Nat
  BY StoreAssumption DEF Task
<1>2. \A p \in Nat : t.status = "Pending" => RowKept(t, Lease(t, p))
  BY <1>1 DEF RowKept, Lease, Task
<1>3. ASSUME NEW status
      PROVE  Unlease(t, status).attempts = t.attempts /\ Unlease(t, status).infra = t.infra
  BY DEF Unlease, Task
<1>4. CompleteTask(t).attempts = t.attempts
  BY DEF CompleteTask, Unlease, Task
<1>5. \A class : FailTask(t, class).attempts = t.attempts
  BY DEF FailTask, Unlease, Task
<1>6. t.status \in {"Pending", "Blocked"} => RowKept(t, CancelTask(t))
  BY <1>1 DEF RowKept, CancelTask, Task
<1>7. RowKept(t, StoreResult(t))
  BY <1>1 DEF RowKept, StoreResult, Task
<1>8. RowKept(t, RecoverTask(t))
  <2>1. CASE ~Abandoned(t)
    BY <1>1, <2>1 DEF RecoverTask, Exhausted, RowKept
  <2>2. CASE Abandoned(t)
    <3>1. t.status # "Completed"
      BY <2>2 DEF Abandoned
    <3>2. RecoverTask(t).attempts = t.attempts
      BY <2>2 DEF RecoverTask, Unlease, Task
    <3> QED BY <1>1, <3>1, <3>2 DEF RowKept
  <2> QED BY <2>1, <2>2
<1>9. ASSUME NEW r, NEW runtime
      PROVE  RowKept(t, Unblock(ChangeRuntime(t, r, runtime), r))
  <2> DEFINE u == ChangeRuntime(t, r, runtime)
  <2>1. u.status = t.status /\ u.attempts = t.attempts /\ u.run = t.run
    BY DEF ChangeRuntime, Task
  <2>2. Unblock(u, r).attempts = u.attempts
    BY <2>1 DEF Unblock, UnblockTask, ChangeRuntime, Task
  <2>3. t.status = "Completed" => Unblock(u, r).status = "Completed"
    BY <2>1 DEF Unblock
  <2> QED BY <1>1, <2>1, <2>2, <2>3 DEF RowKept
<1> QED BY <1>1, <1>2, <1>4, <1>5, <1>6, <1>7, <1>8, <1>9 DEF RowKept

\* A task fails with a classification.
LEMMA FailureClasses ==
    ASSUME TypeOK, NEW i \in 1..Len(tasks)
    PROVE  Failures(tasks[i]) \subseteq Classification
<1>1. tasks[i].stage \in RunStage \cup BusinessStage
  BY RowTypes DEF TypeOK, Task
<1>2. tasks[i].stage \notin RunStage => StageFailures[tasks[i].stage] \subseteq Classification
  BY <1>1, StoreAssumption
<1> QED BY <1>1, <1>2 DEF Failures, SeedFailures, Classification, RunStage

\* Every way a step changes a row of a run.
RowChanged(t, u, run) ==
    \/ u = t
    \/ t.status = "Pending" /\ run.control = None /\ \E p \in Nat : u = Lease(t, p)
    \/ t.status = "Leased" /\ u = CompleteTask(t)
    \/ t.status = "Leased" /\ \E class \in Classification : u = FailTask(t, class)
    \/ t.status \in {"Pending", "Blocked"} /\ u = CancelTask(t)
    \/ u = StoreResult(t)
    \/ u = RecoverTask(t)
    \/ RecoverTask(t).status \in {"Pending", "Blocked"} /\ u = CancelTask(RecoverTask(t))
    \/ \E r, runtime : u = Unblock(ChangeRuntime(t, r, runtime), r)
    \/ \E b \in BOOLEAN : u = [t EXCEPT !.expired = b]
    \/ u = [t EXCEPT !.due = TRUE]

\* Every step leaves a row alone or updates it in one of these ways.
LEMMA RowsChange ==
    ASSUME IInv, [Next]_vars, NEW i \in 1..Len(tasks)
    PROVE  RowChanged(tasks[i], tasks'[i], runs[tasks[i].run])
<1> DEFINE Goal == RowChanged(tasks[i], tasks'[i], runs[tasks[i].run])
<1>1. /\ tasks \in Seq(Task) /\ Len(tasks) \in Nat /\ tasks[i] \in Task /\ process \in Nat
  BY RowTypes DEF IInv, TypeOK
<1>2. ASSUME tasks' = tasks PROVE Goal
  BY <1>1, <1>2 DEF RowChanged
<1>3. ASSUME NEW r \in Run, NEW reassess \in BOOLEAN, NEW runtime \in Runtime,
             CreateRun(r, reassess, runtime)
      PROVE  Goal
  <2> DEFINE row == NewTask(r, None, "RunPlanning", runtime)
  <2>1. tasks' = Append(tasks, row)
    BY <1>3 DEF CreateRun
  <2>2. row \in Task
    BY NewTaskType DEF RunStage
  <2> HIDE DEF row
  <2>3. tasks'[i] = tasks[i]
    BY <1>1, <2>1, <2>2, AppendProperties
  <2> QED BY <2>3 DEF RowChanged
<1>4. ASSUME NEW r \in Run, NEW runtime \in Runtime, Resume(r, runtime)
      PROVE  Goal
  <2>1. tasks'[i] = Unblock(ChangeRuntime(tasks[i], r, runtime), r)
    BY <1>4 DEF Resume
  <2> QED BY <1>1, <2>1 DEF RowChanged
<1>5. ASSUME NEW r \in Run, Cancel(r) PROVE Goal
  <2>1. tasks'[i] = IF tasks[i].run = r /\ tasks[i].status \in {"Pending", "Blocked"}
                    THEN CancelTask(tasks[i]) ELSE tasks[i]
    BY <1>5 DEF Cancel
  <2> QED BY <1>1, <2>1 DEF RowChanged
<1>6. CASE StartCycle
  <2> DEFINE u == RecoverTask(tasks[i])
  <2>1. Recovered(tasks)[i] = u /\ u \in Task
    BY <1>1, RecoveredRows, RowUpdates
  <2>2. tasks'[i] = u \/ (u.status \in {"Pending", "Blocked"} /\ tasks'[i] = CancelTask(u))
    BY <1>6, <2>1 DEF StartCycle, RecoveredTasks
  <2> QED BY <2>2 DEF RowChanged
<1>7. ASSUME NEW s \in Slot, Claim(s) PROVE Goal
  <2>1. PICK j \in 1..Len(tasks) :
            Claimable(j) /\ tasks' = [tasks EXCEPT ![j] = Lease(@, process)]
    BY <1>7 DEF Claim
  <2>2. tasks'[i] = tasks[i] \/ (i = j /\ tasks'[i] = Lease(tasks[i], process))
    BY <1>1, <2>1
  <2> QED BY <1>1, <2>1, <2>2 DEF Claimable, RowChanged
<1>8. ASSUME NEW s \in Slot,
             \/ \E carried \in SUBSET Business : CarryForward(s, carried)
             \/ \E qualifies \in BOOLEAN : Score(s, qualifies)
      PROVE  Goal
  <2>1. PICK j \in 1..Len(tasks) : tasks' = [tasks EXCEPT ![j] = StoreResult(@)]
    BY <1>8 DEF CarryForward, Score
  <2>2. tasks'[i] = tasks[i] \/ tasks'[i] = StoreResult(tasks[i])
    BY <1>1, <2>1
  <2> QED BY <2>2 DEF RowChanged
<1>9. ASSUME NEW s \in Slot, Complete(s) PROVE Goal
  <2>1. PICK j \in 1..Len(tasks) :
            /\ Owned(tasks[j])
            /\ \E next \in Checkpoints(tasks[j]) :
                   tasks' = [tasks EXCEPT ![j] = CompleteTask(@)] \o Handed(runs[tasks[j].run], next)
    BY <1>9 DEF Complete
  <2>8. PICK next \in Checkpoints(tasks[j]) :
            tasks' = [tasks EXCEPT ![j] = CompleteTask(@)] \o Handed(runs[tasks[j].run], next)
    BY <2>1
  <2> DEFINE done == [tasks EXCEPT ![j] = CompleteTask(@)]
             handed == Handed(runs[tasks[j].run], next)
  <2>2. tasks[j] \in Task /\ CompleteTask(tasks[j]) \in Task
    BY <1>1, RowTypes, RowUpdates
  <2>3. done \in Seq(Task) /\ Len(done) = Len(tasks)
    BY <1>1, <2>2, RowUpdate
  <2>4. handed \in Seq(Task)
    BY CheckpointRows, EmptySeq DEF Handed, IInv
  <2>5. done[i] = tasks[i] \/ (i = j /\ done[i] = CompleteTask(tasks[i]))
    BY <1>1
  <2>6. tasks' = done \o handed
    BY <2>8
  <2> HIDE DEF done, handed
  <2>7. tasks'[i] = done[i]
    BY <2>3, <2>4, <2>6, ConcatProperties
  <2> QED BY <2>1, <2>5, <2>7 DEF Owned, RowChanged
<1>10. ASSUME NEW s \in Slot, Fail(s) PROVE Goal
  <2>1. PICK j \in 1..Len(tasks) :
            Owned(tasks[j]) /\ \E class \in Classification : tasks' = [tasks EXCEPT ![j] = FailTask(@, class)]
    BY <1>10, FailureClasses DEF Fail, IInv
  <2>2. tasks'[i] = tasks[i] \/ (i = j /\ \E class \in Classification : tasks'[i] = FailTask(tasks[i], class))
    BY <1>1, <2>1
  <2> QED BY <2>1, <2>2 DEF Owned, RowChanged
<1>11. ASSUME (\E s \in Slot : RenewLease(s)) \/ Time PROVE Goal
  <2>1. PICK j \in 1..Len(tasks) :
            \/ \E b \in BOOLEAN : tasks' = [tasks EXCEPT ![j] = [@ EXCEPT !.expired = b]]
            \/ tasks' = [tasks EXCEPT ![j] = [@ EXCEPT !.due = TRUE]]
    BY <1>11 DEF RenewLease, Time, LeaseExpires, RetryDelayPasses
  <2>2. CASE \E b \in BOOLEAN : tasks' = [tasks EXCEPT ![j] = [@ EXCEPT !.expired = b]]
    <3>1. PICK b \in BOOLEAN : tasks' = [tasks EXCEPT ![j] = [@ EXCEPT !.expired = b]]
      BY <2>2
    <3>2. CASE i = j
      <4> DEFINE row == [tasks[j] EXCEPT !.expired = b]
      <4>2. tasks' = [tasks EXCEPT ![j] = row]
        BY <3>1
      <4>3. row = [tasks[i] EXCEPT !.expired = b]
        BY <3>2
      <4> HIDE DEF row
      <4>4. tasks'[i] = row
        BY <1>1, <3>2, <4>2
      <4>1. tasks'[i] = [tasks[i] EXCEPT !.expired = b]
        BY <4>3, <4>4
      <4> QED BY <4>1 DEF RowChanged
    <3>3. CASE i # j
      <4>1. tasks'[i] = tasks[i]
        BY <1>1, <3>1, <3>3
      <4> QED BY <4>1 DEF RowChanged
    <3> QED BY <3>2, <3>3
  <2>3. CASE tasks' = [tasks EXCEPT ![j] = [@ EXCEPT !.due = TRUE]]
    <3>1. CASE i = j
      <4> DEFINE row == [tasks[j] EXCEPT !.due = TRUE]
      <4>2. tasks' = [tasks EXCEPT ![j] = row]
        BY <2>3
      <4>3. row = [tasks[i] EXCEPT !.due = TRUE]
        BY <3>1
      <4> HIDE DEF row
      <4>4. tasks'[i] = row
        BY <1>1, <3>1, <4>2
      <4>1. tasks'[i] = [tasks[i] EXCEPT !.due = TRUE]
        BY <4>3, <4>4
      <4> QED BY <4>1 DEF RowChanged
    <3>2. CASE i # j
      <4>1. tasks'[i] = tasks[i]
        BY <1>1, <2>3, <3>2
      <4> QED BY <4>1 DEF RowChanged
    <3> QED BY <3>1, <3>2
  <2> QED BY <2>1, <2>2, <2>3
<1>12. ASSUME \/ \E r \in Run : Pause(r)
              \/ \E s \in Slot : LeaveCycle(s) \/ ClaimError(s) \/ SettlementError(s)
              \/ \E s \in Slot, report \in SUBSET Business : RecordReport(s, report)
              \/ Crash \/ UNCHANGED vars
       PROVE  tasks' = tasks
  BY <1>12 DEF Pause, LeaveCycle, ClaimError, SettlementError, RecordReport, Crash, vars
<1> QED
  BY <1>2, <1>3, <1>4, <1>5, <1>6, <1>7, <1>8, <1>9, <1>10, <1>11, <1>12
  DEF Next, Web, Worker, Seek, Finish

\* No step takes a checkpoint or an attempt from a row.
LEMMA RowsKeptBySteps ==
    ASSUME IInv, [Next]_vars, NEW i \in 1..Len(tasks)
    PROVE  RowKept(tasks[i], tasks'[i])
<1> DEFINE t == tasks[i]
           u == RecoverTask(t)
<1>1. t \in Task /\ u \in Task
  BY RowTypes, RowUpdates DEF IInv, TypeOK
<1>2. RowKept(t, t) /\ RowKept(t, u)
  BY <1>1, RowKeptFacts, UpdatesKeep
<1>3. u.status \in {"Pending", "Blocked"} => RowKept(t, CancelTask(u))
  <2> HIDE DEF t, u
  <2>1. CancelTask(u) \in Task
    BY <1>1, RowUpdates
  <2> QED BY <1>1, <1>2, <2>1, UpdatesKeep, RowKeptFacts
<1>4. /\ \A b \in BOOLEAN : RowKept(t, [t EXCEPT !.expired = b])
      /\ RowKept(t, [t EXCEPT !.due = TRUE])
  BY <1>1, StoreAssumption DEF RowKept, Task
<1>5. /\ \A p \in Nat : t.status = "Pending" => RowKept(t, Lease(t, p))
      /\ t.status = "Leased" => RowKept(t, CompleteTask(t))
      /\ t.status = "Leased" => \A class \in Classification : RowKept(t, FailTask(t, class))
      /\ t.status \in {"Pending", "Blocked"} => RowKept(t, CancelTask(t))
      /\ RowKept(t, StoreResult(t))
      /\ \A r, runtime : RowKept(t, Unblock(ChangeRuntime(t, r, runtime), r))
  BY <1>1, UpdatesKeep
<1>6. RowChanged(t, tasks'[i], runs[t.run])
  BY RowsChange
<1> QED BY <1>2, <1>3, <1>4, <1>5, <1>6, Zenon DEF RowChanged

\* A completed checkpoint stays completed and attempts only grow, through
\* every control, retry, crash and recovery: interrupted work is neither
\* lost nor repeated for ever.
THEOREM CheckpointsKept == Spec => CheckpointsAreKept
<1>1. IInv /\ [Next]_vars =>
        [\A i \in 1..Len(tasks) :
           /\ tasks[i].status = "Completed" => tasks'[i].status = "Completed"
           /\ tasks'[i].attempts >= tasks[i].attempts]_vars
  BY RowsKeptBySteps DEF RowKept
<1> QED BY <1>1, InductiveInvariant, PTL DEF Spec, CheckpointsAreKept

-----------------------------------------------------------------------------
(* Cancellation.                                                           *)

\* What a step keeps of a row: whose it is, a final status with its cause,
\* and, in a run with a control, that nothing new is leased.
RowMoved(t, u, run) ==
    /\ u.run = t.run /\ u.business = t.business /\ u.stage = t.stage
    /\ t.status \notin Active \cup {"Blocked"} => u.status = t.status /\ u.infra = t.infra
    /\ u.status = "Leased" => t.status = "Leased" \/ run.control = None

\* Each update of a row moves it in those ways only.
LEMMA UpdatesMove ==
    ASSUME NEW t \in Task, NEW run
    PROVE  /\ \A p \in Nat : t.status = "Pending" /\ run.control = None
                  => RowMoved(t, Lease(t, p), run)
           /\ t.status = "Leased" => RowMoved(t, CompleteTask(t), run)
           /\ t.status = "Leased" => \A class : RowMoved(t, FailTask(t, class), run)
           /\ t.status \in {"Pending", "Blocked"} => RowMoved(t, CancelTask(t), run)
           /\ RowMoved(t, StoreResult(t), run)
           /\ RowMoved(t, RecoverTask(t), run)
           /\ \A r, runtime : RowMoved(t, Unblock(ChangeRuntime(t, r, runtime), r), run)
           /\ \A b \in BOOLEAN : RowMoved(t, [t EXCEPT !.expired = b], run)
           /\ RowMoved(t, [t EXCEPT !.due = TRUE], run)
<1> USE DEF Task, Status, Active
<1>1. ASSUME NEW p \in Nat, t.status = "Pending", run.control = None
      PROVE  RowMoved(t, Lease(t, p), run)
  BY <1>1 DEF RowMoved, Lease
<1>2. ASSUME t.status = "Leased" PROVE RowMoved(t, CompleteTask(t), run)
  BY <1>2 DEF RowMoved, CompleteTask, Unlease
<1>3. ASSUME t.status = "Leased", NEW class PROVE RowMoved(t, FailTask(t, class), run)
  BY <1>3 DEF RowMoved, FailTask, Unlease, FailedStatus
<1>4. ASSUME t.status \in {"Pending", "Blocked"} PROVE RowMoved(t, CancelTask(t), run)
  BY <1>4 DEF RowMoved, CancelTask
<1>5. RowMoved(t, StoreResult(t), run)
  BY DEF RowMoved, StoreResult
<1>6. RowMoved(t, RecoverTask(t), run)
  <2>1. CASE Exhausted(t)
    BY <2>1 DEF RowMoved, RecoverTask, Exhausted, Abandoned, Unlease
  <2>2. CASE ~Exhausted(t) /\ Abandoned(t)
    BY <2>2 DEF RowMoved, RecoverTask, Abandoned, Unlease
  <2>3. CASE ~Exhausted(t) /\ ~Abandoned(t)
    BY <2>3 DEF RowMoved, RecoverTask
  <2> QED BY <2>1, <2>2, <2>3
<1>7. ASSUME NEW r, NEW runtime
      PROVE  RowMoved(t, Unblock(ChangeRuntime(t, r, runtime), r), run)
  <2> DEFINE u == ChangeRuntime(t, r, runtime)
  <2>1. /\ u.run = t.run /\ u.business = t.business /\ u.stage = t.stage
        /\ u.status = t.status /\ u.infra = t.infra
        /\ u = t \/ u = [t EXCEPT !.runtime = runtime]
    BY DEF ChangeRuntime
  <2>2. /\ Unblock(u, r).run = u.run /\ Unblock(u, r).business = u.business
        /\ Unblock(u, r).stage = u.stage
        /\ Unblock(u, r) = u \/ (u.status = "Blocked" /\ Unblock(u, r).status = "Pending")
    BY <2>1 DEF Unblock, UnblockTask
  <2> QED BY <2>1, <2>2 DEF RowMoved
<1>8. \A b \in BOOLEAN : RowMoved(t, [t EXCEPT !.expired = b], run)
  BY DEF RowMoved
<1>9. RowMoved(t, [t EXCEPT !.due = TRUE], run)
  BY DEF RowMoved
<1> QED BY <1>1, <1>2, <1>3, <1>4, <1>5, <1>6, <1>7, <1>8, <1>9

\* Every step moves the rows it finds in those ways only.
LEMMA RowsMove ==
    ASSUME IInv, [Next]_vars, NEW i \in 1..Len(tasks)
    PROVE  RowMoved(tasks[i], tasks'[i], runs[tasks[i].run])
<1> DEFINE t == tasks[i]
           u == RecoverTask(t)
           run == runs[t.run]
<1>1. t \in Task /\ u \in Task
  BY RowTypes, RowUpdates DEF IInv, TypeOK
<1>2. ASSUME u.status \in {"Pending", "Blocked"} PROVE RowMoved(t, CancelTask(u), run)
  <2> HIDE DEF u, run
  <2>1. RowMoved(u, CancelTask(u), run) /\ CancelTask(u).status = "Cancelled"
    BY <1>1, <1>2, UpdatesMove DEF CancelTask, Task
  <2>2. RowMoved(t, u, run)
    BY <1>1, UpdatesMove DEF u
  <2>3. t.status \in Active \cup {"Blocked"}
    BY <1>2, <2>2 DEF RowMoved, Active
  <2> QED BY <2>1, <2>2, <2>3 DEF RowMoved
<1>3. /\ \A p \in Nat : t.status = "Pending" /\ run.control = None
                  => RowMoved(t, Lease(t, p), run)
      /\ t.status = "Leased" => RowMoved(t, CompleteTask(t), run)
      /\ t.status = "Leased" => \A class \in Classification : RowMoved(t, FailTask(t, class), run)
      /\ t.status \in {"Pending", "Blocked"} => RowMoved(t, CancelTask(t), run)
      /\ RowMoved(t, StoreResult(t), run)
      /\ RowMoved(t, RecoverTask(t), run)
      /\ \A r, runtime : RowMoved(t, Unblock(ChangeRuntime(t, r, runtime), r), run)
      /\ \A b \in BOOLEAN : RowMoved(t, [t EXCEPT !.expired = b], run)
      /\ RowMoved(t, [t EXCEPT !.due = TRUE], run)
  BY <1>1, UpdatesMove
<1>4. RowChanged(t, tasks'[i], run)
  BY RowsChange
<1>5. RowMoved(t, t, run)
  BY DEF RowMoved
<1> QED BY <1>2, <1>3, <1>4, <1>5, Zenon DEF RowChanged

\* The table a completion leaves: the row completed, the others alone, and
\* the rows handed on after them.
CompletedTable(i, next) ==
    LET handed == Handed(runs[tasks[i].run], next)
    IN  /\ Owned(tasks[i])
        /\ handed \in Seq(Task)
        /\ \A k \in 1..Len(handed) : handed[k].run = tasks[i].run /\ handed[k].status = "Pending"
        /\ Len(tasks') = Len(tasks) + Len(handed)
        /\ \A j \in 1..Len(tasks) :
               tasks'[j] = IF j = i THEN CompleteTask(tasks[i]) ELSE tasks[j]
        /\ \A j \in (Len(tasks) + 1)..Len(tasks') :
               j - Len(tasks) \in 1..Len(handed) /\ tasks'[j] = handed[j - Len(tasks)]

LEMMA CompletionTable ==
    ASSUME TypeOK, NEW s \in Slot, NEW i \in 1..Len(tasks), NEW next \in Checkpoints(tasks[i]),
           Owned(tasks[i]),
           tasks' = [tasks EXCEPT ![i] = CompleteTask(@)] \o Handed(runs[tasks[i].run], next)
    PROVE  CompletedTable(i, next)
<1> DEFINE done == [tasks EXCEPT ![i] = CompleteTask(@)]
           handed == Handed(runs[tasks[i].run], next)
<1>1. /\ tasks \in Seq(Task) /\ Len(tasks) \in Nat /\ tasks[i] \in Task
      /\ CompleteTask(tasks[i]) \in Task
  BY RowTypes, RowUpdates DEF TypeOK
<1>2. /\ done \in Seq(Task) /\ Len(done) = Len(tasks)
      /\ \A j \in 1..Len(tasks) : done[j] = IF j = i THEN CompleteTask(tasks[i]) ELSE tasks[j]
  BY <1>1, RowUpdate
<1>3. /\ handed \in Seq(Task) /\ Len(handed) \in Nat
      /\ \A k \in 1..Len(handed) : handed[k].run = tasks[i].run /\ handed[k].status = "Pending"
  BY CheckpointRows, EmptySeq, LenProperties DEF Handed
<1> HIDE DEF done, handed
<1>4. /\ Len(done \o handed) = Len(done) + Len(handed)
      /\ \A j \in 1..(Len(done) + Len(handed)) :
             (done \o handed)[j] = IF j <= Len(done) THEN done[j] ELSE handed[j - Len(done)]
  <2>1. done \in Seq(Task) /\ handed \in Seq(Task)
    BY <1>2, <1>3
  <2> QED BY <2>1, ConcatProperties, Zenon
<1>5. tasks' = done \o handed
  BY DEF done, handed
<1>6. /\ Len(tasks') = Len(tasks) + Len(handed)
      /\ \A j \in 1..Len(tasks) : tasks'[j] = done[j]
      /\ \A j \in (Len(tasks) + 1)..Len(tasks') :
             j - Len(tasks) \in 1..Len(handed) /\ tasks'[j] = handed[j - Len(tasks)]
  <2> DEFINE n == Len(tasks)
             m == Len(handed)
  <2>1. n \in Nat /\ m \in Nat /\ Len(done) = n /\ Len(tasks') = n + m
    BY <1>1, <1>2, <1>3, <1>4, <1>5
  <2>2. \A j \in 1..(n + m) : tasks'[j] = IF j <= n THEN done[j] ELSE handed[j - n]
    BY <1>4, <1>5, <2>1
  <2> HIDE DEF n, m
  <2>3. /\ \A j \in 1..n : tasks'[j] = done[j]
        /\ \A j \in (n + 1)..(n + m) : j - n \in 1..m /\ tasks'[j] = handed[j - n]
    BY <2>1, <2>2
  <2> QED BY <2>1, <2>3 DEF n, m
<1> QED BY <1>2, <1>3, <1>6 DEF CompletedTable, handed

\* Only creating a run and completing a task add rows.
LEMMA RowsAddedBy ==
    ASSUME IInv, [Next]_vars
    PROVE  \/ Len(tasks') = Len(tasks)
           \/ \E r \in Run, reassess \in BOOLEAN, runtime \in Runtime :
                  CreateRun(r, reassess, runtime)
           \/ \E s \in Slot : Complete(s)
<1>1. /\ tasks \in Seq(Task) /\ tasks' \in Seq(Task) /\ Len(tasks) \in Nat
      /\ Len(tasks') \in Nat /\ DOMAIN tasks' = 1..Len(tasks')
  BY NextIInv, LenProperties DEF IInv, TypeOK
<1>2. ASSUME \/ \E r \in Run : Cancel(r) \/ \E runtime \in Runtime : Resume(r, runtime)
             \/ StartCycle
      PROVE  Len(tasks') = Len(tasks)
  <2>1. DOMAIN tasks' = 1..Len(tasks)
    BY <1>2 DEF Cancel, Resume, StartCycle, RecoveredTasks
  <2> QED BY <1>1, <2>1
<1>3. ASSUME \/ \E s \in Slot :
                   \/ Claim(s) \/ Fail(s) \/ RenewLease(s)
                   \/ \E carried \in SUBSET Business : CarryForward(s, carried)
                   \/ \E qualifies \in BOOLEAN : Score(s, qualifies)
             \/ Time
      PROVE  Len(tasks') = Len(tasks)
  <2>1. \E j \in 1..Len(tasks) : \E row : tasks' = [tasks EXCEPT ![j] = row]
    BY <1>3 DEF Claim, Fail, RenewLease, CarryForward, Score, Time, LeaseExpires, RetryDelayPasses
  <2> QED BY <1>1, <2>1, LenProperties
<1>4. ASSUME \/ \E r \in Run : Pause(r)
             \/ \E s \in Slot : LeaveCycle(s) \/ ClaimError(s) \/ SettlementError(s)
             \/ \E s \in Slot, report \in SUBSET Business : RecordReport(s, report)
             \/ Crash \/ UNCHANGED vars
      PROVE  Len(tasks') = Len(tasks)
  BY <1>4 DEF Pause, LeaveCycle, ClaimError, SettlementError, RecordReport, Crash, vars
<1> QED
  BY <1>2, <1>3, <1>4 DEF Next, Web, Worker, Seek, Finish

\* A created run adds its planning task.
LEMMA CreationTable ==
    ASSUME TypeOK, NEW r \in Run, NEW reassess \in BOOLEAN, NEW runtime \in Runtime,
           CreateRun(r, reassess, runtime)
    PROVE  /\ runs[r].state = "Absent"
           /\ Len(tasks') = Len(tasks) + 1
           /\ \A j \in 1..Len(tasks) : tasks'[j] = tasks[j]
           /\ tasks'[Len(tasks) + 1] = NewTask(r, None, "RunPlanning", runtime)
<1> DEFINE row == NewTask(r, None, "RunPlanning", runtime)
<1>1. tasks' = Append(tasks, row) /\ runs[r].state = "Absent"
  BY DEF CreateRun
<1>2. row \in Task /\ tasks \in Seq(Task) /\ Len(tasks) \in Nat
  BY NewTaskType, LenProperties DEF RunStage, TypeOK
<1> HIDE DEF row
<1>3. /\ Len(tasks') = Len(tasks) + 1 /\ tasks'[Len(tasks) + 1] = row
      /\ \A j \in 1..Len(tasks) : tasks'[j] = tasks[j]
  BY <1>1, <1>2, AppendProperties
<1> QED BY <1>1, <1>3 DEF row

\* A row is added only to a run that was absent or has a leased task and no
\* cancellation; no row is removed.
LEMMA RowsAdded ==
    ASSUME IInv, [Next]_vars
    PROVE  /\ Len(tasks) \in Nat /\ Len(tasks') \in Nat /\ Len(tasks) <= Len(tasks')
           /\ \A j \in (Len(tasks) + 1)..Len(tasks') :
                 \/ runs[tasks'[j].run].state = "Absent"
                 \/ \E k \in 1..Len(tasks) : /\ tasks[k].run = tasks'[j].run
                                             /\ tasks[k].status = "Leased"
                                             /\ runs[tasks[k].run].control # "Cancel"
<1>1. TypeOK /\ Len(tasks) \in Nat /\ Len(tasks') \in Nat
  BY NextIInv, LenProperties DEF IInv, TypeOK
<1>2. ASSUME NEW r \in Run, NEW reassess \in BOOLEAN, NEW runtime \in Runtime,
             CreateRun(r, reassess, runtime)
      PROVE  /\ Len(tasks) <= Len(tasks')
             /\ \A j \in (Len(tasks) + 1)..Len(tasks') : runs[tasks'[j].run].state = "Absent"
  <2>1. NewTask(r, None, "RunPlanning", runtime).run = r
    BY DEF NewTask
  <2> QED BY <1>1, <1>2, <2>1, CreationTable
<1>3. ASSUME NEW s \in Slot, Complete(s)
      PROVE  /\ Len(tasks) <= Len(tasks')
             /\ \A j \in (Len(tasks) + 1)..Len(tasks') :
                   \E k \in 1..Len(tasks) : /\ tasks[k].run = tasks'[j].run
                                            /\ tasks[k].status = "Leased"
                                            /\ runs[tasks[k].run].control # "Cancel"
  <2>1. PICK i \in 1..Len(tasks) : \E next \in Checkpoints(tasks[i]) :
            /\ Owned(tasks[i])
            /\ tasks' = [tasks EXCEPT ![i] = CompleteTask(@)] \o Handed(runs[tasks[i].run], next)
    BY <1>3 DEF Complete
  <2>2. PICK next \in Checkpoints(tasks[i]) : CompletedTable(i, next)
    BY <1>1, <2>1, CompletionTable
  <2> DEFINE handed == Handed(runs[tasks[i].run], next)
  <2>3. Len(handed) \in Nat /\ (Len(handed) # 0 => runs[tasks[i].run].control # "Cancel")
    BY <2>2, LenProperties, EmptySeq DEF Handed, CompletedTable
  <2> HIDE DEF handed
  <2>4. ASSUME NEW j \in (Len(tasks) + 1)..Len(tasks')
        PROVE  /\ tasks[i].run = tasks'[j].run /\ tasks[i].status = "Leased"
               /\ runs[tasks[i].run].control # "Cancel"
    <3>1. j - Len(tasks) \in 1..Len(handed) /\ tasks'[j].run = tasks[i].run
      BY <2>2 DEF CompletedTable, handed
    <3> QED BY <2>2, <2>3, <3>1 DEF Owned, CompletedTable
  <2>5. Len(tasks) <= Len(tasks')
    BY <1>1, <2>2, <2>3 DEF CompletedTable, handed
  <2> QED BY <2>4, <2>5
<1> QED BY <1>1, <1>2, <1>3, RowsAddedBy

\* Until the user takes a cancellation back, no step leases a task of the
\* run or adds one to it: not a late settlement, a retry or a recovery.
THEOREM CancelStops == Spec => CancelStopsNewWork
<1> DEFINE Stops ==
        \A r \in Run : (runs[r].control = "Cancel" /\ runs'[r].control = "Cancel") =>
           \A i \in 1..Len(tasks') : tasks'[i].run = r =>
               /\ i <= Len(tasks)
               /\ tasks'[i].status = "Leased" => tasks[i].status = "Leased"
<1>1. ASSUME IInv, [Next]_vars PROVE Stops
  <2> SUFFICES ASSUME NEW r \in Run, runs[r].control = "Cancel",
                      NEW i \in 1..Len(tasks'), tasks'[i].run = r
               PROVE  /\ i <= Len(tasks)
                      /\ tasks'[i].status = "Leased" => tasks[i].status = "Leased"
    OBVIOUS
  <2>1. Len(tasks) \in Nat /\ Len(tasks') \in Nat
    BY <1>1, RowsAdded
  <2>2. runs[r].state # "Absent"
    BY <1>1 DEF IInv, RunsConsistent, RunConsistent, None
  <2>3. i <= Len(tasks)
    BY <1>1, <2>1, <2>2, RowsAdded
  <2>4. RowMoved(tasks[i], tasks'[i], runs[tasks[i].run])
    BY <1>1, <2>1, <2>3, RowsMove
  <2> QED BY <2>3, <2>4 DEF RowMoved, None
<1>2. IInv /\ [Next]_vars => [Stops]_vars
  BY <1>1
<1> QED BY <1>2, InductiveInvariant, PTL DEF Spec, CancelStopsNewWork

-----------------------------------------------------------------------------
(* The order of a run's stages.                                            *)

\* An ordering of businesses names none of them twice.
LEMMA OrderingsAreInjective ==
    ASSUME NEW S, IsFiniteSet(S), NEW q \in Orderings(S)
    PROVE  /\ Cardinality(S) \in Nat /\ q \in [1..Cardinality(S) -> S]
           /\ \A k, l \in 1..Cardinality(S) : k # l => q[k] # q[l]
<1> DEFINE n == Cardinality(S)
           D == 1..n
<1>1. n \in Nat /\ q \in [D -> S] /\ \A b \in S : \E k \in D : q[k] = b
  BY FS_CardinalityType DEF Orderings
<1>2. IsFiniteSet(D) /\ Cardinality(D) = n
  <2>1. 1 \in Int /\ n \in Int
    BY <1>1
  <2>2. /\ IsFiniteSet(1..n)
        /\ Cardinality(1..n) = IF 1 > n THEN 0 ELSE n - 1 + 1
    BY <2>1, FS_Interval
  <2> QED BY <1>1, <2>2
<1>3. q \in Surjection(D, S)
  BY <1>1 DEF Surjection
<1>4. q \in Injection(D, S)
  BY <1>2, <1>3, FS_SurjSameCardinalityImpliesInj
<1> QED BY <1>1, <1>4 DEF Injection, IsInjective

\* The rows a checkpoint hands on: run-level stages hand on one run-level
\* task or one task for each of several businesses, a business task its own
\* business.
LEMMA CheckpointBusinesses ==
    ASSUME TypeOK, NEW i \in 1..Len(tasks), NEW next \in Checkpoints(tasks[i]),
           tasks[i].business = None <=> tasks[i].stage \in RunStage
    PROVE  /\ Len(next) \in Nat
           /\ \A k \in 1..Len(next) :
                 /\ next[k].business = None <=> next[k].stage \in RunStage
                 /\ next[k].business = None => tasks[i].business = None /\ Len(next) = 1
                 /\ tasks[i].business # None => next[k].business = tasks[i].business
           /\ \A k, l \in 1..Len(next) : k # l => next[k].business # next[l].business
<1> DEFINE t == tasks[i]
           found == runs[t.run].found
<1>1. /\ t \in Task /\ found \subseteq Business /\ IsFiniteSet(found) /\ None \notin found
      /\ FirstStage \notin RunStage
  BY RowTypes, FS_Subset, StoreAssumption DEF TypeOK, Task, RunRow
<1>2. /\ Len(next) \in Nat
      /\ \A k \in 1..Len(next) : next[k] \in Task
  BY CheckpointRows, RowTypes
<1>3. \A r, b, stage, runtime : /\ NewTask(r, b, stage, runtime).business = b
                                /\ NewTask(r, b, stage, runtime).stage = stage
  BY DEF NewTask
<1>4. CASE t.stage = "RunPlanning"
  <2>1. t.business = None
    BY <1>4 DEF RunStage
  <2>2. next \in PlanCheckpoints(t)
    BY <1>4 DEF Checkpoints
  <2>3. PICK stage \in RunStage : next = <<NewTask(t.run, None, stage, t.runtime)>>
    BY <2>2 DEF PlanCheckpoints, RunStage
  <2>4. Len(next) = 1 /\ next[1].business = None /\ next[1].stage \in RunStage
    BY <1>3, <2>3
  <2> QED BY <2>1, <2>4
<1>5. CASE t.stage \in {"SeedReassessment", "DiscoverBusinesses"}
  <2>1. t.business = None
    BY <1>5 DEF RunStage
  <2>2. PICK q \in Orderings(found) : next = BusinessTasks(t.run, q)
    BY <1>5 DEF Checkpoints, SeedCheckpoints, DiscoverCheckpoints
  <2> DEFINE n == Cardinality(found)
  <2>3. n \in Nat /\ q \in [1..n -> found] /\ \A k, l \in 1..n : k # l => q[k] # q[l]
    BY <1>1, <2>2, OrderingsAreInjective
  <2> HIDE DEF n
  <2>4. Len(q) = n
    BY <2>3, FunctionIsSeq
  <2>5. next = [k \in 1..n |-> NewTask(t.run, q[k], FirstStage, None)]
    BY <2>2, <2>4 DEF BusinessTasks
  <2>6. Len(next) = n
    BY <1>2, <2>3, <2>5, CheckpointRows, LenProperties
  <2>7. \A k \in 1..n : /\ next[k].business = q[k] /\ next[k].stage = FirstStage
                        /\ q[k] # None
    BY <1>1, <1>3, <2>3, <2>5
  <2> QED BY <1>1, <2>1, <2>3, <2>6, <2>7
<1>6. CASE t.stage = "ScoreCandidate"
  <2>1. next = << >>
    BY <1>6 DEF Checkpoints
  <2> QED BY <1>2, <2>1, EmptySeq
<1>7. CASE t.stage \notin RunStage \cup {"ScoreCandidate"}
  <2>1. next \in BusinessCheckpoints(t)
    BY <1>7 DEF Checkpoints, RunStage
  <2>2. t.business # None /\ Successors[t.stage] \subseteq BusinessStage \cup {Done}
    BY <1>1, <1>7, StoreAssumption DEF Task
  <2>3. PICK m \in Successors[t.stage] :
            next = IF m = Done THEN << >> ELSE <<NewTask(t.run, t.business, m, None)>>
    BY <2>1 DEF BusinessCheckpoints
  <2>4. CASE m = Done
    BY <1>2, <2>3, <2>4, EmptySeq
  <2>5. CASE m # Done
    <3>1. m \notin RunStage
      BY <2>2, <2>5, StoreAssumption
    <3>2. Len(next) = 1 /\ next[1].business = t.business /\ next[1].stage = m
      BY <1>3, <2>3, <2>5
    <3> QED BY <2>2, <3>1, <3>2
  <2> QED BY <2>4, <2>5
<1> QED BY <1>4, <1>5, <1>6, <1>7 DEF RunStage

\* What a new row must find before it to come in order.
InOrder(ts, j) ==
    /\ ts[j].business = None <=> ts[j].stage \in RunStage
    /\ \A i \in 1..(j - 1) : ts[i].run = ts[j].run =>
          /\ ts[i].business \in {None, ts[j].business} => ts[i].status = "Completed"
          /\ ts[j].business = None => ts[i].business = None

\* The order is kept by a step whose new rows come in order.
LEMMA OrderKept ==
    ASSUME IInv, StagesInOrder, [Next]_vars,
           \A j \in (Len(tasks) + 1)..Len(tasks') : InOrder(tasks', j)
    PROVE  StagesInOrder'
<1>1. Len(tasks) \in Nat /\ Len(tasks') \in Nat /\ Len(tasks) <= Len(tasks')
  BY RowsAdded
<1>2. \A i \in 1..Len(tasks) :
          /\ tasks'[i].run = tasks[i].run /\ tasks'[i].business = tasks[i].business
          /\ tasks'[i].stage = tasks[i].stage
          /\ tasks[i].status = "Completed" => tasks'[i].status = "Completed"
  BY RowsMove, RowsKeptBySteps DEF RowMoved, RowKept
<1>3. OneStageAtATime'
  <2> SUFFICES ASSUME NEW i \in 1..Len(tasks'), NEW j \in 1..Len(tasks'), i < j,
                      tasks'[i].run = tasks'[j].run,
                      tasks'[i].business \in {None, tasks'[j].business}
               PROVE  tasks'[i].status = "Completed"
    BY DEF OneStageAtATime
  <2>1. CASE j <= Len(tasks)
    <3>1. i \in 1..Len(tasks) /\ j \in 1..Len(tasks)
      BY <1>1, <2>1
    <3> QED BY <1>2, <3>1 DEF StagesInOrder, OneStageAtATime
  <2>2. CASE j > Len(tasks)
    <3>1. j \in (Len(tasks) + 1)..Len(tasks') /\ i \in 1..(j - 1)
      BY <1>1, <2>2
    <3> QED BY <3>1 DEF InOrder
  <2> QED BY <1>1, <2>1, <2>2
<1>4. \A i \in 1..Len(tasks') : tasks'[i].business = None <=> tasks'[i].stage \in RunStage
  <2> TAKE i \in 1..Len(tasks')
  <2>1. CASE i <= Len(tasks)
    <3>1. i \in 1..Len(tasks)
      BY <1>1, <2>1
    <3> QED BY <1>2, <3>1 DEF StagesInOrder
  <2>2. CASE i > Len(tasks)
    <3>1. i \in (Len(tasks) + 1)..Len(tasks')
      BY <1>1, <2>2
    <3> QED BY <3>1 DEF InOrder
  <2> QED BY <1>1, <2>1, <2>2
<1>5. ASSUME NEW i \in 1..Len(tasks'), NEW j \in 1..Len(tasks'), i < j,
             tasks'[i].run = tasks'[j].run, tasks'[j].business = None
      PROVE  tasks'[i].business = None
  <2>1. CASE j <= Len(tasks)
    <3>1. i \in 1..Len(tasks) /\ j \in 1..Len(tasks)
      BY <1>1, <1>5, <2>1
    <3> QED BY <1>2, <1>5, <3>1 DEF StagesInOrder
  <2>2. CASE j > Len(tasks)
    <3>1. j \in (Len(tasks) + 1)..Len(tasks') /\ i \in 1..(j - 1)
      BY <1>1, <1>5, <2>2
    <3> QED BY <1>5, <3>1 DEF InOrder
  <2> QED BY <1>1, <2>1, <2>2
<1> QED BY <1>3, <1>4, <1>5 DEF StagesInOrder

\* A leased task is the last of its business; a leased run-level task is the
\* last of its run, and everything before it is over.
LEMMA LeasedIsLast ==
    ASSUME IInv, StagesInOrder, NEW i \in 1..Len(tasks), tasks[i].status = "Leased",
           NEW j \in 1..Len(tasks), j # i, tasks[j].run = tasks[i].run
    PROVE  /\ tasks[j].business \in {None, tasks[i].business} =>
                  j < i /\ tasks[j].status = "Completed"
           /\ tasks[i].business = None =>
                  tasks[j].business = None /\ tasks[j].status = "Completed"
<1>1. Len(tasks) \in Nat
  BY LenProperties DEF IInv, TypeOK
<1>2. CASE j < i
  BY <1>2 DEF StagesInOrder, OneStageAtATime
<1>3. CASE i < j
  <2>1. tasks[i].business \notin {None, tasks[j].business}
    BY <1>3 DEF StagesInOrder, OneStageAtATime
  <2>2. tasks[j].business # None
    BY <1>3, <2>1 DEF StagesInOrder
  <2> QED BY <2>1, <2>2
<1> QED BY <1>1, <1>2, <1>3

\* Every step keeps the order.
LEMMA NextStagesInOrder == IInv /\ StagesInOrder /\ [Next]_vars => StagesInOrder'
<1> SUFFICES ASSUME IInv, StagesInOrder, [Next]_vars
             PROVE  \A j \in (Len(tasks) + 1)..Len(tasks') : InOrder(tasks', j)
  BY OrderKept
<1>1. TypeOK /\ Len(tasks) \in Nat
  BY LenProperties DEF IInv, TypeOK
<1>2. ASSUME NEW r \in Run, NEW reassess \in BOOLEAN, NEW runtime \in Runtime,
             CreateRun(r, reassess, runtime),
             NEW j \in (Len(tasks) + 1)..Len(tasks')
      PROVE  InOrder(tasks', j)
  <2>1. /\ runs[r].state = "Absent" /\ j = Len(tasks) + 1
        /\ \A i \in 1..Len(tasks) : tasks'[i] = tasks[i]
        /\ tasks'[j] = NewTask(r, None, "RunPlanning", runtime)
    BY <1>1, <1>2, CreationTable
  <2>2. /\ tasks'[j].run = r /\ tasks'[j].business = None
        /\ tasks'[j].stage = "RunPlanning"
    BY <2>1 DEF NewTask
  <2>3. ~Has(tasks, r, Status)
    BY <2>1 DEF IInv, RunsConsistent, RunConsistent
  <2>4. \A i \in 1..Len(tasks) : tasks[i].run # r
    BY <1>1, <2>3, RowTypes DEF Has, Task, TypeOK
  <2>5. \A i \in 1..(j - 1) : tasks'[i].run # tasks'[j].run
    BY <1>1, <2>1, <2>2, <2>4
  <2> QED BY <2>2, <2>5 DEF InOrder, RunStage
<1>3. ASSUME NEW s \in Slot, Complete(s), NEW j \in (Len(tasks) + 1)..Len(tasks')
      PROVE  InOrder(tasks', j)
  <2>1. PICK i \in 1..Len(tasks) : \E next \in Checkpoints(tasks[i]) :
            /\ Owned(tasks[i])
            /\ tasks' = [tasks EXCEPT ![i] = CompleteTask(@)] \o Handed(runs[tasks[i].run], next)
    BY <1>3 DEF Complete
  <2>2. PICK next \in Checkpoints(tasks[i]) : CompletedTable(i, next)
    BY <1>1, <2>1, CompletionTable
  <2>3. tasks[i].business = None <=> tasks[i].stage \in RunStage
    BY DEF StagesInOrder
  <2> DEFINE handed == Handed(runs[tasks[i].run], next)
             k == j - Len(tasks)
  <2>4. k \in 1..Len(handed) /\ tasks'[j] = handed[k]
    BY <2>2 DEF CompletedTable
  <2>5. handed = next
    BY <2>4, EmptySeq DEF Handed
  <2>6. /\ Len(next) \in Nat /\ k \in 1..Len(next) /\ tasks'[j] = next[k]
        /\ tasks'[j].run = tasks[i].run
        /\ \A l \in 1..Len(next) : l # k => next[l].business # next[k].business
        /\ next[k].business = None <=> next[k].stage \in RunStage
        /\ next[k].business = None => tasks[i].business = None /\ Len(next) = 1
        /\ tasks[i].business # None => next[k].business = tasks[i].business
    <3>1. tasks'[j].run = tasks[i].run
      BY <2>2, <2>4 DEF CompletedTable
    <3> HIDE DEF k, handed
    <3> QED BY <1>1, <2>3, <2>4, <2>5, <3>1, CheckpointBusinesses
  <2>7. ASSUME NEW l \in 1..(j - 1), tasks'[l].run = tasks'[j].run
        PROVE  /\ tasks'[l].business \in {None, tasks'[j].business} => tasks'[l].status = "Completed"
               /\ tasks'[j].business = None => tasks'[l].business = None
    <3>1. CASE l = i
      <4>1. tasks'[l] = CompleteTask(tasks[i])
        BY <2>2, <3>1 DEF CompletedTable
      <4>2. tasks[i] \in Task
        BY <1>1, RowTypes DEF TypeOK
      <4>3. tasks'[l].status = "Completed" /\ tasks'[l].business = tasks[i].business
        BY <4>1, <4>2 DEF CompleteTask, Unlease, Task
      <4> QED BY <2>6, <4>3
    <3>2. CASE l \in 1..Len(tasks) /\ l # i
      <4>1. tasks'[l] = tasks[l]
        BY <2>2, <3>2 DEF CompletedTable
      <4>2. tasks[i].status = "Leased" /\ tasks[l].run = tasks[i].run
        BY <2>2, <2>6, <2>7, <4>1 DEF CompletedTable, Owned
      <4>3. /\ tasks[l].business \in {None, tasks[i].business} => tasks[l].status = "Completed"
            /\ tasks[i].business = None => tasks[l].business = None /\ tasks[l].status = "Completed"
        BY <3>2, <4>2, LeasedIsLast
      <4> QED BY <2>6, <4>1, <4>3
    <3>3. CASE l > Len(tasks)
      <4> DEFINE m == l - Len(tasks)
      <4>1. m \in 1..Len(next) /\ m # k /\ tasks'[l] = next[m]
        <5>1. l \in (Len(tasks) + 1)..Len(tasks')
          BY <1>1, <3>3, RowsAdded
        <5> QED BY <1>1, <2>2, <2>5, <5>1 DEF CompletedTable
      <4>2. Len(next) # 1
        BY <2>6, <4>1
      <4>3. next[m].business # None /\ next[k].business # None
        BY <2>3, <2>6, <4>1, <4>2, CheckpointBusinesses, <1>1
      <4> QED BY <2>6, <4>1, <4>3
    <3> QED BY <1>1, <3>1, <3>2, <3>3
  <2> QED BY <2>6, <2>7 DEF InOrder
<1>4. ASSUME Len(tasks') = Len(tasks)
      PROVE  \A j \in (Len(tasks) + 1)..Len(tasks') : InOrder(tasks', j)
  BY <1>1, <1>4
<1> QED BY <1>2, <1>3, <1>4, RowsAddedBy

\* A run never works at two stages of one business at once, and opens no
\* business before its planning and discovery are over, whatever is retried,
\* recovered or cancelled meanwhile.
THEOREM StagesDoNotOverlap == Spec => []OneStageAtATime
<1>1. Init => StagesInOrder
  BY DEF Init, StagesInOrder, OneStageAtATime
<1>2. IInv /\ StagesInOrder /\ [Next]_vars => StagesInOrder'
  BY NextStagesInOrder
<1>3. StagesInOrder => OneStageAtATime
  BY DEF StagesInOrder
<1> QED BY <1>1, <1>2, <1>3, InductiveInvariant, PTL DEF Spec

-----------------------------------------------------------------------------
(* Outcomes.                                                               *)

Conclusive == CleanOutcome \cup {"Infrastructure Failed"}

\* A run with no conclusive outcome claims nothing of its rows.
LEMMA OpenOutcome ==
    ASSUME NEW run, NEW ts, NEW r, run.completion \notin Conclusive
    PROVE  OutcomeHolds(run, ts, r)
BY DEF OutcomeHolds, Conclusive, CleanOutcome

\* Only a completed run has a conclusive outcome.
LEMMA UnsettledIsOpen ==
    ASSUME NEW run, NEW ts, NEW r, OutcomeHolds(run, ts, r), run.state # "Completed"
    PROVE  run.completion \notin Conclusive
BY DEF OutcomeHolds, Conclusive

\* The outcome of a run without active tasks is what its tasks say.
LEMMA SettleOutcome ==
    ASSUME NEW run \in RunRow, NEW ts \in Seq(Task), NEW r, ~Has(ts, r, Active)
    PROVE  /\ OutcomeHolds(Settle(run, Outcome(run, ts, r)), ts, r)
           /\ Settle(run, Outcome(run, ts, r)).qualified = run.qualified
<1> DEFINE out == Outcome(run, ts, r)
           new == Settle(run, out)
<1>1. Target \in Nat /\ run.qualified \in Nat
  BY StoreAssumption DEF RunRow
<1>2. /\ TargetRemaining(run) = 0 => run.qualified >= Target
      /\ TargetRemaining(run) # 0 => run.qualified < Target
  BY <1>1 DEF TargetRemaining
<1>3. ASSUME ~Has(ts, r, {"Blocked"}), ~Has(ts, r, {"Cancelled"}), ~Has(ts, r, {"FailedPermanent"})
      PROVE  ~Has(ts, r, Status \ {"Completed"})
  BY <1>3 DEF Has, Status, Active
<1> DEFINE Earned(state, completion) ==
        \/ completion \notin Conclusive
        \/ /\ state = "Completed" /\ completion = "Infrastructure Failed"
           /\ InfrastructureFailed(ts, r)
        \/ /\ state = "Completed" /\ ~Has(ts, r, Status \ {"Completed"})
           /\ \/ completion = "Reassessment Complete"
              \/ completion = "Target Reached" /\ run.qualified >= Target
              \/ completion = "Search Exhausted" /\ run.qualified < Target
<1>4. \E state, completion : out = Ends(state, completion) /\ Earned(state, completion)
  <2>1. /\ "Runtime Unavailable" \notin Conclusive
        /\ "Cancelled with Partial Results" \notin Conclusive
        /\ "Completed with Warnings" \notin Conclusive
    BY DEF Conclusive, CleanOutcome
  <2> QED BY <1>2, <1>3, <2>1 DEF Outcome
<1> HIDE DEF out
<1>5. PICK state, completion : out = Ends(state, completion) /\ Earned(state, completion)
  BY <1>4
<1>6. new.state = state /\ new.completion = completion /\ new.qualified = run.qualified
  BY <1>5 DEF Settle, Ends, RunRow
<1> HIDE DEF new
<1>7. OutcomeHolds(new, ts, r)
  BY <1>5, <1>6 DEF OutcomeHolds, Conclusive, CleanOutcome
<1> QED BY <1>6, <1>7 DEF new, out

\* Reconciling a run with no conclusive outcome records one that holds.
LEMMA ReconcileOutcome ==
    ASSUME NEW run \in RunRow, NEW ts \in Seq(Task), NEW r, run.completion \notin Conclusive
    PROVE  /\ OutcomeHolds(Reconcile(run, ts, r), ts, r)
           /\ Reconcile(run, ts, r).qualified = run.qualified
<1>1. \A state : \A completion \in {"Cancelled with Partial Results", "Paused"} :
        LET new == [run EXCEPT !.state = state, !.completion = completion]
        IN  new.completion \notin Conclusive /\ new.qualified = run.qualified
  BY DEF RunRow, Conclusive, CleanOutcome
<1>2. OutcomeHolds(run, ts, r)
  BY OpenOutcome
<1>3. CASE run.control = "Cancel" /\ ~Has(ts, r, {"Leased"})
  BY <1>1, <1>3, OpenOutcome DEF Reconcile
<1>4. CASE ~(run.control = "Cancel" /\ ~Has(ts, r, {"Leased"})) /\ Has(ts, r, Active)
  BY <1>1, <1>2, <1>4, OpenOutcome DEF Reconcile
<1>5. CASE ~(run.control = "Cancel" /\ ~Has(ts, r, {"Leased"})) /\ ~Has(ts, r, Active)
  BY <1>5, SettleOutcome DEF Reconcile
<1> QED BY <1>3, <1>4, <1>5

\* What a recorded outcome says of the rows no later step can take back.
LEMMA OutcomeFrame ==
    ASSUME IInv, [Next]_vars, NEW r \in Run, OutcomeHolds(runs[r], tasks, r),
           runs'[r].state = runs[r].state, runs'[r].completion = runs[r].completion,
           runs[r].state = "Completed" => runs'[r].qualified = runs[r].qualified
    PROVE  OutcomeHolds(runs'[r], tasks', r)
<1>1. CASE runs[r].completion \notin Conclusive
  BY <1>1, OpenOutcome
<1>2. CASE runs[r].completion \in Conclusive
  <2>1. runs[r].state = "Completed" /\ runs'[r].qualified = runs[r].qualified
    BY <1>2, UnsettledIsOpen
  <2>2. ~Has(tasks, r, Active)
    BY <2>1 DEF IInv, RunsConsistent, RunConsistent
  <2>3. /\ Len(tasks) \in Nat /\ Len(tasks') \in Nat /\ Len(tasks) <= Len(tasks')
        /\ \A i \in 1..Len(tasks') : tasks'[i].run = r => i \in 1..Len(tasks)
    BY <2>1, <2>2, RowsAdded DEF Has, Active
  <2>4. \A i \in 1..Len(tasks) :
          /\ tasks'[i].run = tasks[i].run /\ tasks'[i].business = tasks[i].business
          /\ tasks[i].status \notin Active \cup {"Blocked"} =>
                tasks'[i].status = tasks[i].status /\ tasks'[i].infra = tasks[i].infra
    BY RowsMove DEF RowMoved
  <2>5. ~Has(tasks, r, Status \ {"Completed"}) => ~Has(tasks', r, Status \ {"Completed"})
    <3> SUFFICES ASSUME ~Has(tasks, r, Status \ {"Completed"}), NEW i \in 1..Len(tasks'),
                        tasks'[i].run = r
                 PROVE  tasks'[i].status \notin Status \ {"Completed"}
      BY DEF Has
    <3>1. i \in 1..Len(tasks) /\ tasks[i].run = r /\ tasks[i].status \in Status
      BY <2>3, <2>4, RowTypes DEF IInv, TypeOK, Task
    <3>2. tasks[i].status = "Completed"
      BY <3>1 DEF Has
    <3> QED BY <2>4, <3>1, <3>2 DEF Active
  <2>6. InfrastructureFailed(tasks, r) => InfrastructureFailed(tasks', r)
    <3> SUFFICES ASSUME NEW i \in 1..Len(tasks), tasks[i].run = r,
                        tasks[i].status = "FailedPermanent",
                        tasks[i].business = None, tasks[i].infra
                 PROVE  InfrastructureFailed(tasks', r)
      BY DEF InfrastructureFailed
    <3>1. /\ tasks'[i].run = r /\ tasks'[i].status = "FailedPermanent"
          /\ tasks'[i].business = None /\ tasks'[i].infra
      BY <2>4 DEF Active
    <3> QED BY <2>3, <3>1 DEF InfrastructureFailed
  <2> QED BY <2>1, <2>5, <2>6 DEF OutcomeHolds
<1> QED BY <1>1, <1>2

\* Settlement and recovery leave the metrics of a run alone.
LEMMA ReconcileKeepsMetrics ==
    ASSUME NEW run \in RunRow, NEW ts, NEW r
    PROVE  Reconcile(run, ts, r).qualified = run.qualified
BY DEF Reconcile, Settle, RunRow

LEMMA RecoveryKeepsMetrics ==
    ASSUME NEW run \in RunRow, NEW ts \in Seq(Task), NEW us, NEW r \in Run,
           RunConsistent(run, ts, r)
    PROVE  RecoveredRun(run, ts, us, r).qualified = run.qualified
<1> DEFINE ex == AfterExhaustion(run, ts, r)
           settled == IF Stranded(ex, Recovered(ts), r) THEN Reconcile(ex, us, r) ELSE ex
<1>1. CorrectTarget(run) \in RunRow /\ CorrectTarget(run).qualified = run.qualified
  BY DEF CorrectTarget, RunRow, Completion, Verdict, CleanOutcome
<1>2. ex.qualified = run.qualified
  BY <1>1, ReconcileKeepsMetrics DEF AfterExhaustion
<1>3. ex \in RunRow
  BY AfterExhaustionConsistent
<1>4. RecoveredRun(run, ts, us, r) = Reopen(settled, us, r)
  BY DEF RecoveredRun
<1> HIDE DEF ex
<1>5. settled.qualified = run.qualified
  BY <1>2, <1>3, ReconcileKeepsMetrics
<1> HIDE DEF settled
<1>6. Reopen(settled, us, r).qualified = settled.qualified
  BY DEF Reopen
<1> QED BY <1>4, <1>5, <1>6

\* Recovery records outcomes that hold of the recovered rows.
LEMMA RecoveryOutcome ==
    ASSUME IInv, StartCycle, NEW r \in Run, OutcomeHolds(runs[r], tasks, r)
    PROVE  OutcomeHolds(runs'[r], tasks', r)
<1> DEFINE run == runs[r]
           done == Recovered(tasks)
           ex == AfterExhaustion(run, tasks, r)
           settled == IF Stranded(ex, done, r) THEN Reconcile(ex, tasks', r) ELSE ex
<1>1. /\ run \in RunRow /\ tasks \in Seq(Task) /\ tasks' \in Seq(Task) /\ Len(tasks) \in Nat
      /\ Len(tasks') \in Nat /\ RunConsistent(run, tasks, r) /\ IInv' /\ [Next]_vars
  BY NextIInv, LenProperties DEF IInv, TypeOK, RunsConsistent, Next, Worker
<1>2. runs'[r] = Reopen(settled, tasks', r)
  BY DEF StartCycle, RecoveredRun
<1>3. CASE run.state = "Completed"
  <2>1. runs'[r].state = run.state /\ runs'[r].completion = run.completion
    BY <1>1, <1>3, SettledStep DEF Terminal
  <2>2. runs'[r].qualified = run.qualified
    BY <1>1, RecoveryKeepsMetrics DEF StartCycle
  <2> QED BY <1>1, <2>1, <2>2, OutcomeFrame
<1>4. CASE run.state # "Completed"
  <2>1. run.completion \notin Conclusive /\ CorrectTarget(run) = run
    BY <1>4, UnsettledIsOpen DEF CorrectTarget
  <2>2. /\ done \in Seq(Task) /\ Len(done) = Len(tasks)
        /\ \A i \in 1..Len(tasks) : done[i].run = tasks[i].run
    BY <1>1, RecoveredRows
  <2>3. OutcomeHolds(ex, done, r)
    BY <1>1, <2>1, <2>2, OpenOutcome, ReconcileOutcome DEF AfterExhaustion
  <2>4. ex \in RunRow
    BY <1>1, AfterExhaustionConsistent
  <2>5. ASSUME Stranded(ex, done, r) PROVE OutcomeHolds(settled, tasks', r)
    <3>1. ex.completion \notin Conclusive
      BY <2>3, <2>5, UnsettledIsOpen DEF Stranded
    <3> HIDE DEF ex, done
    <3>2. OutcomeHolds(settled, tasks', r)
      BY <1>1, <2>4, <2>5, <3>1, ReconcileOutcome
    <3> QED BY <3>2
  <2>6. ASSUME ~Stranded(ex, done, r) PROVE OutcomeHolds(settled, tasks', r)
    <3> DEFINE swept(x) == AfterExhaustion(runs[x], tasks, x).state = "Cancelling"
                           /\ Stranded(AfterExhaustion(runs[x], tasks, x), done, x)
    <3>1. tasks' = [i \in 1..Len(tasks) |->
                      IF done[i].status \in {"Pending", "Blocked"} /\ swept(done[i].run)
                      THEN CancelTask(done[i]) ELSE done[i]]
      BY DEF StartCycle, RecoveredTasks
    <3>2. ~swept(r)
      BY <2>6
    <3> HIDE DEF ex, done, swept
    <3>3. Len(tasks') = Len(tasks)
      BY <1>1, <3>1, LenProperties
    <3>4. \A i \in 1..Len(tasks) : done[i].run = r => tasks'[i] = done[i]
      BY <3>1, <3>2
    <3>5. \A i \in 1..Len(tasks) : tasks'[i].run = r => done[i].run = r
      <4>1. \A i \in 1..Len(tasks) : CancelTask(done[i]).run = done[i].run
        BY <2>2, RowTypes, RowUpdates
      <4> QED BY <3>1, <4>1
    <3>6. /\ Has(tasks', r, Status \ {"Completed"}) => Has(done, r, Status \ {"Completed"})
          /\ InfrastructureFailed(done, r) => InfrastructureFailed(tasks', r)
      BY <2>2, <3>3, <3>4, <3>5 DEF Has, InfrastructureFailed
    <3>7. OutcomeHolds(ex, tasks', r)
      BY <2>3, <3>6 DEF OutcomeHolds
    <3> QED BY <2>6, <3>7
  <2>7. CASE Reopen(settled, tasks', r) = settled
    <3>1. OutcomeHolds(settled, tasks', r)
      BY <2>5, <2>6
    <3> QED BY <1>2, <2>7, <3>1
  <2>8. CASE Reopen(settled, tasks', r) # settled
    <3> HIDE DEF settled
    <3>1. settled \in RunRow
      <4>1. Stranded(ex, done, r) => Reconcilable(ex, tasks', r)
        BY <1>1, AfterExhaustionConsistent
      <4> HIDE DEF ex, done
      <4> QED BY <2>4, <4>1, ReconcileConsistent DEF settled
    <3>2. Reopen(settled, tasks', r).completion = None
      BY <2>8, <3>1 DEF Reopen, RunRow
    <3> QED BY <1>2, <3>2, OpenOutcome DEF Conclusive, CleanOutcome, None
  <2> QED BY <2>7, <2>8
<1> QED BY <1>3, <1>4

\* A step that leaves the metrics of a run, or scores one of its candidates.
MetricsEarned(r) ==
    \/ runs'[r].qualified = runs[r].qualified
    \/ \E i \in 1..Len(tasks) : tasks[i].run = r /\ tasks[i].business # None

\* The web process opens, pauses, resumes and cancels runs that are not
\* settled.
LEMMA WebOutcome ==
    ASSUME IInv, Web, NEW r \in Run, OutcomeHolds(runs[r], tasks, r)
    PROVE  OutcomeHolds(runs'[r], tasks', r) /\ runs'[r].qualified = runs[r].qualified
<1>1. /\ [Next]_vars /\ runs \in [Run -> RunRow] /\ runs[r] \in RunRow
      /\ tasks' \in Seq(Task) /\ RunConsistent(runs[r], tasks, r)
  BY NextIInv DEF IInv, TypeOK, RunsConsistent, Next
<1>2. ASSUME runs'[r] = runs[r] PROVE OutcomeHolds(runs'[r], tasks', r)
  BY <1>1, <1>2, OutcomeFrame
<1>3. PICK x \in Run :
        \/ \E reassess \in BOOLEAN, runtime \in Runtime : CreateRun(x, reassess, runtime)
        \/ Pause(x) \/ Cancel(x)
        \/ \E runtime \in Runtime : Resume(x, runtime)
  BY DEF Web
<1>4. CASE x # r
  <2>1. runs'[r] = runs[r]
    BY <1>1, <1>3, <1>4 DEF CreateRun, Pause, Cancel, Resume
  <2> QED BY <1>2, <2>1
<1>5. ASSUME x = r, NEW reassess \in BOOLEAN, NEW runtime \in Runtime,
             CreateRun(x, reassess, runtime)
      PROVE  OutcomeHolds(runs'[r], tasks', r) /\ runs'[r].qualified = runs[r].qualified
  <2>1. /\ runs'[r].completion = runs[r].completion /\ runs'[r].qualified = runs[r].qualified
        /\ runs[r].state = "Absent"
    BY <1>1, <1>5 DEF CreateRun, RunRow
  <2> QED BY <2>1, UnsettledIsOpen, OpenOutcome
<1>6. CASE x = r /\ (Pause(x) \/ Cancel(x))
  <2>1. PICK control, state, completion :
            /\ completion \in {None, "Paused", "Cancelled with Partial Results"}
            /\ runs' = [runs EXCEPT ![r] = [@ EXCEPT !.control = control, !.state = state,
                                                     !.completion = completion]]
    <3>1. CASE Pause(x)
      BY <1>6, <3>1 DEF Pause
    <3>2. CASE Cancel(x)
      BY <1>6, <3>2 DEF Cancel
    <3> QED BY <1>6, <3>1, <3>2
  <2>2. runs'[r].completion = completion /\ runs'[r].qualified = runs[r].qualified
    BY <1>1, <2>1 DEF RunRow
  <2> QED BY <2>1, <2>2, OpenOutcome DEF Conclusive, CleanOutcome, None
<1>7. ASSUME x = r, NEW runtime \in Runtime, Resume(x, runtime)
      PROVE  OutcomeHolds(runs'[r], tasks', r) /\ runs'[r].qualified = runs[r].qualified
  <2> DEFINE run == [runs[r] EXCEPT !.runtime = runtime]
             open == [run EXCEPT !.control = None]
  <2>1. runs'[r] = Resumed(run, tasks', r) /\ runs[r].state # "Completed"
    BY <1>1, <1>7 DEF Resume, Controllable, Terminal
  <2>2. /\ open \in RunRow /\ open.completion = runs[r].completion
        /\ open.qualified = runs[r].qualified /\ run \in RunRow
        /\ run.qualified = runs[r].qualified
    BY <1>1, <1>7 DEF RunRow, Control
  <2>3. open.completion \notin Conclusive
    BY <2>1, <2>2, UnsettledIsOpen
  <2>4. CASE Has(tasks', r, Active)
    <3> HIDE DEF run
    <3>1. runs'[r].completion = None /\ runs'[r].qualified = run.qualified
      BY <2>1, <2>2, <2>4 DEF Resumed, RunRow
    <3> QED BY <2>2, <3>1, OpenOutcome DEF Conclusive, CleanOutcome, None
  <2>5. CASE ~Has(tasks', r, Active)
    <3>1. runs'[r] = Reconcile(open, tasks', r)
      BY <2>1, <2>5 DEF Resumed
    <3> HIDE DEF open, run
    <3> QED BY <1>1, <2>2, <2>3, <3>1, ReconcileOutcome
  <2> QED BY <2>4, <2>5
<1> QED BY <1>3, <1>4, <1>5, <1>6, <1>7

\* Settling a task records an outcome that holds of the rows it leaves.
LEMMA SettlementOutcome ==
    ASSUME IInv, StagesInOrder, OutcomesHold, NEW s \in Slot, Complete(s) \/ Fail(s),
           NEW r \in Run
    PROVE  OutcomeHolds(runs'[r], tasks', r) /\ runs'[r].qualified = runs[r].qualified
<1>1. /\ [Next]_vars /\ runs \in [Run -> RunRow] /\ runs[r] \in RunRow /\ TypeOK
      /\ tasks \in Seq(Task) /\ tasks' \in Seq(Task) /\ Len(tasks) \in Nat
      /\ RunConsistent(runs[r], tasks, r)
      /\ OutcomeHolds(runs[r], tasks, r) /\ QualifiedByBusiness(runs[r], tasks, r)
  BY NextIInv, LenProperties DEF IInv, TypeOK, RunsConsistent, Next, Worker, Finish, OutcomesHold
<1>2. ASSUME NEW i \in 1..Len(tasks), Owned(tasks[i]), tasks[i].run = r
      PROVE  runs[r].completion \notin Conclusive
  <2>1. Has(tasks, r, {"Leased"})
    BY <1>2 DEF Has, Owned
  <2>2. runs[r].state # "Completed"
    BY <1>1, <2>1, HasFacts DEF RunConsistent
  <2> QED BY <1>1, <2>2, UnsettledIsOpen
<1>3. ASSUME runs'[r] = runs[r]
      PROVE  OutcomeHolds(runs'[r], tasks', r) /\ runs'[r].qualified = runs[r].qualified
  BY <1>1, <1>3, OutcomeFrame
<1>4. ASSUME NEW i \in 1..Len(tasks), Owned(tasks[i]), tasks[i].run = r,
             runs'[r] = Reconcile(runs[r], tasks', r)
      PROVE  OutcomeHolds(runs'[r], tasks', r) /\ runs'[r].qualified = runs[r].qualified
  BY <1>1, <1>2, <1>4, ReconcileOutcome
<1>5. CASE Fail(s)
  <2>1. PICK i \in 1..Len(tasks) :
          /\ Owned(tasks[i])
          /\ runs' = [runs EXCEPT ![tasks[i].run] = Reconcile(@, tasks', tasks[i].run)]
    BY <1>5 DEF Fail
  <2>2. CASE tasks[i].run = r
    BY <1>1, <1>4, <2>1, <2>2
  <2>3. CASE tasks[i].run # r
    BY <1>1, <1>3, <2>1, <2>3
  <2> QED BY <2>2, <2>3
<1>6. CASE Complete(s)
  <2>1. PICK i \in 1..Len(tasks) : \E next \in Checkpoints(tasks[i]) :
          LET done == [tasks EXCEPT ![i] = CompleteTask(@)]
              reported == tasks[i].stage = "DiscoverBusinesses" /\ next = << >>
          IN  /\ Owned(tasks[i])
              /\ tasks' = done \o Handed(runs[tasks[i].run], next)
              /\ runs' = [runs EXCEPT ![tasks[i].run] =
                   IF runs[tasks[i].run].control # "Cancel" /\ reported
                      /\ ~Has(done, tasks[i].run, Active)
                   THEN Settle(@, Ends("Completed", "Search Exhausted"))
                   ELSE Reconcile(@, tasks', tasks[i].run)]
    BY <1>6 DEF Complete
  <2>2. PICK next \in Checkpoints(tasks[i]) :
          /\ Owned(tasks[i])
          /\ tasks' = [tasks EXCEPT ![i] = CompleteTask(@)] \o Handed(runs[tasks[i].run], next)
          /\ \/ runs' = [runs EXCEPT ![tasks[i].run] = Reconcile(@, tasks', tasks[i].run)]
             \/ /\ tasks[i].stage = "DiscoverBusinesses" /\ next = << >>
                /\ runs' = [runs EXCEPT ![tasks[i].run] =
                                Settle(@, Ends("Completed", "Search Exhausted"))]
    BY <2>1
  <2>3. CASE tasks[i].run # r
    BY <1>1, <1>3, <2>2, <2>3
  <2>4. CASE tasks[i].run = r /\ runs'[r] = Reconcile(runs[r], tasks', r)
    BY <1>4, <2>2, <2>4
  <2>5. CASE /\ tasks[i].run = r
             /\ tasks[i].stage = "DiscoverBusinesses" /\ next = << >>
             /\ runs'[r] = Settle(runs[r], Ends("Completed", "Search Exhausted"))
    <3>1. CompletedTable(i, next)
      BY <1>1, <2>2, CompletionTable
    <3>2. Len(tasks') = Len(tasks)
      <4>1. Handed(runs[tasks[i].run], next) = << >>
        BY <2>5 DEF Handed
      <4>2. Len(tasks') = Len(tasks) + Len(<< >>)
        BY <3>1, <4>1 DEF CompletedTable
      <4> QED BY <1>1, <4>2, EmptySeq
    <3>3. tasks[i].business = None /\ tasks[i].status = "Leased"
      BY <2>2, <2>5 DEF StagesInOrder, RunStage, Owned
    <3>4. \A j \in 1..Len(tasks) : tasks[j].run = r =>
              tasks[j].business = None /\ (j # i => tasks[j].status = "Completed")
      BY <2>5, <3>3, LeasedIsLast
    <3>5. CompleteTask(tasks[i]).status = "Completed"
      BY <1>1, RowTypes DEF CompleteTask, Unlease, Task
    <3>6. \A j \in 1..Len(tasks) : tasks'[j] = IF j = i THEN CompleteTask(tasks[i]) ELSE tasks[j]
      BY <3>1 DEF CompletedTable
    <3>7. ~Has(tasks', r, Status \ {"Completed"})
      BY <3>2, <3>4, <3>5, <3>6 DEF Has
    <3>8. runs[r].qualified < Target
      <4>1. ~(runs[r].qualified > 0)
        BY <1>1, <3>4 DEF QualifiedByBusiness
      <4>2. runs[r].qualified \in Nat /\ Target \in Nat \ {0}
        BY <1>1, StoreAssumption DEF RunRow
      <4> QED BY <4>1, <4>2
    <3>9. /\ runs'[r].completion = "Search Exhausted" /\ runs'[r].state = "Completed"
          /\ runs'[r].qualified = runs[r].qualified
      BY <1>1, <2>5 DEF Settle, Ends, RunRow
    <3> QED BY <3>7, <3>8, <3>9 DEF OutcomeHolds
  <2> QED BY <1>1, <2>2, <2>3, <2>4, <2>5
<1> QED BY <1>5, <1>6

\* Outside settlement the worker changes no outcome but by recovery.
LEMMA WorkOutcome ==
    ASSUME IInv, StagesInOrder, OutcomesHold, NEW r \in Run,
           \/ StartCycle
           \/ \E s \in Slot :
                 \/ Seek(s) \/ ClaimError(s) \/ SettlementError(s) \/ RenewLease(s)
                 \/ \E report \in SUBSET Business : RecordReport(s, report)
                 \/ \E carried \in SUBSET Business : CarryForward(s, carried)
                 \/ \E qualifies \in BOOLEAN : Score(s, qualifies)
           \/ Time \/ Crash \/ UNCHANGED vars
    PROVE  OutcomeHolds(runs'[r], tasks', r) /\ MetricsEarned(r)
<1>1. /\ [Next]_vars /\ runs \in [Run -> RunRow] /\ runs[r] \in RunRow
      /\ tasks \in Seq(Task) /\ RunConsistent(runs[r], tasks, r)
      /\ OutcomeHolds(runs[r], tasks, r)
  BY DEF IInv, TypeOK, RunsConsistent, Next, Worker, Seek, OutcomesHold
<1>2. CASE StartCycle
  <2>1. runs'[r].qualified = runs[r].qualified
    BY <1>1, <1>2, RecoveryKeepsMetrics DEF StartCycle
  <2> QED BY <1>1, <1>2, <2>1, RecoveryOutcome DEF MetricsEarned
<1>3. ASSUME NEW s \in Slot, Claim(s)
      PROVE  OutcomeHolds(runs'[r], tasks', r) /\ runs'[r].qualified = runs[r].qualified
  <2>1. PICK i \in 1..Len(tasks) :
          /\ Claimable(i)
          /\ runs' = [runs EXCEPT ![tasks[i].run] = [@ EXCEPT !.state = "Running"]]
    BY <1>3 DEF Claim
  <2>2. CASE tasks[i].run # r
    <3>1. runs'[r] = runs[r]
      BY <1>1, <2>1, <2>2
    <3> QED BY <1>1, <3>1, OutcomeFrame
  <2>3. CASE tasks[i].run = r
    <3>1. runs[r].completion \notin Conclusive
      BY <1>1, <2>1, <2>3, UnsettledIsOpen DEF Claimable, Terminal
    <3>2. runs'[r].completion = runs[r].completion /\ runs'[r].qualified = runs[r].qualified
      BY <1>1, <2>1, <2>3 DEF RunRow
    <3> QED BY <3>1, <3>2, OpenOutcome
  <2> QED BY <2>2, <2>3
<1>4. ASSUME NEW s \in Slot,
             \/ \E report \in SUBSET Business : RecordReport(s, report)
             \/ \E carried \in SUBSET Business : CarryForward(s, carried)
             \/ \E qualifies \in BOOLEAN : Score(s, qualifies)
      PROVE  OutcomeHolds(runs'[r], tasks', r) /\ MetricsEarned(r)
  <2>1. PICK i \in 1..Len(tasks) :
          /\ Holds(s, i)
          /\ \/ runs' = runs
             \/ \E found : runs' = [runs EXCEPT ![tasks[i].run] = Record(@, found)]
             \/ /\ tasks[i].stage = "ScoreCandidate"
                /\ runs' = [runs EXCEPT ![tasks[i].run] = Qualify(@)]
    BY <1>4 DEF RecordReport, CarryForward, Score
  <2>2. \/ runs'[r] = runs[r]
        \/ tasks[i].run = r /\ \E found : runs'[r] = Record(runs[r], found)
        \/ tasks[i].run = r /\ tasks[i].stage = "ScoreCandidate" /\ runs'[r] = Qualify(runs[r])
    BY <1>1, <2>1
  <2>3. CASE runs'[r] = runs[r]
    BY <1>1, <2>3, OutcomeFrame DEF MetricsEarned
  <2>4. ASSUME tasks[i].run = r PROVE runs[r].completion \notin Conclusive
    <3>1. Owned(tasks[i])
      BY <2>1 DEF IInv, ExclusiveExecution, Holds, Working
    <3>2. Has(tasks, r, {"Leased"})
      BY <2>4, <3>1 DEF Has, Owned
    <3>3. runs[r].state # "Completed"
      BY <1>1, <3>2, HasFacts DEF RunConsistent
    <3> QED BY <1>1, <3>3, UnsettledIsOpen
  <2>5. /\ \A found : /\ Record(runs[r], found).completion = runs[r].completion
                      /\ Record(runs[r], found).qualified = runs[r].qualified
        /\ Qualify(runs[r]).completion = runs[r].completion
    BY <1>1 DEF Record, Qualify, RunRow
  <2>6. CASE tasks[i].run = r /\ \E found : runs'[r] = Record(runs[r], found)
    BY <2>4, <2>5, <2>6, OpenOutcome DEF MetricsEarned
  <2>7. CASE /\ tasks[i].run = r /\ tasks[i].stage = "ScoreCandidate"
             /\ runs'[r] = Qualify(runs[r])
    <3>1. tasks[i].business # None
      BY <2>7 DEF StagesInOrder, RunStage
    <3> QED BY <2>4, <2>5, <2>7, <3>1, OpenOutcome DEF MetricsEarned
  <2> QED BY <2>2, <2>3, <2>6, <2>7
<1>5. ASSUME \/ \E s \in Slot : LeaveCycle(s) \/ ClaimError(s) \/ SettlementError(s) \/ RenewLease(s)
             \/ Time \/ Crash \/ UNCHANGED vars
      PROVE  runs' = runs
  BY <1>5 DEF LeaveCycle, ClaimError, SettlementError, RenewLease, Time, LeaseExpires,
              RetryDelayPasses, Crash, vars
<1>6. ASSUME runs' = runs PROVE OutcomeHolds(runs'[r], tasks', r) /\ MetricsEarned(r)
  BY <1>1, <1>6, OutcomeFrame DEF MetricsEarned
<1> QED BY <1>2, <1>3, <1>4, <1>5, <1>6 DEF Seek, MetricsEarned

\* Every step records only outcomes that hold, and keeps those recorded.
LEMMA NextOutcomes == IInv /\ OutcomeInv /\ [Next]_vars => OutcomesHold'
<1> SUFFICES ASSUME IInv, StagesInOrder, OutcomesHold, [Next]_vars, NEW r \in Run
             PROVE  OutcomeHolds(runs'[r], tasks', r) /\ QualifiedByBusiness(runs'[r], tasks', r)
  BY DEF OutcomeInv, OutcomesHold
<1>1. OutcomeHolds(runs[r], tasks, r) /\ QualifiedByBusiness(runs[r], tasks, r)
  BY DEF OutcomesHold
<1>2. OutcomeHolds(runs'[r], tasks', r) /\ MetricsEarned(r)
  <2>1. CASE Web
    BY <1>1, <2>1, WebOutcome DEF MetricsEarned
  <2>2. CASE \E s \in Slot : Finish(s)
    BY <2>2, SettlementOutcome DEF Finish, MetricsEarned
  <2>3. CASE ~Web /\ ~\E s \in Slot : Finish(s)
    BY <2>3, WorkOutcome DEF Next, Worker
  <2> QED BY <2>1, <2>2, <2>3
<1>3. \A i \in 1..Len(tasks) : /\ i \in 1..Len(tasks')
                               /\ tasks'[i].run = tasks[i].run
                               /\ tasks'[i].business = tasks[i].business
  BY RowsAdded, RowsMove DEF RowMoved
<1>4. (\E i \in 1..Len(tasks) : tasks[i].run = r /\ tasks[i].business # None)
        => QualifiedByBusiness(runs'[r], tasks', r)
  BY <1>3 DEF QualifiedByBusiness
<1>5. CASE runs'[r].qualified = runs[r].qualified
  BY <1>1, <1>2, <1>4, <1>5 DEF QualifiedByBusiness
<1> QED BY <1>2, <1>4, <1>5 DEF MetricsEarned

\* What the rows and the recorded outcomes of every run say to each other.
THEOREM OutcomesAreInductive == Spec => []OutcomeInv
<1>1. Init => OutcomeInv
  <2>1. Init => StagesInOrder
    BY DEF Init, StagesInOrder, OneStageAtATime
  <2>2. ASSUME Init, NEW r \in Run
        PROVE  OutcomeHolds(runs[r], tasks, r) /\ QualifiedByBusiness(runs[r], tasks, r)
    <3>1. runs[r].completion = None /\ runs[r].qualified = 0
      BY <2>2 DEF Init, AbsentRun
    <3>2. OutcomeHolds(runs[r], tasks, r)
      BY <3>1, OpenOutcome DEF Conclusive, CleanOutcome, None
    <3>3. QualifiedByBusiness(runs[r], tasks, r)
      BY <3>1 DEF QualifiedByBusiness
    <3> QED BY <3>2, <3>3
  <2> QED BY <2>1, <2>2 DEF OutcomeInv, OutcomesHold
<1>2. IInv /\ OutcomeInv /\ [Next]_vars => OutcomeInv'
  BY NextStagesInOrder, NextOutcomes DEF OutcomeInv
<1> QED BY <1>1, <1>2, InductiveInvariant, PTL DEF Spec

\* A clean outcome is earned: every task of the run completed, and the target
\* is reported as reached exactly when it was.
THEOREM CleanOutcomesAreEarned == Spec => []CleanOutcomeIsEarned
<1>1. ASSUME IInv, OutcomeInv PROVE CleanOutcomeIsEarned
  <2> SUFFICES ASSUME NEW r \in Run, runs[r].completion \in CleanOutcome
               PROVE  /\ \A i \in 1..Len(tasks) :
                            tasks[i].run = r => tasks[i].status = "Completed"
                      /\ runs[r].completion = "Target Reached" => runs[r].qualified >= Target
                      /\ runs[r].completion = "Search Exhausted" => runs[r].qualified < Target
    BY DEF CleanOutcomeIsEarned
  <2>1. OutcomeHolds(runs[r], tasks, r)
    BY <1>1 DEF OutcomeInv, OutcomesHold
  <2>2. \A i \in 1..Len(tasks) : tasks[i].status \in Status
    BY <1>1, RowTypes DEF IInv, TypeOK, Task
  <2> QED BY <2>1, <2>2 DEF OutcomeHolds, Has
<1> QED BY <1>1, InductiveInvariant, OutcomesAreInductive, PTL

\* A business failure is isolated: a run fails as a whole only when it failed
\* before any business had a task of its own.
THEOREM BusinessFailuresAreIsolated == Spec => []BusinessFailureIsIsolated
<1>1. ASSUME IInv, OutcomeInv PROVE BusinessFailureIsIsolated
  <2>1. \A i, j \in 1..Len(tasks) : i < j \/ j < i \/ i = j
    <3>1. Len(tasks) \in Nat
      BY <1>1, LenProperties DEF IInv, TypeOK
    <3> QED BY <3>1
  <2> SUFFICES ASSUME NEW r \in Run, runs[r].completion = "Infrastructure Failed",
                      NEW j \in 1..Len(tasks), tasks[j].run = r
               PROVE  tasks[j].business = None
    BY DEF BusinessFailureIsIsolated
  <2>2. InfrastructureFailed(tasks, r)
    BY <1>1 DEF OutcomeInv, OutcomesHold, OutcomeHolds
  <2>3. PICK i \in 1..Len(tasks) : /\ tasks[i].run = r /\ tasks[i].status = "FailedPermanent"
                                   /\ tasks[i].business = None
    BY <2>2 DEF InfrastructureFailed
  <2>4. ~(i < j)
    BY <1>1, <2>3 DEF OutcomeInv, StagesInOrder, OneStageAtATime
  <2>5. j < i => tasks[j].business = None
    BY <1>1, <2>3 DEF OutcomeInv, StagesInOrder
  <2>6. CASE i = j
    BY <2>3, <2>6
  <2> QED BY <2>1, <2>4, <2>5, <2>6
<1> QED BY <1>1, InductiveInvariant, OutcomesAreInductive, PTL

-----------------------------------------------------------------------------
(* The run its user was promised: RunLifecycle.                            *)

\* The mapped state, run by run.
LEMMA Mapped ==
    ASSUME NEW r \in Run
    PROVE  /\ Phases[r] = Phase(runs[r]) /\ Phases'[r] = Phase(runs'[r])
           /\ Outcomes[r] = IF runs[r].state \in Terminal THEN runs[r].completion ELSE None
           /\ Outcomes'[r] = IF runs'[r].state \in Terminal THEN runs'[r].completion ELSE None
           /\ AllJobs[r] = Jobs(tasks, r, Status) /\ AllJobs'[r] = Jobs(tasks', r, Status)
           /\ BusyJobs[r] = Jobs(tasks, r, {"Leased"})
           /\ BusyJobs'[r] = Jobs(tasks', r, {"Leased"})
           /\ FinishedJobs[r] = Jobs(tasks, r, {"Completed"})
           /\ FinishedJobs'[r] = Jobs(tasks', r, {"Completed"})
BY DEF Phases, Outcomes, AllJobs, BusyJobs, FinishedJobs

\* A run has jobs of a kind when it has a row of one.
LEMMA HasJobs ==
    ASSUME NEW ts, NEW r, NEW statuses
    PROVE  Jobs(ts, r, statuses) = {} <=> ~Has(ts, r, statuses)
BY DEF Jobs, Has

LEMMA PhaseFacts ==
    ASSUME NEW run \in RunRow
    PROVE  /\ Phase(run) \in Lifecycle!Open \cup Terminal \cup {"Absent"}
           /\ run.state \notin {"Pending", "Running"} => Phase(run) = run.state
           /\ run.state \in {"Pending", "Running"} => Phase(run) = "Live"
           /\ Phase(run) \in Terminal <=> run.state \in Terminal
           /\ \A p \in {"Absent", "Pausing", "Paused", "Cancelling", "Completed", "Cancelled"} :
                Phase(run) = p <=> run.state = p
           /\ Phase(run) = "Live" <=> run.state \in {"Pending", "Running"}
BY DEF Phase, RunRow, State, Terminal, Lifecycle!Open

\* A run that turns to a phase tells its user what belongs to it.
LEMMA TurnsTo ==
    ASSUME IInv', NEW r \in Run, NEW phases, Phase(runs'[r]) \in phases
    PROVE  Lifecycle!Turns(r, phases)
<1>1. runs'[r] \in RunRow /\ RunConsistent(runs'[r], tasks', r)
  BY DEF IInv, TypeOK, RunsConsistent
<1>2. Outcomes'[r] \in Lifecycle!Outcomes(Phases'[r])
  <2>1. CASE runs'[r].state = "Completed"
    <3>1. Phases'[r] = "Completed" /\ Outcomes'[r] = runs'[r].completion
      BY <1>1, <2>1, Mapped, PhaseFacts DEF Terminal
    <3>2. runs'[r].completion \in Verdict
      BY <1>1, <2>1 DEF RunConsistent
    <3> QED BY <3>1, <3>2 DEF Lifecycle!Outcomes, Verdict, CleanOutcome
  <2>2. CASE runs'[r].state = "Cancelled"
    <3>1. Phases'[r] = "Cancelled" /\ Outcomes'[r] = runs'[r].completion
      BY <1>1, <2>2, Mapped, PhaseFacts DEF Terminal
    <3>2. runs'[r].completion = "Cancelled with Partial Results"
      BY <1>1, <2>2 DEF RunConsistent
    <3> QED BY <3>1, <3>2 DEF Lifecycle!Outcomes
  <2>3. CASE runs'[r].state \notin Terminal
    <3>1. Phases'[r] \notin Terminal /\ Outcomes'[r] = "None"
      BY <1>1, <2>3, Mapped, PhaseFacts DEF None
    <3> QED BY <3>1 DEF Lifecycle!Outcomes, Terminal
  <2> QED BY <2>1, <2>2, <2>3 DEF Terminal
<1> QED BY <1>2, Mapped DEF Lifecycle!Turns

\* Where the worker may take a run.
Ahead(p) ==
    IF p = "Cancelling" THEN {"Cancelling", "Cancelled"}
    ELSE {p, "Paused", "Completed", "Cancelled"}

LEMMA GoesAhead ==
    ASSUME IInv', NEW r \in Run, Phase(runs'[r]) \in Ahead(Phase(runs[r]))
    PROVE  Lifecycle!GoesOn(r)
<1>1. runs'[r] \in RunRow /\ RunConsistent(runs'[r], tasks', r)
  BY DEF IInv, TypeOK, RunsConsistent
<1>2. /\ Phases'[r] \in {"Pausing", "Cancelling"} => BusyJobs'[r] # {}
      /\ Phases'[r] \in {"Paused"} \cup Terminal => BusyJobs'[r] = {}
  <2>1. /\ runs'[r].state \in {"Pausing", "Cancelling"} => Has(tasks', r, {"Leased"})
        /\ runs'[r].state \in {"Paused"} \cup Terminal => ~Has(tasks', r, {"Leased"})
    BY <1>1, HasFacts DEF RunConsistent, Terminal
  <2> QED BY <1>1, <2>1, Mapped, HasJobs, PhaseFacts DEF Terminal
<1>3. Lifecycle!Turns(r, Ahead(Phase(runs[r])))
  BY TurnsTo
<1> QED BY <1>2, <1>3, Mapped DEF Lifecycle!GoesOn, Lifecycle!Ended, Ahead, Terminal

\* No step removes a row, or gives it to another run.
LEMMA TableGrows ==
    ASSUME IInv, [Next]_vars
    PROVE  /\ Len(tasks) \in Nat /\ Len(tasks') \in Nat /\ Len(tasks) <= Len(tasks')
           /\ \A i \in 1..Len(tasks) : /\ i \in 1..Len(tasks')
                                       /\ tasks[i].status \in Status /\ tasks'[i].status \in Status
                                       /\ tasks'[i].run = tasks[i].run
           /\ \A i \in 1..Len(tasks') : i \in 1..Len(tasks) \/ i \in (Len(tasks) + 1)..Len(tasks')
<1>1. Len(tasks) \in Nat /\ Len(tasks') \in Nat /\ Len(tasks) <= Len(tasks')
  BY RowsAdded
<1>2. \A i \in 1..Len(tasks) : tasks'[i].run = tasks[i].run
  BY RowsMove DEF RowMoved
<1>3. tasks \in Seq(Task) /\ tasks' \in Seq(Task)
  BY NextIInv DEF IInv, TypeOK
<1>4. /\ \A i \in 1..Len(tasks) : tasks[i].status \in Status
      /\ \A i \in 1..Len(tasks') : tasks'[i].status \in Status
  BY <1>3, RowTypes DEF Task
<1> QED BY <1>1, <1>2, <1>4

\* A run that is given no row keeps its jobs.
NoRowAdded(r) == \A i \in (Len(tasks) + 1)..Len(tasks') : tasks'[i].run # r

LEMMA JobsStay ==
    ASSUME IInv, [Next]_vars, NEW r \in Run, NoRowAdded(r)
    PROVE  Lifecycle!SameJobs(r)
<1>1. \A i : i \in 1..Len(tasks') /\ tasks'[i].run = r <=> i \in 1..Len(tasks) /\ tasks[i].run = r
  BY TableGrows DEF NoRowAdded
<1>2. Jobs(tasks', r, Status) = Jobs(tasks, r, Status)
  BY <1>1, TableGrows DEF Jobs
<1> QED BY <1>2, Mapped DEF Lifecycle!SameJobs

\* So does one whose rows are neither taken, put down nor completed.
RowsStay(r) ==
    /\ NoRowAdded(r)
    /\ \A i \in 1..Len(tasks) : tasks[i].run = r =>
          /\ tasks'[i].status = "Leased" <=> tasks[i].status = "Leased"
          /\ tasks'[i].status = "Completed" <=> tasks[i].status = "Completed"

LEMMA WorkStays ==
    ASSUME IInv, [Next]_vars, NEW r \in Run, RowsStay(r)
    PROVE  Lifecycle!SameWork(r)
<1>1. \A i : i \in 1..Len(tasks') /\ tasks'[i].run = r <=> i \in 1..Len(tasks) /\ tasks[i].run = r
  BY TableGrows DEF NoRowAdded, RowsStay
<1>2. /\ Jobs(tasks', r, {"Leased"}) = Jobs(tasks, r, {"Leased"})
      /\ Jobs(tasks', r, {"Completed"}) = Jobs(tasks, r, {"Completed"})
  BY <1>1 DEF Jobs, RowsStay
<1>3. Lifecycle!SameJobs(r)
  BY JobsStay DEF RowsStay
<1> QED BY <1>2, <1>3, Mapped DEF Lifecycle!SameWork

\* A run left alone stays.
LEMMA RunStays ==
    ASSUME IInv, [Next]_vars, NEW r \in Run, RowsStay(r),
           runs'[r].state = runs[r].state, runs'[r].completion = runs[r].completion
    PROVE  Lifecycle!Stays(r)
<1>1. Phase(runs'[r]) = Phase(runs[r])
  BY DEF Phase
<1> QED BY <1>1, WorkStays, Mapped DEF Lifecycle!Stays

\* One whose jobs are at most put down goes ahead without them.
LEMMA JobsPutDown ==
    ASSUME IInv, [Next]_vars, NEW r \in Run, NoRowAdded(r),
           Phase(runs[r]) \in Lifecycle!Open, Phase(runs'[r]) \in Ahead(Phase(runs[r])),
           \A i \in 1..Len(tasks) : tasks[i].run = r =>
              /\ tasks'[i].status = "Leased" => tasks[i].status = "Leased"
              /\ tasks'[i].status = "Completed" <=> tasks[i].status = "Completed"
    PROVE  Lifecycle!PutsDown(r)
<1>1. \A i : i \in 1..Len(tasks') /\ tasks'[i].run = r <=> i \in 1..Len(tasks) /\ tasks[i].run = r
  BY TableGrows DEF NoRowAdded
<1>2. /\ Jobs(tasks', r, {"Leased"}) \subseteq Jobs(tasks, r, {"Leased"})
      /\ Jobs(tasks', r, {"Completed"}) = Jobs(tasks, r, {"Completed"})
  BY <1>1 DEF Jobs
<1>3. Lifecycle!GoesOn(r)
  BY GoesAhead, NextIInv
<1> QED BY <1>2, <1>3, JobsStay, Mapped DEF Lifecycle!PutsDown

\* What an open run's phase says of its control.
Steered(run) == run.state = "Cancelling" => run.control = "Cancel"

\* Reconciling an open run takes it ahead.
LEMMA ReconcileAhead ==
    ASSUME NEW run \in RunRow, NEW ts, NEW r, Steered(run), Phase(run) \in Lifecycle!Open
    PROVE  Phase(Reconcile(run, ts, r)) \in Ahead(Phase(run))
<1> DEFINE new == Reconcile(run, ts, r)
<1>1. CASE run.control = "Cancel" /\ ~Has(ts, r, {"Leased"})
  <2>1. new = [run EXCEPT !.state = "Cancelled", !.completion = "Cancelled with Partial Results"]
    BY <1>1 DEF Reconcile
  <2>2. new.state = "Cancelled"
    BY <2>1 DEF RunRow
  <2> QED BY <2>2 DEF Phase, Ahead
<1>2. CASE ~(run.control = "Cancel" /\ ~Has(ts, r, {"Leased"})) /\ Has(ts, r, Active)
  <2>1. CASE run.control = "Pause" /\ ~Has(ts, r, {"Leased"})
    <3>1. new = [run EXCEPT !.state = "Paused", !.completion = "Paused"]
      BY <1>2, <2>1 DEF Reconcile
    <3>2. new.state = "Paused" /\ run.state # "Cancelling"
      BY <2>1, <3>1 DEF RunRow, Steered
    <3>3. Phase(run) # "Cancelling"
      BY <3>2, PhaseFacts
    <3> QED BY <3>2, <3>3 DEF Phase, Ahead
  <2>2. CASE ~(run.control = "Pause" /\ ~Has(ts, r, {"Leased"}))
    <3>1. new = run
      BY <1>2, <2>2 DEF Reconcile
    <3> QED BY <3>1 DEF Ahead
  <2> QED BY <2>1, <2>2
<1>3. CASE ~(run.control = "Cancel" /\ ~Has(ts, r, {"Leased"})) /\ ~Has(ts, r, Active)
  <2> DEFINE end == Outcome(run, ts, r)
  <2>1. new = Settle(run, end)
    BY <1>3 DEF Reconcile
  <2>2. end.state \in {"Completed", "Paused", "Cancelled"}
    BY DEF Outcome, Ends
  <2> HIDE DEF end
  <2>3. new.state = end.state
    BY <2>1 DEF Settle, RunRow
  <2>4. Phase(run) # "Cancelling"
    BY <1>3, HasFacts, PhaseFacts DEF Steered
  <2> QED BY <2>2, <2>3, <2>4 DEF Phase, Ahead
<1> QED BY <1>1, <1>2, <1>3

\* Twice ahead is ahead.
LEMMA AheadTwice ==
    ASSUME NEW p \in Lifecycle!Open, NEW q \in Ahead(p), q \in Lifecycle!Open
    PROVE  Ahead(q) \subseteq Ahead(p)
BY DEF Ahead, Lifecycle!Open

\* Recovery takes an open run ahead, reconciling it at most twice.
LEMMA RecoveryAhead ==
    ASSUME NEW run \in RunRow, NEW ts \in Seq(Task), NEW us, NEW r \in Run,
           RunConsistent(run, ts, r), Phase(run) \in Lifecycle!Open
    PROVE  Phase(SettledBy(run, ts, us, r)) \in Ahead(Phase(run))
<1> DEFINE ex == AfterExhaustion(run, ts, r)
<1>1. ex = Reconcile(run, Recovered(ts), r) \/ ex = run
  <2>1. run.state # "Completed"
    BY DEF Phase, Lifecycle!Open
  <2> QED BY <2>1 DEF AfterExhaustion, CorrectTarget
<1>2. Phase(ex) \in Ahead(Phase(run))
  <2>1. Steered(run)
    BY DEF Steered, RunConsistent
  <2>2. Phase(Reconcile(run, Recovered(ts), r)) \in Ahead(Phase(run))
    BY <2>1, ReconcileAhead
  <2> HIDE DEF ex
  <2> QED BY <1>1, <2>2 DEF Ahead
<1>3. CASE Stranded(ex, Recovered(ts), r)
  <2>1. ex \in RunRow /\ Reconcilable(ex, us, r)
    BY <1>3, AfterExhaustionConsistent
  <2>2. SettledBy(run, ts, us, r) = Reconcile(ex, us, r)
    BY <1>3 DEF SettledBy
  <2> HIDE DEF ex
  <2>3. Steered(ex) /\ ex.state \in {"Cancelling", "Pausing"}
    BY <1>3, <2>1 DEF Steered, Reconcilable, Stranded
  <2>4. Phase(ex) \in Lifecycle!Open
    BY <2>3 DEF Phase, Lifecycle!Open
  <2>5. Phase(Reconcile(ex, us, r)) \in Ahead(Phase(ex))
    BY <2>1, <2>3, <2>4, ReconcileAhead
  <2> QED BY <1>2, <2>2, <2>4, <2>5, AheadTwice
<1>4. CASE ~Stranded(ex, Recovered(ts), r)
  BY <1>2, <1>4 DEF SettledBy
<1> QED BY <1>3, <1>4

\* The runs a step is not about stay.
LEMMA OthersStay ==
    ASSUME IInv, [Next]_vars, NEW r,
           \A x \in Run \ {r} : runs'[x] = runs[x],
           \A i \in 1..Len(tasks) : tasks[i].run # r => tasks'[i].status = tasks[i].status,
           \A i \in (Len(tasks) + 1)..Len(tasks') : tasks'[i].run = r
    PROVE  \A x \in Run \ {r} : Lifecycle!Stays(x)
<1> TAKE x \in Run \ {r}
<1>1. NoRowAdded(x)
  BY DEF NoRowAdded
<1>2. RowsStay(x)
  BY <1>1 DEF RowsStay
<1> QED BY <1>2, RunStays

\* A step that is about one run is a step of the lifecycle when that run's is.
LEMMA OneRunMoves ==
    ASSUME NEW r, \A x \in Run \ {r} : Lifecycle!Stays(x),
           \/ Lifecycle!Stays(r) \/ Lifecycle!Starts(r) \/ Lifecycle!Pauses(r)
           \/ Lifecycle!Cancels(r) \/ Lifecycle!Resumes(r)
           \/ Lifecycle!Takes(r) \/ Lifecycle!Finishes(r) \/ Lifecycle!PutsDown(r)
    PROVE  Lifecycle!Next
BY DEF Lifecycle!Next

\* A created run starts with its planning task.
LEMMA CreateRunMoves ==
    ASSUME IInv, [Next]_vars, NEW r \in Run, NEW reassess \in BOOLEAN, NEW runtime \in Runtime,
           CreateRun(r, reassess, runtime)
    PROVE  Lifecycle!Next
<1> DEFINE n == Len(tasks) + 1
<1>1. TypeOK /\ IInv' /\ RunConsistent(runs[r], tasks, r)
  BY NextIInv DEF IInv, RunsConsistent
<1>2. /\ runs[r].state = "Absent" /\ Len(tasks') = n /\ Len(tasks) \in Nat
      /\ \A j \in 1..Len(tasks) : tasks'[j] = tasks[j]
      /\ tasks'[n].run = r /\ tasks'[n].status = "Pending"
  <2> DEFINE row == NewTask(r, None, "RunPlanning", runtime)
  <2>1. row.run = r /\ row.status = "Pending"
    BY DEF NewTask
  <2> HIDE DEF row
  <2>2. /\ runs[r].state = "Absent" /\ Len(tasks') = n /\ tasks'[n] = row
        /\ \A j \in 1..Len(tasks) : tasks'[j] = tasks[j]
    BY <1>1, CreationTable DEF row
  <2> QED BY <2>1, <2>2, TableGrows
<1>3. \A i \in 1..Len(tasks) : tasks[i].run # r
  BY <1>1, <1>2, TableGrows DEF RunConsistent, Has
<1>4. runs'[r].state = "Pending" /\ \A x \in Run \ {r} : runs'[x] = runs[x]
  BY <1>1 DEF CreateRun, TypeOK, RunRow
<1>5. \A i : i \in 1..Len(tasks') /\ tasks'[i].run = r <=> i = n
  <2> HIDE DEF n
  <2>1. n \in 1..Len(tasks') /\ \A i \in 1..Len(tasks') : i \in 1..Len(tasks) \/ i = n
    BY <1>2 DEF n
  <2> QED BY <1>2, <1>3, <2>1
<1> HIDE DEF n
<1>6. /\ Jobs(tasks', r, Status) = {n}
      /\ Jobs(tasks', r, {"Leased"}) = {} /\ Jobs(tasks', r, {"Completed"}) = {}
  BY <1>2, <1>5 DEF Jobs, Status
<1>7. Lifecycle!Starts(r)
  <2>1. Phase(runs[r]) = "Absent" /\ Phase(runs'[r]) = "Live"
    BY <1>2, <1>4 DEF Phase
  <2>2. Lifecycle!Turns(r, {"Live"})
    BY <1>1, <2>1, TurnsTo
  <2> QED BY <1>6, <2>1, <2>2, Mapped DEF Lifecycle!Starts
<1>8. \A x \in Run \ {r} : Lifecycle!Stays(x)
  <2>1. \A i \in (Len(tasks) + 1)..Len(tasks') : tasks'[i].run = r
    BY <1>2 DEF n
  <2> QED BY <1>2, <1>4, <2>1, OthersStay
<1> QED BY <1>7, <1>8, OneRunMoves

\* A pause and a cancellation wait exactly for the jobs in hand.
LEMMA ControlsMove ==
    ASSUME IInv, [Next]_vars, NEW r \in Run, Pause(r) \/ Cancel(r)
    PROVE  Lifecycle!Next
<1>1. /\ TypeOK /\ IInv' /\ runs[r] \in RunRow /\ runs[r].state \notin Terminal \cup {"Absent"}
      /\ Len(tasks) \in Nat /\ Len(tasks') = Len(tasks)
  <2>1. TypeOK /\ IInv' /\ runs[r] \in RunRow
    BY NextIInv DEF IInv, TypeOK
  <2>2. runs[r].state \notin Terminal \cup {"Absent"}
    BY DEF Pause, Cancel, Controllable
  <2>3. Len(tasks) \in Nat /\ tasks' \in Seq(Task)
    BY <2>1, TableGrows DEF IInv, TypeOK
  <2>4. Len(tasks') = Len(tasks)
    <3>1. tasks' = tasks \/ DOMAIN tasks' = 1..Len(tasks)
      BY DEF Pause, Cancel
    <3> QED BY <2>3, <3>1, LenProperties
  <2> QED BY <2>1, <2>2, <2>3, <2>4
<1>2. Phase(runs[r]) \in Lifecycle!Open
  BY <1>1, PhaseFacts
<1>3. \A i \in 1..Len(tasks) :
         \/ tasks'[i] = tasks[i]
         \/ /\ tasks[i].run = r /\ tasks[i].status \in {"Pending", "Blocked"}
            /\ tasks'[i].status = "Cancelled"
  <2>1. ASSUME NEW i \in 1..Len(tasks), Cancel(r)
        PROVE  tasks'[i] = IF tasks[i].run = r /\ tasks[i].status \in {"Pending", "Blocked"}
                           THEN CancelTask(tasks[i]) ELSE tasks[i]
    BY <2>1 DEF Cancel
  <2>2. \A i \in 1..Len(tasks) : CancelTask(tasks[i]).status = "Cancelled"
    BY <1>1, RowTypes DEF CancelTask, Task, TypeOK
  <2>3. Pause(r) => tasks' = tasks
    BY DEF Pause
  <2> QED BY <2>1, <2>2, <2>3
<1>4. Lifecycle!SameWork(r)
  <2>1. RowsStay(r)
    BY <1>1, <1>3 DEF RowsStay, NoRowAdded
  <2> QED BY <2>1, WorkStays
<1>5. /\ Pause(r) => runs'[r].state = IF Has(tasks, r, {"Leased"}) THEN "Pausing" ELSE "Paused"
      /\ Cancel(r) => runs'[r].state = IF Has(tasks, r, {"Leased"}) THEN "Cancelling"
                                       ELSE "Cancelled"
  <2>1. ASSUME Pause(r)
        PROVE  runs'[r].state = IF Has(tasks, r, {"Leased"}) THEN "Pausing" ELSE "Paused"
    BY <1>1, <2>1 DEF Pause, TypeOK, RunRow
  <2>2. ASSUME Cancel(r)
        PROVE  runs'[r].state = IF Has(tasks, r, {"Leased"}) THEN "Cancelling" ELSE "Cancelled"
    BY <1>1, <2>2 DEF Cancel, TypeOK, RunRow
  <2> QED BY <2>1, <2>2
<1>6. BusyJobs[r] = {} <=> ~Has(tasks, r, {"Leased"})
  BY Mapped, HasJobs
<1>7. \A x \in Run \ {r} : Lifecycle!Stays(x)
  <2>1. \A x \in Run \ {r} : runs'[x] = runs[x]
    BY <1>1 DEF Pause, Cancel, TypeOK
  <2>2. \A i \in (Len(tasks) + 1)..Len(tasks') : tasks'[i].run = r
    BY <1>1
  <2> QED BY <1>3, <2>1, <2>2, OthersStay
<1>8. CASE Pause(r)
  <2>1. Phase(runs'[r]) \in {IF BusyJobs[r] = {} THEN "Paused" ELSE "Pausing"}
    BY <1>5, <1>6, <1>8 DEF Phase
  <2>2. Lifecycle!Turns(r, {IF BusyJobs[r] = {} THEN "Paused" ELSE "Pausing"})
    BY <1>1, <2>1, TurnsTo
  <2>3. Lifecycle!Pauses(r)
    BY <1>2, <1>4, <2>2, Mapped DEF Lifecycle!Pauses, Lifecycle!Stops
  <2> QED BY <1>7, <2>3, OneRunMoves
<1>9. CASE Cancel(r)
  <2>1. Phase(runs'[r]) \in {IF BusyJobs[r] = {} THEN "Cancelled" ELSE "Cancelling"}
    BY <1>5, <1>6, <1>9 DEF Phase
  <2>2. Lifecycle!Turns(r, {IF BusyJobs[r] = {} THEN "Cancelled" ELSE "Cancelling"})
    BY <1>1, <2>1, TurnsTo
  <2>3. Lifecycle!Cancels(r)
    BY <1>2, <1>4, <2>2, Mapped DEF Lifecycle!Cancels, Lifecycle!Stops
  <2> QED BY <1>7, <2>3, OneRunMoves
<1> QED BY <1>8, <1>9

\* A resumed run is live again, with the jobs in hand it had.
LEMMA ResumeMoves ==
    ASSUME IInv, [Next]_vars, NEW r \in Run, NEW runtime \in Runtime, Resume(r, runtime)
    PROVE  Lifecycle!Next
<1>1. TypeOK /\ IInv' /\ runs[r] \in RunRow /\ runs[r].state \notin Terminal \cup {"Absent"}
  BY NextIInv DEF IInv, TypeOK, Resume, Controllable
<1>2. /\ Len(tasks) \in Nat /\ Len(tasks') = Len(tasks)
      /\ \A i \in 1..Len(tasks) :
            /\ tasks[i].run # r => tasks'[i] = tasks[i]
            /\ tasks[i].status \notin {"Pending", "Blocked"} => tasks'[i] = tasks[i]
            /\ (tasks[i].run = r /\ tasks[i].status \in {"Pending", "Blocked"})
                  => tasks'[i].status = "Pending"
      /\ runs' = [runs EXCEPT ![r] = runs'[r]] /\ runs'[r].state \in {"Pending", "Running"}
  BY ResumedRows, TableGrows
<1>3. Lifecycle!SameWork(r)
  <2>1. RowsStay(r)
    BY <1>2 DEF RowsStay, NoRowAdded
  <2> QED BY <2>1, WorkStays
<1>4. Lifecycle!Resumes(r)
  <2>1. Phase(runs[r]) \in Lifecycle!Open /\ Phase(runs'[r]) = "Live"
    BY <1>1, <1>2, PhaseFacts DEF Phase
  <2>2. Lifecycle!Turns(r, {"Live"})
    BY <1>1, <2>1, TurnsTo
  <2> QED BY <1>3, <2>1, <2>2, Mapped DEF Lifecycle!Resumes
<1>5. \A x \in Run \ {r} : Lifecycle!Stays(x)
  <2>1. \A x \in Run \ {r} : runs'[x] = runs[x]
    BY <1>1, <1>2 DEF TypeOK
  <2>2. \A i \in (Len(tasks) + 1)..Len(tasks') : tasks'[i].run = r
    BY <1>2
  <2> QED BY <1>2, <2>1, <2>2, OthersStay
<1> QED BY <1>4, <1>5, OneRunMoves

\* A claim takes a job of a live run.
LEMMA ClaimMoves ==
    ASSUME IInv, [Next]_vars, NEW s \in Slot, Claim(s)
    PROVE  Lifecycle!Next
<1>1. TypeOK /\ IInv' /\ tasks \in Seq(Task) /\ Len(tasks) \in Nat /\ process \in Nat
  BY NextIInv, LenProperties DEF IInv, TypeOK
<1>2. PICK i \in 1..Len(tasks) :
          /\ Claimable(i) /\ tasks' = [tasks EXCEPT ![i] = Lease(@, process)]
          /\ runs' = [runs EXCEPT ![tasks[i].run] = [@ EXCEPT !.state = "Running"]]
  BY DEF Claim
<1> DEFINE r == tasks[i].run
<1>3. /\ tasks[i] \in Task /\ r \in Run /\ runs[r] \in RunRow
      /\ RunConsistent(runs[r], tasks, r)
      /\ tasks[i].status = "Pending" /\ runs[r].control = None /\ runs[r].state \notin Terminal
  BY <1>1, <1>2, RowTypes DEF Claimable, Task, TypeOK, IInv, RunsConsistent
<1>4. /\ Len(tasks') = Len(tasks) /\ Lease(tasks[i], process).status = "Leased"
      /\ \A j \in 1..Len(tasks) : tasks'[j] = IF j = i THEN Lease(tasks[i], process) ELSE tasks[j]
  <2>1. Lease(tasks[i], process) \in Task /\ Lease(tasks[i], process).status = "Leased"
    BY <1>1, <1>2, <1>3, RowUpdates DEF Claimable
  <2> QED BY <1>1, <1>2, <2>1, RowUpdate
<1>5. Has(tasks, r, Active) /\ Has(tasks, r, Status)
  BY <1>3 DEF Has, Active, Status
<1> HIDE DEF r
<1>6. runs[r].state \in {"Pending", "Running"}
  BY <1>3, <1>5 DEF RunConsistent, RunRow, State, Terminal, None
<1>7. Lifecycle!Turns(r, {"Live"})
  <2>1. runs'[r].state = "Running"
    BY <1>1, <1>2, <1>3 DEF TypeOK, RunRow, r
  <2> QED BY <1>1, <1>3, <2>1, TurnsTo DEF Phase
<1>8. /\ i \in Jobs(tasks, r, Status) \ (Jobs(tasks, r, {"Leased"}) \cup Jobs(tasks, r, {"Completed"}))
      /\ Jobs(tasks', r, {"Leased"}) = Jobs(tasks, r, {"Leased"}) \cup {i}
      /\ Jobs(tasks', r, {"Completed"}) = Jobs(tasks, r, {"Completed"})
  <2>1. /\ tasks[i].run = r /\ tasks'[i].run = r
        /\ \A j \in 1..Len(tasks) : tasks'[j].run = tasks[j].run
    BY <1>3, TableGrows DEF r
  <2> QED BY <1>3, <1>4, <2>1 DEF Jobs, Status
<1>9. Lifecycle!SameJobs(r)
  BY <1>3, <1>4, <1>1, JobsStay DEF NoRowAdded
<1>10. Lifecycle!Takes(r)
  BY <1>3, <1>6, <1>7, <1>8, <1>9, Mapped DEF Lifecycle!Takes, Phase
<1>11. \A x \in Run \ {r} : Lifecycle!Stays(x)
  <2>1. \A x \in Run \ {r} : runs'[x] = runs[x]
    BY <1>1, <1>2 DEF TypeOK, r
  <2>2. \A j \in (Len(tasks) + 1)..Len(tasks') : tasks'[j].run = r
    BY <1>1, <1>4
  <2>3. \A j \in 1..Len(tasks) : tasks[j].run # r => tasks'[j].status = tasks[j].status
    BY <1>4 DEF r
  <2> QED BY <2>1, <2>2, <2>3, OthersStay
<1> QED BY <1>10, <1>11, OneRunMoves

\* A completed job is finished, and what it hands on is given to the run.
LEMMA CompleteMoves ==
    ASSUME IInv, [Next]_vars, NEW s \in Slot, Complete(s)
    PROVE  Lifecycle!Next
<1>1. TypeOK /\ IInv' /\ Len(tasks) \in Nat
  BY NextIInv, LenProperties DEF IInv, TypeOK
<1>2. PICK i \in 1..Len(tasks) : \E next \in Checkpoints(tasks[i]) :
        LET r == tasks[i].run
            done == [tasks EXCEPT ![i] = CompleteTask(@)]
            reported == tasks[i].stage = "DiscoverBusinesses" /\ next = << >>
        IN  /\ Holds(s, i) /\ Owned(tasks[i])
            /\ tasks' = done \o Handed(runs[r], next)
            /\ runs' = [runs EXCEPT ![r] =
                   IF runs[r].control # "Cancel" /\ reported /\ ~Has(done, r, Active)
                   THEN Settle(@, Ends("Completed", "Search Exhausted"))
                   ELSE Reconcile(@, tasks', r)]
  BY DEF Complete
<1> DEFINE r == tasks[i].run
           settled == Settle(runs[r], Ends("Completed", "Search Exhausted"))
<1>3. PICK next \in Checkpoints(tasks[i]) :
        /\ Owned(tasks[i])
        /\ tasks' = [tasks EXCEPT ![i] = CompleteTask(@)] \o Handed(runs[r], next)
        /\ \/ runs[r].control # "Cancel" /\ runs' = [runs EXCEPT ![r] = settled]
           \/ runs' = [runs EXCEPT ![r] = Reconcile(runs[r], tasks', r)]
  BY <1>2
<1>4. CompletedTable(i, next)
  BY <1>1, <1>3, CompletionTable
<1>5. /\ tasks[i] \in Task /\ r \in Run /\ runs[r] \in RunRow /\ tasks[i].status = "Leased"
      /\ Reconcilable(runs[r], tasks, r) /\ runs[r].state \notin Terminal
  BY <1>3, HeldReconcilable DEF Owned
<1>6. Phase(runs[r]) \in Lifecycle!Open /\ Steered(runs[r])
  BY <1>5, PhaseFacts DEF Reconcilable, Steered
<1>7. /\ \A x \in Run \ {r} : runs'[x] = runs[x]
      /\ runs'[r] = Reconcile(runs[r], tasks', r)
         \/ (runs'[r] = settled /\ runs[r].control # "Cancel")
  <2> HIDE DEF r, settled
  <2> QED BY <1>1, <1>3, <1>5 DEF TypeOK
<1>8. Phase(runs'[r]) \in Ahead(Phase(runs[r]))
  <2>1. settled.state = "Completed"
    BY <1>5 DEF Settle, Ends, RunRow
  <2>2. runs[r].control # "Cancel" => Phase(runs[r]) # "Cancelling"
    BY <1>5, <1>6, PhaseFacts DEF Steered
  <2>3. Phase(Reconcile(runs[r], tasks', r)) \in Ahead(Phase(runs[r]))
    BY <1>5, <1>6, ReconcileAhead
  <2> HIDE DEF r, settled
  <2> QED BY <1>7, <2>1, <2>2, <2>3 DEF Phase, Ahead
<1> DEFINE handed == Handed(runs[r], next)
<1>9. /\ Len(tasks') = Len(tasks) + Len(handed) /\ Len(handed) \in Nat
      /\ \A j \in 1..Len(tasks) : tasks'[j] = IF j = i THEN CompleteTask(tasks[i]) ELSE tasks[j]
      /\ \A j \in (Len(tasks) + 1)..Len(tasks') :
            tasks'[j].run = r /\ tasks'[j].status = "Pending"
      /\ CompleteTask(tasks[i]).status = "Completed"
  <2>1. Len(handed) \in Nat
    BY <1>4, LenProperties DEF CompletedTable
  <2>2. CompleteTask(tasks[i]).status = "Completed"
    BY <1>5 DEF CompleteTask, Unlease, Task
  <2> QED BY <1>4, <2>1, <2>2 DEF CompletedTable
<1>10. /\ Jobs(tasks', r, {"Leased"}) = Jobs(tasks, r, {"Leased"}) \ {i}
       /\ Jobs(tasks', r, {"Completed"}) = Jobs(tasks, r, {"Completed"}) \cup {i}
       /\ Jobs(tasks, r, Status) \subseteq Jobs(tasks', r, Status)
       /\ i \in Jobs(tasks, r, {"Leased"})
  <2>1. i \in 1..Len(tasks) /\ tasks[i].run = r /\ tasks[i].status = "Leased"
    BY <1>5
  <2> HIDE DEF r, handed
  <2>2. \A j \in 1..Len(tasks') : j \in 1..Len(tasks) \/ tasks'[j].status = "Pending"
    BY <1>9, TableGrows
  <2> QED BY <1>9, <2>1, <2>2, TableGrows DEF Jobs
<1>11. Phase(runs[r]) = "Cancelling" => Lifecycle!SameJobs(r)
  <2>1. ASSUME Phase(runs[r]) = "Cancelling" PROVE NoRowAdded(r)
    <3>1. runs[r].control = "Cancel"
      BY <1>5, <1>6, <2>1, PhaseFacts DEF Steered
    <3>2. Len(handed) = 0
      BY <3>1, EmptySeq DEF Handed
    <3> HIDE DEF handed
    <3> QED BY <1>1, <1>9, <3>2 DEF NoRowAdded
  <2> QED BY <1>5, <2>1, JobsStay
<1> HIDE DEF r, handed
<1>12. Lifecycle!Finishes(r)
  <2>1. Lifecycle!GoesOn(r)
    BY <1>1, <1>5, <1>8, GoesAhead
  <2> QED BY <1>5, <1>6, <1>10, <1>11, <2>1, Mapped DEF Lifecycle!Finishes
<1>13. \A x \in Run \ {r} : Lifecycle!Stays(x)
  <2>1. \A j \in 1..Len(tasks) : tasks[j].run # r => tasks'[j].status = tasks[j].status
    BY <1>9 DEF r
  <2> QED BY <1>7, <1>9, <2>1, OthersStay
<1> QED BY <1>12, <1>13, OneRunMoves

\* A failed job is put down.
LEMMA FailMoves ==
    ASSUME IInv, [Next]_vars, NEW s \in Slot, Fail(s)
    PROVE  Lifecycle!Next
<1>1. TypeOK /\ IInv' /\ tasks \in Seq(Task) /\ Len(tasks) \in Nat
  BY NextIInv, LenProperties DEF IInv, TypeOK
<1>2. PICK i \in 1..Len(tasks), class \in Classification :
          /\ Owned(tasks[i]) /\ tasks' = [tasks EXCEPT ![i] = FailTask(@, class)]
          /\ runs' = [runs EXCEPT ![tasks[i].run] = Reconcile(@, tasks', tasks[i].run)]
  BY <1>1, FailureClasses DEF Fail
<1> DEFINE r == tasks[i].run
<1>3. /\ tasks[i] \in Task /\ r \in Run /\ runs[r] \in RunRow /\ tasks[i].status = "Leased"
      /\ Reconcilable(runs[r], tasks, r) /\ runs[r].state \notin Terminal
  BY <1>2, HeldReconcilable DEF Owned
<1>4. Phase(runs[r]) \in Lifecycle!Open /\ Steered(runs[r])
  BY <1>3, PhaseFacts DEF Reconcilable, Steered
<1>5. /\ FailTask(tasks[i], class) \in Task
      /\ FailTask(tasks[i], class).status \notin {"Leased", "Completed"}
  <2>1. FailTask(tasks[i], class) \in Task
    BY <1>2, <1>3, RowUpdates
  <2>2. FailTask(tasks[i], class).status = FailedStatus(tasks[i], class)
    BY <1>3 DEF FailTask, Unlease, Task
  <2> QED BY <2>1, <2>2 DEF FailedStatus
<1>6. /\ Len(tasks') = Len(tasks)
      /\ \A j \in 1..Len(tasks) : tasks'[j] = IF j = i THEN FailTask(tasks[i], class) ELSE tasks[j]
  BY <1>1, <1>2, <1>5, RowUpdate
<1>7. /\ \A x \in Run \ {r} : runs'[x] = runs[x]
      /\ runs'[r] = Reconcile(runs[r], tasks', r)
  <2>1. runs' = [runs EXCEPT ![r] = Reconcile(runs[r], tasks', r)]
    BY <1>2
  <2> HIDE DEF r
  <2> QED BY <1>1, <1>3, <2>1 DEF TypeOK
<1>8. Phase(runs'[r]) \in Ahead(Phase(runs[r]))
  BY <1>3, <1>4, <1>7, ReconcileAhead
<1> HIDE DEF r
<1>9. NoRowAdded(r) /\ \A j \in (Len(tasks) + 1)..Len(tasks') : tasks'[j].run = r
  BY <1>1, <1>6 DEF NoRowAdded
<1>10. \A j \in 1..Len(tasks) :
          /\ tasks'[j].status = "Leased" => tasks[j].status = "Leased"
          /\ tasks'[j].status = "Completed" <=> tasks[j].status = "Completed"
  BY <1>3, <1>5, <1>6
<1>11. Lifecycle!PutsDown(r)
  BY <1>3, <1>4, <1>8, <1>9, <1>10, JobsPutDown
<1>12. \A x \in Run \ {r} : Lifecycle!Stays(x)
  <2>1. \A j \in 1..Len(tasks) : tasks[j].run # r => tasks'[j].status = tasks[j].status
    BY <1>6 DEF r
  <2> QED BY <1>7, <1>9, <2>1, OthersStay
<1> QED BY <1>11, <1>12, OneRunMoves

\* Recovery puts abandoned jobs down, in every run at once.
LEMMA RecoveryMoves ==
    ASSUME IInv, [Next]_vars, StartCycle
    PROVE  Lifecycle!Next
<1>1. /\ TypeOK /\ IInv' /\ RunsConsistent' /\ tasks \in Seq(Task)
      /\ Len(tasks) \in Nat /\ Len(tasks') = Len(tasks)
  BY NextIInv, LenProperties, RecoveredRuns DEF IInv, TypeOK
<1>2. \A j \in 1..Len(tasks) :
          /\ tasks'[j].status = "Leased" => tasks[j].status = "Leased"
          /\ tasks'[j].status = "Completed" <=> tasks[j].status = "Completed"
  <2> TAKE j \in 1..Len(tasks)
  <2> DEFINE done == Recovered(tasks)
             u == RecoverTask(tasks[j])
  <2>1. tasks[j] \in Task /\ u \in Task /\ done[j] = u
    BY <1>1, RowTypes, RowUpdates, RecoveredRows
  <2>2. /\ u.status = "Leased" => tasks[j].status = "Leased"
        /\ u.status = "Completed" <=> tasks[j].status = "Completed"
    BY <2>1 DEF RecoverTask, Exhausted, Abandoned, Unlease, Task
  <2>3. \/ tasks'[j] = done[j]
        \/ tasks'[j] = CancelTask(done[j]) /\ done[j].status \in {"Pending", "Blocked"}
    BY DEF StartCycle, RecoveredTasks
  <2> HIDE DEF u, done
  <2>4. CancelTask(u).status = "Cancelled"
    BY <2>1 DEF CancelTask, Task
  <2> QED BY <2>1, <2>2, <2>3, <2>4
<1>3. ASSUME NEW r \in Run
      PROVE  Lifecycle!Stays(r) \/ Lifecycle!PutsDown(r)
  <2>1. /\ runs[r] \in RunRow /\ RunConsistent(runs[r], tasks, r) /\ RunConsistent(runs'[r], tasks', r)
        /\ runs'[r] = SettledBy(runs[r], tasks, tasks', r) /\ NoRowAdded(r)
    BY <1>1, RecoveredRuns DEF IInv, TypeOK, RunsConsistent, NoRowAdded
  <2>2. CASE Phase(runs[r]) \in Lifecycle!Open
    <3>1. Phase(runs'[r]) \in Ahead(Phase(runs[r]))
      BY <1>1, <2>1, <2>2, RecoveryAhead
    <3> QED BY <1>2, <2>1, <2>2, <3>1, JobsPutDown
  <2>3. CASE runs[r].state \in Terminal
    <3>1. runs'[r].state = runs[r].state /\ runs'[r].completion = runs[r].completion
      BY <1>1, <2>3, SettledStep
    <3>2. ~Has(tasks, r, {"Leased"}) /\ ~Has(tasks', r, {"Leased"})
      BY <2>1, <2>3, <3>1, HasFacts DEF RunConsistent, Terminal
    <3>3. RowsStay(r)
      BY <1>1, <1>2, <2>1, <3>2, TableGrows DEF RowsStay, Has
    <3> QED BY <3>1, <3>3, RunStays
  <2>4. CASE runs[r].state = "Absent"
    <3>1. \A i \in 1..Len(tasks) : tasks[i].run # r
      BY <2>1, <2>4, TableGrows DEF RunConsistent, Has
    <3>2. AfterExhaustion(runs[r], tasks, r) = runs[r]
      BY <2>4, <3>1 DEF AfterExhaustion, CorrectTarget
    <3>3. runs'[r] = runs[r]
      BY <2>1, <2>4, <3>2 DEF SettledBy, Stranded
    <3>4. RowsStay(r)
      BY <2>1, <3>1 DEF RowsStay
    <3> QED BY <3>3, <3>4, RunStays
  <2> QED BY <2>1, <2>2, <2>3, <2>4, PhaseFacts
<1> QED BY <1>3 DEF Lifecycle!Next

\* Every other step of the worker, the clock and a crash leaves each run as
\* it is: stage results, renewals and lost claims are not the user's concern.
LEMMA QuietMoves ==
    ASSUME IInv, [Next]_vars,
           \/ \E s \in Slot : \/ LeaveCycle(s) \/ ClaimError(s) \/ SettlementError(s)
                              \/ RenewLease(s)
                              \/ \E report \in SUBSET Business : RecordReport(s, report)
                              \/ \E carried \in SUBSET Business : CarryForward(s, carried)
                              \/ \E qualifies \in BOOLEAN : Score(s, qualifies)
           \/ Time \/ Crash \/ UNCHANGED vars
    PROVE  Lifecycle!Next
<1>1. /\ TypeOK /\ tasks \in Seq(Task) /\ Len(tasks) \in Nat
      /\ \A i \in 1..Len(tasks) : tasks[i] \in Task /\ tasks[i].run \in Run
                                  /\ runs[tasks[i].run] \in RunRow
  BY RowTypes DEF IInv, TypeOK, Task
<1>2. \/ tasks' = tasks
      \/ \E i \in 1..Len(tasks) :
            \/ tasks' = [tasks EXCEPT ![i] = StoreResult(@)]
            \/ \E b \in BOOLEAN : tasks' = [tasks EXCEPT ![i] = [@ EXCEPT !.expired = b]]
            \/ tasks' = [tasks EXCEPT ![i] = [@ EXCEPT !.due = TRUE]]
  BY DEF LeaveCycle, ClaimError, SettlementError, RenewLease, RecordReport, CarryForward, Score,
         Time, LeaseExpires, RetryDelayPasses, Crash, vars
<1>3. \/ runs' = runs
      \/ \E i \in 1..Len(tasks) :
            \/ \E found : runs' = [runs EXCEPT ![tasks[i].run] = Record(@, found)]
            \/ runs' = [runs EXCEPT ![tasks[i].run] = Qualify(@)]
  BY DEF LeaveCycle, ClaimError, SettlementError, RenewLease, RecordReport, CarryForward, Score,
         Time, LeaseExpires, RetryDelayPasses, Crash, vars
<1>4. \A t \in Task : /\ StoreResult(t).status = t.status
                      /\ \A b \in BOOLEAN : [t EXCEPT !.expired = b].status = t.status
                      /\ [t EXCEPT !.due = TRUE].status = t.status
  BY DEF StoreResult, Task
<1>5. Len(tasks') = Len(tasks) /\ \A j \in 1..Len(tasks) : tasks'[j].status = tasks[j].status
  <2>1. ASSUME NEW i \in 1..Len(tasks), NEW t, t.status = tasks[i].status,
               tasks' = [tasks EXCEPT ![i] = t]
        PROVE  Len(tasks') = Len(tasks) /\ \A j \in 1..Len(tasks) : tasks'[j].status = tasks[j].status
    BY <1>1, <2>1, LenProperties
  <2>2. ASSUME NEW i \in 1..Len(tasks)
        PROVE  /\ StoreResult(tasks[i]).status = tasks[i].status
               /\ \A b \in BOOLEAN : [tasks[i] EXCEPT !.expired = b].status = tasks[i].status
               /\ [tasks[i] EXCEPT !.due = TRUE].status = tasks[i].status
    BY <1>1, <1>4
  <2>3. CASE tasks' # tasks
    <3>1. \E i \in 1..Len(tasks) : \E t :
              t.status = tasks[i].status /\ tasks' = [tasks EXCEPT ![i] = t]
      BY <1>2, <2>2, <2>3, Zenon
    <3> QED BY <2>1, <3>1
  <2> QED BY <2>3
<1>6. \A run \in RunRow : /\ \A found : Record(run, found).state = run.state
                                        /\ Record(run, found).completion = run.completion
                          /\ Qualify(run).state = run.state
                          /\ Qualify(run).completion = run.completion
  BY DEF Record, Qualify, RunRow
<1>7. \A r \in Run : runs'[r].state = runs[r].state /\ runs'[r].completion = runs[r].completion
  <2>1. ASSUME NEW x \in Run, NEW run, run.state = runs[x].state,
               run.completion = runs[x].completion, runs' = [runs EXCEPT ![x] = run]
        PROVE  \A r \in Run : runs'[r].state = runs[r].state /\ runs'[r].completion = runs[r].completion
    BY <1>1, <2>1 DEF TypeOK
  <2> QED BY <1>1, <1>3, <1>6, <2>1
<1>8. ASSUME NEW r \in Run PROVE Lifecycle!Stays(r)
  <2>1. RowsStay(r)
    BY <1>1, <1>5 DEF RowsStay, NoRowAdded
  <2> QED BY <1>7, <2>1, RunStays
<1> QED BY <1>8 DEF Lifecycle!Next

\* Every step is one the lifecycle allows.
LEMMA NextMoves == IInv /\ [Next]_vars => Lifecycle!Next
<1> SUFFICES ASSUME IInv, [Next]_vars PROVE Lifecycle!Next
  OBVIOUS
<1>1. CASE Web
  BY <1>1, CreateRunMoves, ControlsMove, ResumeMoves DEF Web
<1>2. CASE Worker
  BY <1>2, RecoveryMoves, ClaimMoves, CompleteMoves, FailMoves, QuietMoves
     DEF Worker, Seek, Finish
<1>3. CASE Time \/ Crash \/ UNCHANGED vars
  BY <1>3, QuietMoves
<1> QED BY <1>1, <1>2, <1>3 DEF Next

\* No run is there before it is created.
LEMMA InitMoves == Init => Lifecycle!Init
<1> SUFFICES ASSUME Init PROVE Lifecycle!Init
  OBVIOUS
<1> DEFINE row == AbsentRun(CHOOSE x \in Runtime : TRUE)
<1>1. row.state = "Absent"
  BY DEF AbsentRun
<1>2. \A r \in Run : runs[r] = row
  BY DEF Init
<1> HIDE DEF row
<1>3. \A r \in Run : Phase(runs[r]) = "Absent" /\ runs[r].state \notin Terminal
  BY <1>1, <1>2 DEF Phase, Terminal
<1>4. \A r, statuses : Jobs(tasks, r, statuses) = {}
  BY EmptySeq DEF Init, Jobs
<1>5. /\ Phases = [r \in Run |-> "Absent"]
      /\ Outcomes = [r \in Run |-> "None"]
  BY <1>3 DEF Phases, Outcomes, None
<1>6. /\ AllJobs = [r \in Run |-> {}] /\ BusyJobs = [r \in Run |-> {}]
      /\ FinishedJobs = [r \in Run |-> {}]
  BY <1>4 DEF AllJobs, BusyJobs, FinishedJobs
<1> QED BY <1>5, <1>6 DEF Lifecycle!Init

\* The task and run rows implement the run its user was promised: whatever
\* order the worker's claims, settlements, retries and recoveries, a crash
\* and the user's controls commit in, each run is opened once, takes a job
\* only while it is live, waits exactly for the jobs in hand when asked to
\* stop, keeps every finished job, is given further ones only by a finished
\* one and not once cancelled, and ends once, for good.
THEOREM RunIsWhatWasPromised == Spec => ImplementsLifecycle
<1>1. Init => Lifecycle!Init
  BY InitMoves
<1>2. IInv /\ [Next]_vars => [Lifecycle!Next]_(Lifecycle!vars)
  BY NextMoves
<1> QED BY <1>1, <1>2, InductiveInvariant, PTL DEF Spec, ImplementsLifecycle, Lifecycle!Spec
=============================================================================
