---------------------------- MODULE RunExecution ----------------------------
(***************************************************************************)
(* Run execution: the background worker claims durable tasks, executes     *)
(* their stage and settles them, while the web process creates runs and    *)
(* pauses, resumes and cancels them.  Both only meet in the task and run   *)
(* rows of RunStore.                                                       *)
(*                                                                         *)
(* One worker process is alive at a time (ADR 0001, and the workspace      *)
(* operation lease each cycle holds); it may be killed at any step and     *)
(* started again, under a new owner name.  A cycle recovers abandoned work *)
(* once and then runs `concurrency' slots; a slot that finds nothing to    *)
(* claim leaves the cycle, and the next cycle starts when all have left.   *)
(*                                                                         *)
(* Wall-clock time is abstracted to two facts about a row: whether its     *)
(* lease has run out and whether its retry delay has passed.               *)
(***************************************************************************)
EXTENDS RunStore

CONSTANTS
    Slot,        \* the concurrent slots of a worker cycle
    MaxCrashes,  \* bound: worker processes killed
    MaxErrors    \* bound: SQLite errors the worker meets outside a stage

ASSUME ExecutionAssumption == MaxCrashes \in Nat /\ MaxErrors \in Nat

VARIABLES
    runs,        \* prospecting_runs, with the metrics and discoveries of each
    tasks,       \* run_tasks, in creation order
    slots,       \* what each slot of the worker's cycle is doing
    process,     \* which worker process is alive: its lease_owner
    errors       \* SQLite errors met so far

vars == <<runs, tasks, slots, process, errors>>

SlotState == [phase : {"Idle", "Seeking", "Working"}, task : Nat]
Idle == [phase |-> "Idle", task |-> 0]
Seeking == [phase |-> "Seeking", task |-> 0]
Working(i) == [phase |-> "Working", task |-> i]

AbsentRun(runtime) ==
    [state |-> "Absent", control |-> None, completion |-> None, reassess |-> FALSE,
     runtime |-> runtime, found |-> {}, qualified |-> 0]

Init ==
    /\ runs = [r \in Run |-> AbsentRun(CHOOSE x \in Runtime : TRUE)]
    /\ tasks = << >>
    /\ slots = [s \in Slot |-> Idle]
    /\ process = 1
    /\ errors = 0

-----------------------------------------------------------------------------
(* The web process.                                                        *)

\* A confirmed brief becomes a Pending run; triggers add its planning task.
CreateRun(r, reassess, runtime) ==
    /\ runs[r].state = "Absent"
    /\ runs' = [runs EXCEPT ![r] = [@ EXCEPT !.state = "Pending", !.reassess = reassess,
                                             !.runtime = runtime]]
    /\ tasks' = Append(tasks, NewTask(r, None, "RunPlanning", runtime))
    /\ UNCHANGED <<slots, process, errors>>

\* Faulty: a control that only looks for the run.
ControllableIfPresent(r) == runs[r].state # "Absent"

\* requestControl refuses a run that is not there or already settled.
Controllable(r) == runs[r].state \notin Terminal \cup {"Absent"}

\* Faulty: a pause that leaves settling to a worker that may have nothing.
PauseAwaitingWorker(r) ==
    /\ Controllable(r)
    /\ runs' = [runs EXCEPT ![r] =
           [@ EXCEPT !.control = "Pause", !.state = "Pausing", !.completion = None]]
    /\ UNCHANGED <<tasks, slots, process, errors>>

Pause(r) ==
    LET leased == Has(tasks, r, {"Leased"})
    IN  /\ Controllable(r)
        /\ runs' = [runs EXCEPT ![r] =
               [@ EXCEPT !.control = "Pause",
                         !.state = IF leased THEN "Pausing" ELSE "Paused",
                         !.completion = IF leased THEN None ELSE "Paused"]]
        /\ UNCHANGED <<tasks, slots, process, errors>>

\* Resuming with another runtime rewrites the brief, and the copy of it in
\* the discovery task if that is not running.
ChangeRuntime(t, r, runtime) ==
    IF /\ t.run = r /\ t.stage = "DiscoverBusinesses"
       /\ t.status \in {"Pending", "Blocked"} /\ runs[r].runtime # runtime
    THEN [t EXCEPT !.runtime = runtime]
    ELSE t

Unblock(t, r) ==
    IF t.run = r /\ t.status = "Blocked" THEN UnblockTask(t) ELSE t

Resumed(run, ts, r) ==
    IF Has(ts, r, Active)
    THEN [run EXCEPT !.control = None, !.completion = None,
                     !.state = IF Has(ts, r, {"Leased"}) THEN "Running" ELSE "Pending"]
    ELSE Reconcile([run EXCEPT !.control = None], ts, r)

Resume(r, runtime) ==
    /\ Controllable(r)
    /\ tasks' = [i \in 1..Len(tasks) |-> Unblock(ChangeRuntime(tasks[i], r, runtime), r)]
    /\ runs' = [runs EXCEPT ![r] =
                    Resumed([runs[r] EXCEPT !.runtime = runtime], tasks', r)]
    /\ UNCHANGED <<slots, process, errors>>

Cancel(r) ==
    LET leased == Has(tasks, r, {"Leased"})
    IN  /\ Controllable(r)
        /\ tasks' = [i \in 1..Len(tasks) |->
                        IF tasks[i].run = r /\ tasks[i].status \in {"Pending", "Blocked"}
                        THEN CancelTask(tasks[i]) ELSE tasks[i]]
        /\ runs' = [runs EXCEPT ![r] =
               [@ EXCEPT !.control = "Cancel",
                         !.state = IF leased THEN "Cancelling" ELSE "Cancelled",
                         !.completion = IF leased THEN None
                                        ELSE "Cancelled with Partial Results"]]
        /\ UNCHANGED <<slots, process, errors>>

-----------------------------------------------------------------------------
(* The worker: the cycle and its claims.                                   *)

\* Faulty: recovery whenever a slot is free, beside the others at work.
StartCycleBeside ==
    /\ \E s \in Slot : slots[s] = Idle
    /\ slots' = [s \in Slot |-> IF slots[s] = Idle THEN Seeking ELSE slots[s]]
    /\ tasks' = RecoveredTasks(runs, tasks)
    /\ runs' = [r \in Run |-> RecoveredRun(runs[r], tasks, tasks', r)]
    /\ UNCHANGED <<process, errors>>

\* A cycle begins by recovering abandoned work, then opens every slot.
StartCycle ==
    /\ \A s \in Slot : slots[s] = Idle
    /\ slots' = [s \in Slot |-> Seeking]
    /\ tasks' = RecoveredTasks(runs, tasks)
    /\ runs' = [r \in Run |-> RecoveredRun(runs[r], tasks, tasks', r)]
    /\ UNCHANGED <<process, errors>>

\* Faulty: a claim that does not count attempts.
ClaimableUncounted(i) ==
    LET t == tasks[i]
    IN  /\ t.status = "Pending" /\ t.due
        /\ runs[t.run].control = None
        /\ runs[t.run].state \notin Terminal

Claimable(i) ==
    LET t == tasks[i]
    IN  /\ t.status = "Pending" /\ t.attempts < MaxAttempts /\ t.due
        /\ runs[t.run].control = None
        /\ runs[t.run].state \notin Terminal

\* The oldest claimable task, and its run is Running again.
Claim(s) ==
    /\ slots[s] = Seeking
    /\ \E i \in 1..Len(tasks) :
        /\ Claimable(i)
        /\ \A j \in 1..(i - 1) : ~Claimable(j)
        /\ tasks' = [tasks EXCEPT ![i] = Lease(@, process)]
        /\ runs' = [runs EXCEPT ![tasks[i].run] = [@ EXCEPT !.state = "Running"]]
        /\ slots' = [slots EXCEPT ![s] = Working(i)]
    /\ UNCHANGED <<process, errors>>

\* Nothing to claim: the slot's loop returns, for the rest of the cycle.
LeaveCycle(s) ==
    /\ slots[s] = Seeking
    /\ ~\E i \in 1..Len(tasks) : Claimable(i)
    /\ slots' = [slots EXCEPT ![s] = Idle]
    /\ UNCHANGED <<runs, tasks, process, errors>>

\* A claim query that fails ends the cycle: forEach interrupts every other
\* slot where it stands, and the tasks they hold stay Leased.
ClaimError(s) ==
    /\ slots[s] = Seeking
    /\ errors < MaxErrors
    /\ errors' = errors + 1
    /\ slots' = [x \in Slot |-> Idle]
    /\ UNCHANGED <<runs, tasks, process>>

-----------------------------------------------------------------------------
(* The worker: stage results, stored before the task is settled.           *)

Holds(s, i) == slots[s] = Working(i)
Held(i) == \E s \in Slot : Holds(s, i)

\* The new businesses of one verified report are recorded in one transaction,
\* and no further report is asked for once the run has found its target.
RecordReport(s, report) ==
    /\ \E i \in 1..Len(tasks) :
        /\ Holds(s, i) /\ tasks[i].stage = "DiscoverBusinesses"
        /\ Cardinality(runs[tasks[i].run].found) < Target
        /\ ~(report \subseteq runs[tasks[i].run].found)
        /\ runs' = [runs EXCEPT ![tasks[i].run] = Record(@, report)]
    /\ UNCHANGED <<tasks, slots, process, errors>>

\* The named businesses are carried into the run in one transaction.  The
\* insert has no conflict clause: once they are there it can only fail.
CarryForward(s, carried) ==
    /\ \E i \in 1..Len(tasks) :
        /\ Holds(s, i) /\ tasks[i].stage = "SeedReassessment"
        /\ runs[tasks[i].run].found = {} /\ carried # {}
        /\ runs' = [runs EXCEPT ![tasks[i].run] = Record(@, carried)]
        /\ tasks' = [tasks EXCEPT ![i] = StoreResult(@)]
    /\ UNCHANGED <<slots, process, errors>>

\* A score is stored once per task, whichever attempt stores it.  (A user
\* who suppresses a scored candidate meanwhile lowers a later recount; that
\* belongs to the review queue and is not modelled here.)
Score(s, qualifies) ==
    /\ \E i \in 1..Len(tasks) :
        /\ Holds(s, i) /\ tasks[i].stage = "ScoreCandidate"
        /\ tasks[i].wrote = 0
        /\ tasks' = [tasks EXCEPT ![i] = StoreResult(@)]
        /\ runs' = IF qualifies
                   THEN [runs EXCEPT ![tasks[i].run] = Qualify(@)]
                   ELSE runs
    /\ UNCHANGED <<slots, process, errors>>

-----------------------------------------------------------------------------
(* The worker: settlement.                                                 *)

\* Every order in which one insert loop may add the businesses in S.
Orderings(S) ==
    {q \in [1..Cardinality(S) -> S] : \A b \in S : \E k \in DOMAIN q : q[k] = b}

BusinessTasks(r, order) ==
    [k \in 1..Len(order) |-> NewTask(r, order[k], FirstStage, None)]

\* The nextTasks a successful execution of t may return, by stage.  Planning
\* hands its own copy of the brief on; it does not read the run again.
PlanCheckpoints(t) ==
    LET stage == IF runs[t.run].reassess THEN "SeedReassessment" ELSE "DiscoverBusinesses"
    IN  {<<NewTask(t.run, None, stage, t.runtime)>>}

\* Only the attempt that carried the businesses itself can hand them on.
SeedCheckpoints(t) ==
    IF t.wrote = t.attempts
    THEN {BusinessTasks(t.run, q) : q \in Orderings(runs[t.run].found)} ELSE {}

\* Faulty: two reports that name a business both open its first task.
DiscoverCheckpointsTwice(t) == {BusinessTasks(t.run, q) \o BusinessTasks(t.run, q) : q \in Orderings(runs[t.run].found)}

\* Discovery hands on whatever the run has found, earlier attempts included.
DiscoverCheckpoints(t) == {BusinessTasks(t.run, q) : q \in Orderings(runs[t.run].found)}

BusinessCheckpoints(t) ==
    {IF n = Done THEN << >> ELSE <<NewTask(t.run, t.business, n, None)>> :
        n \in Successors[t.stage]}

Checkpoints(t) ==
    CASE t.stage = "RunPlanning"        -> PlanCheckpoints(t)
      [] t.stage = "SeedReassessment"   -> SeedCheckpoints(t)
      [] t.stage = "DiscoverBusinesses" -> DiscoverCheckpoints(t)
      [] t.stage = "ScoreCandidate"     -> IF t.wrote = 0 THEN {} ELSE {<< >>}
      [] OTHER                          -> BusinessCheckpoints(t)

\* The classifications its execution may fail with.  Planning, seeding and
\* scoring run without waiting, so no lease renewal can fail beside them.
SeedFailures(t) ==
    IF t.wrote = t.attempts THEN {}
    ELSE IF runs[t.run].found = {} THEN {"Permanent", "Infrastructure"}
    ELSE {"Infrastructure"}

Failures(t) ==
    CASE t.stage = "RunPlanning"        -> {}
      [] t.stage = "SeedReassessment"   -> SeedFailures(t)
      [] t.stage = "DiscoverBusinesses" -> Classification
      [] t.stage = "ScoreCandidate"     ->
             IF t.wrote = t.attempts THEN {} ELSE StageFailures[t.stage]
      [] OTHER                          -> StageFailures[t.stage]

Owned(t) == t.status = "Leased" /\ t.owner = process

\* Faulty: a cancelled run still opens the next stage.
HandedRegardless(run, next) == next

\* A cancelled run opens no next task.
Handed(run, next) == IF run.control = "Cancel" THEN << >> ELSE next

\* The checkpoint, its next tasks and the run's new state are one commit.
Complete(s) ==
    /\ \E i \in 1..Len(tasks) : \E next \in Checkpoints(tasks[i]) :
        LET r == tasks[i].run
            done == [tasks EXCEPT ![i] = CompleteTask(@)]
            reported == tasks[i].stage = "DiscoverBusinesses" /\ next = << >>
        IN  /\ Holds(s, i) /\ Owned(tasks[i])
            /\ tasks' = done \o Handed(runs[r], next)
            /\ runs' = [runs EXCEPT ![r] =
                   IF runs[r].control # "Cancel" /\ reported /\ ~Has(done, r, Active)
                   THEN Settle(@, Ends("Completed", "Search Exhausted"))
                   ELSE Reconcile(@, tasks', r)]
    /\ slots' = [slots EXCEPT ![s] = Seeking]
    /\ UNCHANGED <<process, errors>>

Fail(s) ==
    /\ \E i \in 1..Len(tasks) : \E class \in Failures(tasks[i]) :
        /\ Holds(s, i) /\ Owned(tasks[i])
        /\ tasks' = [tasks EXCEPT ![i] = FailTask(@, class)]
        /\ runs' = [runs EXCEPT ![tasks[i].run] = Reconcile(@, tasks', tasks[i].run)]
    /\ slots' = [slots EXCEPT ![s] = Seeking]
    /\ UNCHANGED <<process, errors>>

\* The settling transaction fails: the slot logs it and moves on.
SettlementError(s) ==
    /\ \E i \in 1..Len(tasks) : Holds(s, i)
    /\ errors < MaxErrors
    /\ errors' = errors + 1
    /\ slots' = [slots EXCEPT ![s] = Seeking]
    /\ UNCHANGED <<runs, tasks, process>>

\* Renewal asks only for the owner's name, so it revives an expired lease.
RenewLease(s) ==
    /\ \E i \in 1..Len(tasks) :
        /\ Holds(s, i) /\ Owned(tasks[i]) /\ tasks[i].expired
        /\ tasks' = [tasks EXCEPT ![i] = [@ EXCEPT !.expired = FALSE]]
    /\ UNCHANGED <<runs, slots, process, errors>>

-----------------------------------------------------------------------------
(* Time and crashes.                                                       *)

LeaseExpires(i) ==
    /\ tasks[i].status = "Leased" /\ ~tasks[i].expired
    /\ tasks' = [tasks EXCEPT ![i] = [@ EXCEPT !.expired = TRUE]]
    /\ UNCHANGED <<runs, slots, process, errors>>

RetryDelayPasses(i) ==
    /\ ~tasks[i].due
    /\ tasks' = [tasks EXCEPT ![i] = [@ EXCEPT !.due = TRUE]]
    /\ UNCHANGED <<runs, slots, process, errors>>

\* Only the database survives the process; its successor has another name.
Crash ==
    /\ process <= MaxCrashes
    /\ process' = process + 1
    /\ slots' = [s \in Slot |-> Idle]
    /\ UNCHANGED <<runs, tasks, errors>>

-----------------------------------------------------------------------------
Web == \E r \in Run :
    \/ \E reassess \in BOOLEAN, runtime \in Runtime : CreateRun(r, reassess, runtime)
    \/ Pause(r)
    \/ \E runtime \in Runtime : Resume(r, runtime)
    \/ Cancel(r)

Seek(s) == Claim(s) \/ LeaveCycle(s)
Finish(s) == Complete(s) \/ Fail(s)

Worker == StartCycle \/ \E s \in Slot :
    \/ Seek(s)
    \/ ClaimError(s)
    \/ \E report \in SUBSET Business : RecordReport(s, report)
    \/ \E carried \in SUBSET Business : CarryForward(s, carried)
    \/ \E qualifies \in BOOLEAN : Score(s, qualifies)
    \/ Finish(s)
    \/ SettlementError(s)
    \/ RenewLease(s)

Time == \E i \in 1..Len(tasks) : LeaseExpires(i) \/ RetryDelayPasses(i)

Next == Web \/ Worker \/ Time \/ Crash

Spec == Init /\ [][Next]_vars

\* The worker loop runs forever; every stage execution is bounded by the
\* timeouts of its runtime or browser; the clock moves on.  Nothing is
\* assumed of the user, of crashes or of errors.
Fairness ==
    /\ WF_vars(StartCycle)
    /\ \A s \in Slot : WF_vars(Seek(s)) /\ WF_vars(Finish(s))
    /\ WF_vars(\E i \in 1..Len(tasks) : ~Held(i) /\ LeaseExpires(i))
    /\ WF_vars(\E i \in 1..Len(tasks) : RetryDelayPasses(i))

LiveSpec == Spec /\ Fairness
-----------------------------------------------------------------------------
(* Safety.                                                                 *)

\* Every row and slot has the columns and values its table and type allow.
TypeOK ==
    /\ runs \in [Run -> RunRow]
    /\ tasks \in Seq(Task)
    /\ slots \in [Slot -> SlotState]
    /\ process \in Nat
    /\ errors \in Nat

\* No task is executed by two slots, and a slot that is still executing one
\* owns its lease: a settlement is never refused with "lease ownership lost",
\* whatever expires, is recovered or crashes meanwhile.
ExclusiveExecution ==
    \A s \in Slot : slots[s].phase = "Working" =>
        /\ slots[s].task \in 1..Len(tasks)
        /\ Owned(tasks[slots[s].task])
        /\ \A x \in Slot : slots[x] = slots[s] => x = s

Leased(r) == Has(tasks, r, {"Leased"})

\* A run in Pending or Running can always make progress: it has a task to
\* claim or to settle, nobody asked it to stop, and no outcome is recorded.
LiveRunHasWork ==
    \A r \in Run : runs[r].state \in {"Pending", "Running"} =>
        Has(tasks, r, Active) /\ runs[r].control = None /\ runs[r].completion = None

\* A run that is still stopping waits for a task that is really leased, and
\* its state agrees with the control asked for last (the recovery sweep
\* exists because runs were once found waiting for nobody).
StoppingRunHasLease ==
    \A r \in Run :
        /\ runs[r].state = "Pausing" => Leased(r) /\ runs[r].control = "Pause"
        /\ runs[r].state = "Cancelling" => Leased(r) /\ runs[r].control = "Cancel"

\* A paused run executes nothing and holds something to resume: a pause that
\* meets the last settlement never leaves a taskless paused run.
PausedRunCanResume ==
    \A r \in Run : runs[r].state = "Paused" =>
        /\ ~Leased(r)
        /\ Has(tasks, r, {"Pending", "Blocked"})
        /\ runs[r].completion \in {"Paused", "Runtime Unavailable"}

\* A settled run executes nothing; one that completed has nothing left to
\* claim either, so recovery never has a run to reopen.
SettledRunIsQuiet ==
    \A r \in Run :
        /\ runs[r].state = "Completed" => ~Has(tasks, r, Active)
        /\ runs[r].state = "Cancelled" => ~Leased(r)

\* Each state of a run is honest: what it promises the user, its tasks keep.
StatesAreHonest ==
    LiveRunHasWork /\ StoppingRunHasLease /\ PausedRunCanResume /\ SettledRunIsQuiet

\* A clean outcome is earned: every task of the run completed, and the
\* target is reported as reached exactly when it was.
CleanOutcomeIsEarned ==
    \A r \in Run : runs[r].completion \in CleanOutcome =>
        /\ \A i \in 1..Len(tasks) : tasks[i].run = r => tasks[i].status = "Completed"
        /\ runs[r].completion = "Target Reached" => runs[r].qualified >= Target
        /\ runs[r].completion = "Search Exhausted" => runs[r].qualified < Target

\* A business failure is isolated: a run is Infrastructure Failed only when
\* it failed before any business had a task of its own.
BusinessFailureIsIsolated ==
    \A r \in Run : runs[r].completion = "Infrastructure Failed" =>
        \A i \in 1..Len(tasks) : tasks[i].run = r => tasks[i].business = None

\* The hand-over between stages neither forks nor overlaps: a run has at
\* most one unfinished task per business, and business tasks exist only
\* once the run-level stages are over.
OneStageAtATime ==
    \A i, j \in 1..Len(tasks) :
        (i < j /\ tasks[i].run = tasks[j].run /\ tasks[i].business \in {None, tasks[j].business})
            => tasks[i].status = "Completed"

\* What each state of a run says of its control, its outcome and its tasks;
\* with the two invariants above, inductive.
RunConsistent(run, ts, r) ==
    /\ run.state = "Absent" =>
           run.control = None /\ run.completion = None /\ ~Has(ts, r, Status)
    /\ run.state \in {"Pending", "Running"} =>
           run.control = None /\ run.completion = None /\ Has(ts, r, Active)
    /\ run.state = "Pausing" => run.control = "Pause" /\ Has(ts, r, {"Leased"})
    /\ run.state = "Cancelling" => run.control = "Cancel" /\ Has(ts, r, {"Leased"})
    /\ run.state = "Paused" =>
           /\ run.control = "Pause" \/ (run.control = None /\ ~Has(ts, r, Active))
           /\ run.completion \in {"Paused", "Runtime Unavailable"}
           /\ ~Has(ts, r, {"Leased"}) /\ Has(ts, r, {"Pending", "Blocked"})
    /\ run.state = "Completed" =>
           /\ run.control = None /\ ~Has(ts, r, Active)
           /\ run.completion \in Verdict
           /\ run.completion = "Target Reached" => TargetRemaining(run) = 0
    /\ run.state = "Cancelled" =>
           /\ run.control = "Cancel" \/ (run.control = None /\ ~Has(ts, r, Active))
           /\ run.completion = "Cancelled with Partial Results"
           /\ ~Has(ts, r, {"Leased"})

RunsConsistent == \A r \in Run : RunConsistent(runs[r], tasks, r)

IInv == TypeOK /\ ExclusiveExecution /\ RunsConsistent

\* The order of a run's rows: run-level stages before any business, each
\* handing on only when it is over.
StagesInOrder ==
    /\ OneStageAtATime
    /\ \A i \in 1..Len(tasks) : tasks[i].business = None <=> tasks[i].stage \in RunStage
    /\ \A i, j \in 1..Len(tasks) :
        (i < j /\ tasks[i].run = tasks[j].run /\ tasks[j].business = None)
            => tasks[i].business = None

\* What a recorded outcome goes on saying of the run's rows and metrics.
OutcomeHolds(run, ts, r) ==
    /\ run.completion \in CleanOutcome \cup {"Infrastructure Failed"} => run.state = "Completed"
    /\ run.completion \in CleanOutcome => ~Has(ts, r, Status \ {"Completed"})
    /\ run.completion = "Target Reached" => run.qualified >= Target
    /\ run.completion = "Search Exhausted" => run.qualified < Target
    /\ run.completion = "Infrastructure Failed" => InfrastructureFailed(ts, r)

\* A candidate is qualified by a business task.
QualifiedByBusiness(run, ts, r) ==
    run.qualified > 0 => \E i \in 1..Len(ts) : ts[i].run = r /\ ts[i].business # None

OutcomesHold ==
    \A r \in Run : OutcomeHolds(runs[r], tasks, r) /\ QualifiedByBusiness(runs[r], tasks, r)

\* Inductive beside IInv; the outcome invariants follow from it.
OutcomeInv == StagesInOrder /\ OutcomesHold

-----------------------------------------------------------------------------
(* Action properties.                                                      *)

\* Completed and Cancelled are final, outcome included: no control, late
\* settlement or recovery sweep changes a settled run.
SettledRunIsFinal ==
    [][\A r \in Run : runs[r].state \in Terminal =>
           runs'[r].state = runs[r].state /\ runs'[r].completion = runs[r].completion]_vars

\* Interruptions lose no finished work: a completed checkpoint stays
\* completed, and no attempt is given back, so no task can be retried forever.
CheckpointsAreKept ==
    [][\A i \in 1..Len(tasks) :
           /\ tasks[i].status = "Completed" => tasks'[i].status = "Completed"
           /\ tasks'[i].attempts >= tasks[i].attempts]_vars

\* Once cancellation is asked for and until the user takes it back, the run
\* neither starts a task nor opens new work.
CancelStopsNewWork ==
    [][\A r \in Run : (runs[r].control = "Cancel" /\ runs'[r].control = "Cancel") =>
           \A i \in 1..Len(tasks') : tasks'[i].run = r =>
               /\ i <= Len(tasks)
               /\ tasks'[i].status = "Leased" => tasks[i].status = "Leased"]_vars

-----------------------------------------------------------------------------
(* What a run promises its user.                                           *)

\* To its user a run that waits for its next claim is as live as one at work.
Phase(run) == IF run.state \in {"Pending", "Running"} THEN "Live" ELSE run.state
Jobs(ts, r, statuses) == {i \in 1..Len(ts) : ts[i].run = r /\ ts[i].status \in statuses}

Phases == [r \in Run |-> Phase(runs[r])]
Outcomes == [r \in Run |->
    IF runs[r].state \in Terminal THEN runs[r].completion ELSE None]
AllJobs == [r \in Run |-> Jobs(tasks, r, Status)]
BusyJobs == [r \in Run |-> Jobs(tasks, r, {"Leased"})]
FinishedJobs == [r \in Run |-> Jobs(tasks, r, {"Completed"})]

Lifecycle == INSTANCE RunLifecycle
    WITH phase <- Phases, outcome <- Outcomes,
         jobs <- AllJobs, busy <- BusyJobs, finished <- FinishedJobs

\* Controls, settlements and recoveries of the task and run rows, in whatever
\* order they commit, are steps of the run its user was promised.
ImplementsLifecycle == Lifecycle!Spec

-----------------------------------------------------------------------------
(* Liveness, under LiveSpec.                                               *)

\* A run that nobody stops settles, or pauses because a runtime is missing.
RunsSettle ==
    \A r \in Run : runs[r].state \in {"Pending", "Running"} ~>
        (runs[r].state \in Terminal \cup {"Paused"} \/ runs[r].control # None)

\* A run asked to cancel becomes Cancelled, unless the user changes the
\* control first; likewise a pausing run does not wait forever.
CancelIsHonoured ==
    \A r \in Run : runs[r].control = "Cancel" ~>
        (runs[r].state = "Cancelled" \/ runs[r].control # "Cancel")
PauseIsHonoured ==
    \A r \in Run : runs[r].state = "Pausing" ~> runs[r].state # "Pausing"
ControlsAreHonoured == CancelIsHonoured /\ PauseIsHonoured

-----------------------------------------------------------------------------
(* What the documents claim and the code does not do: a run finds it       *)
(* violated.                                                               *)

\* "Pause, resume, cancel, or recover work without losing checkpoints"
\* (Product.md; ADR 0003 says the same of a missing runtime): what a missing
\* runtime blocked can run again once the user resumes.
ResumedWorkIsClaimable ==
    \A i \in 1..Len(tasks) : tasks[i].status = "Pending" => tasks[i].attempts < MaxAttempts
=============================================================================
