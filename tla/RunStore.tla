------------------------------ MODULE RunStore ------------------------------
(***************************************************************************)
(* The rows the worker and the web process share in SQLite: one row per    *)
(* Prospecting Run and one per durable task, and the pure part of the      *)
(* transactions over them.  Every transaction of the repository runs under *)
(* SQLite's single writer, so each is one operator here and one step of    *)
(* RunExecution.                                                           *)
(*                                                                         *)
(* A definition whose comment starts with "Faulty" is never used by Next:  *)
(* it is the definition after it with a plausible mistake, kept to show    *)
(* that the properties notice the mistake.                                 *)
(*                                                                         *)
(* `tasks' is a sequence in creation order, the order the claim query      *)
(* sorts by.  Rows hold the columns a decision reads.                      *)
(***************************************************************************)
EXTENDS Naturals, Sequences, FiniteSets

CONSTANTS
    Run,            \* identifiers of Prospecting Runs
    Business,       \* businesses the outside world may offer to discovery
    Runtime,        \* subscription runtimes
    Target,         \* targetCount of every Search Brief
    MaxAttempts,    \* max_attempts of every task row (3 in the code)
    BusinessStage,  \* stages of the per-business chain
    FirstStage,     \* the stage discovery opens for each business
    Successors,     \* stage -> what its executor may put in nextTasks
    StageFailures   \* stage -> classifications its executor may raise

None == "None"      \* SQL null; also the idle value of requested_control
Done == "Done"      \* in Successors: the executor returns no next task
RunStage == {"RunPlanning", "SeedReassessment", "DiscoverBusinesses"}
Classification == {"Transient", "Permanent", "Blocked", "Infrastructure"}

ASSUME StoreAssumption ==
    /\ MaxAttempts \in Nat \ {0}
    /\ Target \in Nat \ {0}
    /\ Runtime # {}
    /\ IsFiniteSet(Business) /\ None \notin Business
    /\ BusinessStage \cap RunStage = {} /\ Done \notin BusinessStage
    /\ FirstStage \in BusinessStage
    /\ Successors \in [BusinessStage -> SUBSET (BusinessStage \cup {Done})]
    /\ StageFailures \in [BusinessStage -> SUBSET Classification]

-----------------------------------------------------------------------------
(* Rows.                                                                   *)

Status == {"Pending", "Leased", "Completed", "FailedPermanent", "Blocked", "Cancelled"}
Active == {"Pending", "Leased"}

Task == [run      : Run,
         business : Business \cup {None},
         stage    : RunStage \cup BusinessStage,
         runtime  : Runtime \cup {None},  \* the brief copied into the input
         status   : Status,
         attempts : 0..MaxAttempts,
         owner    : Nat,                  \* worker process holding the lease
         expired  : BOOLEAN,              \* lease_expires_at <= now
         due      : BOOLEAN,              \* available_at <= now
         infra    : BOOLEAN,              \* failure.classification = Infrastructure
         wrote    : 0..MaxAttempts]       \* attempt whose stage results are stored

State == {"Absent", "Pending", "Running", "Pausing", "Paused",
          "Cancelling", "Cancelled", "Completed"}
Terminal == {"Completed", "Cancelled"}
Control == {None, "Pause", "Cancel"}
CleanOutcome == {"Reassessment Complete", "Target Reached", "Search Exhausted"}
Verdict == CleanOutcome \cup {"Completed with Warnings", "Infrastructure Failed"}
Completion == Verdict \cup
    {None, "Paused", "Runtime Unavailable", "Cancelled with Partial Results"}

RunRow == [state      : State,
           control    : Control,          \* requested_control
           completion : Completion,
           reassess   : BOOLEAN,          \* the brief names businesses
           runtime    : Runtime,          \* the brief's runtime
           found      : SUBSET Business,  \* discovered_businesses of the run
           qualified  : Nat]              \* run_metrics.qualified_candidates

\* A row as insertTask and the creation triggers write it.
NewTask(r, b, stage, runtime) ==
    [run |-> r, business |-> b, stage |-> stage, runtime |-> runtime,
     status |-> "Pending", attempts |-> 0, owner |-> 0, expired |-> FALSE,
     due |-> TRUE, infra |-> FALSE, wrote |-> 0]

\* The updates a task row goes through.
Lease(t, process) ==
    [t EXCEPT !.status = "Leased", !.owner = process, !.attempts = @ + 1, !.expired = FALSE]

Unlease(t, status) == [t EXCEPT !.status = status, !.owner = 0, !.expired = FALSE]

CompleteTask(t) == [Unlease(t, "Completed") EXCEPT !.infra = FALSE]

FailedStatus(t, class) ==
    IF class = "Transient" /\ t.attempts < MaxAttempts THEN "Pending"
    ELSE IF class = "Blocked" THEN "Blocked"
    ELSE "FailedPermanent"

\* A retry is due again only after a delay.
FailTask(t, class) ==
    [Unlease(t, FailedStatus(t, class)) EXCEPT
        !.infra = (class = "Infrastructure"), !.due = (FailedStatus(t, class) # "Pending")]

CancelTask(t) == [t EXCEPT !.status = "Cancelled"]

\* The stage's own rows are stored, under the attempt that stored them.
StoreResult(t) == [t EXCEPT !.wrote = t.attempts]

UnblockTask(t) == [t EXCEPT !.status = "Pending", !.due = TRUE, !.infra = FALSE]

\* What stage results add to a run.
Record(run, businesses) == [run EXCEPT !.found = @ \cup businesses]
\* The score recounts the run's qualified rows and finds its own as one more;
\* that a suppression is not recounted is Evaluation's.
Qualify(run) == [run EXCEPT !.qualified = @ + 1]

\* Whether a run has a row in one of the statuses.
Has(ts, r, statuses) ==
    \E i \in 1..Len(ts) : ts[i].run = r /\ ts[i].status \in statuses

-----------------------------------------------------------------------------
(* Settlement: reconcileRunAfterTaskSettlement.                            *)

\* Faulty: one business whose browser failed fails the run.
InfrastructureFailedAnywhere(ts, r) ==
    \E i \in 1..Len(ts) : /\ ts[i].run = r
                          /\ ts[i].status = "FailedPermanent"
                          /\ ts[i].infra

\* A failed task that belongs to no business and failed as Infrastructure.
InfrastructureFailed(ts, r) ==
    \E i \in 1..Len(ts) : /\ ts[i].run = r
                          /\ ts[i].status = "FailedPermanent"
                          /\ ts[i].business = None
                          /\ ts[i].infra

\* Faulty: the target counts as reached one candidate early.
TargetRemainingShort(run) == IF run.qualified + 1 >= Target THEN 0 ELSE Target - run.qualified

TargetRemaining(run) == IF run.qualified >= Target THEN 0 ELSE Target - run.qualified

Ends(state, completion) == [state |-> state, completion |-> completion]

Outcome(run, ts, r) ==
    IF InfrastructureFailed(ts, r)     THEN Ends("Completed", "Infrastructure Failed")
    ELSE IF Has(ts, r, {"Blocked"})    THEN Ends("Paused", "Runtime Unavailable")
    ELSE IF Has(ts, r, {"Cancelled"})  THEN Ends("Cancelled", "Cancelled with Partial Results")
    ELSE IF Has(ts, r, {"FailedPermanent"}) THEN Ends("Completed", "Completed with Warnings")
    ELSE IF run.reassess               THEN Ends("Completed", "Reassessment Complete")
    ELSE IF TargetRemaining(run) = 0   THEN Ends("Completed", "Target Reached")
    ELSE Ends("Completed", "Search Exhausted")

Settle(run, end) ==
    [run EXCEPT !.state = end.state, !.completion = end.completion, !.control = None]

Reconcile(run, ts, r) ==
    IF run.control = "Cancel" /\ ~Has(ts, r, {"Leased"})
    THEN [run EXCEPT !.state = "Cancelled", !.completion = "Cancelled with Partial Results"]
    ELSE IF Has(ts, r, Active)
    THEN IF run.control = "Pause" /\ ~Has(ts, r, {"Leased"})
         THEN [run EXCEPT !.state = "Paused", !.completion = "Paused"]
         ELSE run
    ELSE Settle(run, Outcome(run, ts, r))

-----------------------------------------------------------------------------
(* The parts of recover, in the order its transaction runs them.           *)

\* A run reported as reaching a target it has not reached.
CorrectTarget(run) ==
    IF /\ run.state = "Completed" /\ run.completion = "Target Reached"
       /\ TargetRemaining(run) > 0
    THEN [run EXCEPT !.completion = "Search Exhausted"]
    ELSE run

\* Faulty: only a lost lease counts as abandoned.
AbandonedLease(t) == t.status = "Leased" /\ t.expired

Abandoned(t) == \/ t.status = "Leased" /\ t.expired
                \/ t.status = "Pending" /\ t.attempts >= MaxAttempts
Exhausted(t) == Abandoned(t) /\ t.attempts >= MaxAttempts

\* Faulty: recovery gives the lost attempts back.
RecoverTaskAfresh(t) ==
    IF Exhausted(t)
    THEN [Unlease(t, "FailedPermanent") EXCEPT !.infra = TRUE]
    ELSE IF Abandoned(t)
    THEN [Unlease(t, "Pending") EXCEPT !.due = TRUE, !.attempts = 0]
    ELSE t

RecoverTask(t) ==
    IF Exhausted(t)
    THEN [Unlease(t, "FailedPermanent") EXCEPT !.infra = TRUE]
    ELSE IF Abandoned(t)
    THEN [Unlease(t, "Pending") EXCEPT !.due = TRUE]
    ELSE t

Recovered(ts) == [i \in 1..Len(ts) |-> RecoverTask(ts[i])]

\* Runs with an exhausted task are reconciled against the recovered tasks.
AfterExhaustion(run, ts, r) ==
    LET lost == \E i \in 1..Len(ts) : ts[i].run = r /\ Exhausted(ts[i])
    IN  IF lost THEN Reconcile(CorrectTarget(run), Recovered(ts), r) ELSE CorrectTarget(run)

\* Faulty: a stranded cancellation is not swept.
StrandedPausing(run, ts, r) ==
    run.state = "Pausing" /\ ~Has(ts, r, {"Leased"})

\* No worker is left to finish what a cancelling or pausing run waits for.
Stranded(run, ts, r) ==
    run.state \in {"Cancelling", "Pausing"} /\ ~Has(ts, r, {"Leased"})

Reopen(run, ts, r) ==
    IF run.state = "Completed" /\ Has(ts, r, Active)
    THEN [run EXCEPT !.state = "Running", !.completion = None]
    ELSE run

RecoveredTasks(runs, ts) ==
    LET done == Recovered(ts)
        swept(r) == LET run == AfterExhaustion(runs[r], ts, r)
                    IN  run.state = "Cancelling" /\ Stranded(run, done, r)
    IN  [i \in 1..Len(ts) |->
            IF done[i].status \in {"Pending", "Blocked"} /\ swept(done[i].run)
            THEN CancelTask(done[i]) ELSE done[i]]

RecoveredRun(run, ts, swept, r) ==
    LET exhausted == AfterExhaustion(run, ts, r)
        settled   == IF Stranded(exhausted, Recovered(ts), r)
                     THEN Reconcile(exhausted, swept, r) ELSE exhausted
    IN  Reopen(settled, swept, r)
=============================================================================
