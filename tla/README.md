# Open Prospector: TLA+ specification

Open Prospector finds local businesses with weak websites. A Next.js web process
takes a Search Brief and shows progress; one background worker executes the
Prospecting Run as a chain of durable tasks; both share a SQLite database (WAL)
and an artifacts directory. These modules specify that program: the life of a run
between the two processes, what each of its stages does to a business, the browser and
the runtimes the stages use, the pages that start a run and review its candidates, and
the maintenance of the workspace around all of it.

All paths below are relative to the repository; `features/` stands for
`src/features/`.

## 1. Inventory

| Component | State it keeps | Operations that change it | What makes it hard |
|---|---|---|---|
| Run execution (`features/run-execution`) | `run_tasks`, run state in `prospecting_runs`, the slots of a worker cycle | `recover`, `claim`, `renewLease`, `complete`, `fail`, the cycle of `worker.ts` | crashes, leases that expire, retries, slots beside one another, controls that arrive in between |
| Run monitoring (`features/run-monitoring`) | the same run rows | `pause`, `resume` (with another runtime), `cancel` | races with every settlement of the worker |
| Prospecting runs (`features/prospecting-runs`) | `prospecting_runs`, remembered defaults, the New Run form | preflight, `createPending` (idempotent by request), `createReassessmentRun` | late and lost answers; a check, an awaited probe, then the write |
| Business discovery (`features/business-discovery`) | `discovered_businesses`, `discovery_queries`, `run_metrics` | `recordReport`, `carryForwardBusinesses` | stored before the task is settled, so executed again after a crash |
| Business identity (`features/business-identity`) | `canonical_businesses`, `run_businesses`, contacts, presences | `commitEvaluation`, `writeAbsenceConfirmation` | duplicates decided against siblings, retries |
| Website inspection (`features/website-inspection`) | inspections, screenshot files, a browser and a proxy per attempt | four visits, one commit | every call can fail, abandoned attempts go on |
| Website assessment (`features/website-assessment`) | assessments | one commit per stage | retries; the evidence it rests on |
| Review queue (`features/review-queue`) | `candidate_scores`, reviews, suppressions, `run_metrics`; copies in the page | `score`, `suppressCandidate`, `liftCandidateSuppression`, reviews, notes | counters recomputed in one place and changed in another; a page that works on copies |
| Workspace administration (`features/workspace-administration`) | the operation lock file, every table, artifacts | lock, reset, delete, cleanup, compact | two processes and a stale lock, admission by check-then-act |
| Backup and restore | database and artifacts as files | `createWorkspaceBackup`, `replaceWorkspace` | several renames that must be one step |
| Runtime settings (`features/runtime-settings`) | child processes, temporary directories, the cached catalog | runtime calls, probes, update | processes that neither answer nor exit |
| Local application, overview, evaluation, UI | database handles, none, none | opening and closing handles | handles that outlive a file |

The parts interact only through rows. A control writes `requested_control` and
perhaps the state; the worker reads it when it claims, when it completes and when
it settles. A stage's executor stores its own rows first, and the task is
completed, its successors inserted and the run reconciled in a later transaction.
Between the two the process may die, the lease may expire, and the user may act.

What makes each component correct:

* execution: leases are exclusive, attempts bounded, a checkpoint is never lost,
  a run's state agrees with its tasks and its outcome with their results, and every
  run settles;
* controls: a pause or a cancel takes effect, a settled run stays settled, a resumed
  run continues with what was asked for;
* creation: a run is one confirmation of a draft and an area that belong together;
* stages: executing one again after a crash adds nothing twice and loses nothing;
* identity and review: one business, one candidate; a suppressed business stays out;
  notes are never lost between two scores;
* browser and runtimes: whatever fails, nothing stays open and every call ends;
* workspace: one holder of the lock; a restore ends with one whole workspace.

`PROJECT.json` lists the hazards at their lines, each with the properties that watch
it, or with the reason why none does.

## 2. Plan

Done, in the order of the modules below: the run between its two processes
(`RunStore`, `RunExecution`), the stages it leaves open (`Discovery`, `Evaluation`,
`Inspection`, `RuntimeCall`), its two ends (`NewRun`, `ReviewDesk`), and the workspace
(`OperationLock`, `Workspace`); what all of it promises a user of one run (`RunLifecycle`,
which `RunExecution` implements); proofs of every safety property of every one of them.

Left, in this order:

1. An atomic replacement as the abstraction of `Workspace`, as far as `damaged` allows.
2. The rubric's arithmetic as pure operators against a reference definition.

## 3. Modules

| Module | Models | Lines |
|---|---|---|
| `RunStore` | the `run_tasks` and `prospecting_runs` rows; the updates of a task row; `Reconcile` = `reconcileRunAfterTaskSettlement`; the parts of `recover` | pure operators |
| `RunExecution` | one action per transaction or step of the web process, the worker and the environment | extends `RunStore`, implements `RunLifecycle` |
| `RunLifecycle` | the abstract run: its phase, its outcome, its jobs, those in hand and those finished | |
| `Discovery` | the two executors that give a run its businesses | one run |
| `Evaluation` | what happens to a listing: corroboration, inspection, absence, assessment, score, suppression | listings of one or two runs |
| `Inspection` | one business's website, browser and proxy | attempts of one task |
| `RuntimeCall` | calls of a subscription runtime as processes | calls at once |
| `NewRun` | the New Run form, the server's preflight and creation, reassessment requests | one form, one server |
| `ReviewDesk` | the review page, the server's reading and writing, the worker's scores | one page |
| `OperationLock` | the lock file, one file system call per step | clients of several processes |
| `Workspace` | backup, restore, reset, deletion, cleanup against requests and worker cycles | two processes |
| `MC...` | instances for TLC where a cfg alone does not say enough | |
| `RunExecutionProofs`, `EvaluationProofs`, `InspectionProofs`, `NewRunProofs`, `ReviewDeskProofs`, `OperationLockProofs`, `WorkspaceProofs` | theorems about the module each is named after | |
| `DiscoveryProofs` | theorems about `Discovery` and about `RuntimeCall`, the calls it is made of | |

How they fit together. `RunExecution` leaves the stage graph open (`BusinessStage`,
`Successors`, `StageFailures`) and knows of a stage only its stored result and its
outcome. `Discovery`, `Evaluation` and `Inspection` say what those stages do and what a
retry after their commit finds; they in turn know of the run only that a stage may be
interrupted and claimed again. `Inspection` details the one step `Inspect` of
`Evaluation`, `RuntimeCall` the calls both `Discovery` and `Evaluation` make. The `runs`
that `NewRun` creates are the ones `RunExecution!CreateRun` starts with. `Workspace`
takes the lock in one step; `OperationLock` is that step.

### `RunStore`, `RunExecution`

| Variable | Code |
|---|---|
| `tasks` | `run_tasks` in creation order, the order `claim` sorts by. A batch of tasks inserted by one loop shares its `created_at` and is then ordered by random identifiers, so every order of a batch is possible (`Orderings`). |
| `tasks[i].expired`, `.due` | `lease_expires_at <= now`, `available_at <= now`: wall-clock time reduced to the two comparisons the code makes |
| `tasks[i].infra` | `failure.classification = 'Infrastructure'` |
| `tasks[i].wrote` | the attempt whose stage results are stored: what a retry finds |
| `runs` | `prospecting_runs`, with the run's discovered businesses and the qualified count of `run_metrics` |
| `slots` | the fibers of the current cycle: in no cycle, looking for a task, or executing one |
| `process`, `errors` | the lease owner that is alive; how many database errors have happened, only to bound them |

Web: `CreateRun` (with its trigger), `Pause`, `Resume`, `Cancel`. The API accepts a
control in every state that is not terminal; that the screen hides some of the buttons
is not relied upon. Worker: `StartCycle` is the whole of `recover`, in one transaction,
and the opening of the slots; `Claim`, `LeaveCycle` and `ClaimError` are the outcomes of
`claim`, the last of which interrupts the sibling fibers; `Complete` and `Fail` are the
whole transactions, reconciliation included; `SettlementError` is the logged failure of
either; `RenewLease` checks the owner and not the clock, as the code does. Stage results
(`RecordReport`, `CarryForward`, `Score`) are commits of their own before the
settlement. Environment: `LeaseExpires`, `RetryDelayPasses`, `Crash`.

`RunLifecycle` knows neither rows nor slots. Each run has a `phase`, an `outcome` it is told
at its end, and sets of `jobs`, some in hand (`busy`), some `finished`; `Starts`, `Pauses`,
`Cancels` and `Resumes` are its user's, `Takes`, `Finishes` and `PutsDown` the worker's, and
every step is one of these or `Stays` for each run (recovery moves all runs at once). The
mapping is at the end of `RunExecution`:

| `RunLifecycle` | `RunExecution` |
|---|---|
| `phase` | the run's state, with `Pending` and `Running` both `"Live"` (`Phase`) |
| `outcome` | the run's completion reason once its state is terminal, `None` before |
| `jobs`, `busy`, `finished` | its rows, its `Leased` rows, its `Completed` rows (`Jobs`) |
| `Takes`, `Finishes` | `Claim`, `Complete` |
| `PutsDown` | `Fail`; `StartCycle`, in every open run |
| `Stays` | stage results, renewals, errors, the clock, a crash; every run a step is not about |

It allows no step that takes a job in a run that is stopping, that gives a job up that was
finished, that stops waiting while a job is in hand or waits for none, that adds work to a
cancelled run, or that changes a run that has ended.

### `Discovery`

`plan` is the number of distinct queries, `pages` are `discovery_queries`, `found` are
`discovered_businesses` in rank order, `claims` what the structuring step returned, and
`empty` and `progress` the loop's local variables, which a retry starts anew. `Ask`,
`ReportArrives`, `StructureArrives` and `Record` are one turn of the loop, cut at its
awaits; `Record` is the whole transaction (businesses, page, metrics), and `Recorded` its
loop over the claims in their order, one `RecordOne` per turn.
`CarryForward(S)` copies the source businesses that exist. How a report's text supports
a business is reduced to whether its claim cites a source.

### `Evaluation`

A stage is cut before its commit, between commit and checkpoint, and after: `Inspect`,
`CommitInspection`, `Checkpoint`. `Interrupt` returns a stage to its start and keeps what
it committed. `CommitEvaluation` is `commitEvaluation` with its order of look-ups:
suppression by fingerprint, canonical business by route, siblings of the run, earlier
assessments under the run's policy. Telephones, pages and the website are tokens.
`Suppress` and `Lift` are a reviewer's, at any time. The totals follow
`opportunity-score.ts` with its caps and its threshold (severity 5 gives 80, above 72).

### `Inspection`

`work[a]` is one attempt's browser session, `owner` the attempt with the lease; a lost
lease does not stop the session, so two may run. `files` is the task's artifact
directory, `row` the stored inspection. `Validate`, `Launch`, `StartProxy`, four visits,
`CloseProxy`, `ProxyClosed`, `CloseBrowser`, `Commit`, `Checkpoint` are the steps of
`playwright-website-inspector.ts` between its awaits. Tunnels are looked up, opened and
ended on their own. A page is reduced to what decides the next step: blocked or not, and
which relevant links it has.

### `RuntimeCall`

`call[c]` is a promise and its settlement, `tree[c]` the child and the helpers it may leave,
with the child's pipes or their own, and input and output; `directory` the temporary directories. `TimesOut`, `Output` beyond
the limit, `Interrupted`, `Closes`, `SettlesAfterExit` are the ways a call is settled,
`Release` the removal of its directory. `InputBreaks` is the pipe error nobody listens to:
the process dies and `Restart` starts the next. Its specification is `CallSpec`, with
`CallInit`, `CallNext` and `callVars`, so that one module can speak of it and of `Discovery`.

### `NewRun`

`form` is the page (draft, preflight, area, request), `jobs` the server's requests in
flight, each cut at its awaits: `Check` (readiness), `Locate` (geocoding or its cache),
`Create` (the transaction with its idempotent request). `ShowPreflight`, `ShowRun` and
`ShowError` deliver an answer or lose it. `MachineChanges` breaks or repairs a part,
`Reassess` is the request that needs no form.

### `ReviewDesk`

`scores`, `reviews`, `suppressed` are the rows; `list`, `openId`, `cache`, `reading`,
`failed` the page's copies (React Query); `request` the changes under way and `busy` the
flag that one of them is awaited. `ServeReading` and `ReadingEnds` are the two ends of a
reading, `Saved` and `NotSaved` those of a change. Every button asks whether the page is
busy; Enter in the note of a rejection does not (`RejectWithNote`), so changes may overlap.
`Score` is the worker's `score`, which takes the notes over.

### `OperationLock`, `Workspace`

A client of the lock is a worker cycle or a maintenance operation; `pc[c]` is its place
in `workspace-operation-lock.ts`, one file system call per step; `seen[c]` the pid
`isStale` has read; `life[p]` the incarnation of a process, so that a restarted one is
not mistaken for the dead. In `Workspace`, `database`, `artifacts`, `aside` and `next`
are the four places a replacement moves between, `pool[p]` the file a process's shared
handle has open, `web` where the web process's synchronous code stands. Its other
requests run between awaits only; the worker between any two steps.

### Assumptions

* SQLite runs one write transaction at a time, and a transaction is all or nothing.
* One worker process at a time (ADR 0001).
* A live process writes the lock file it created within the grace of 30 seconds, and a
  dead process's pid is not used again. Creating a file exclusively is atomic.
* Transitions, technical events, timestamps and payloads are left out: nothing decides
  by them. No executor raises the `Cancelled` classification.
* Every task has the same `max_attempts` and every brief the same target; the code
  inserts 3 everywhere.
* Every call on the browser has a timeout and every look-up an answer. Nothing is
  assumed of when a runtime exits.
* What a runtime starts stays in the process group of the call's child, which the kill is
  for. That is POSIX: on Windows the tree of a child that has exited is not found
  (`runtime-process.ts:109`), and its helpers stay. A helper with pipes of its own outlives
  every call that its child's exit ends (`runtime-process.ts:86`), which the property says.
* What a definition marked `external` stands for is outside the repository: the programs of
  the runtimes, file descriptors, processes, the machine.

Definitions marked "Faulty" are plausible mistakes in the definition that follows them.
No `Next` uses them; they show that each property would notice.

## 4. Checks

| Run | Instance | Shows |
|---|---|---|
| `MCControl` | `RunExecution`, 1 run, 1 business, 2 slots, 3 attempts, 2 crashes, 1 error, `LiveSpec` | types, exclusive execution, honest run states, refinement of `RunLifecycle`, kept checkpoints, effective cancellation; runs settle and controls are honoured |
| `MCBusinesses` | 2 businesses, 2 slots, 2 attempts, 1 crash | outcomes of siblings that settle in every order and combination; isolation of business failures; one stage at a time |
| `MCDiscovery` | 3 businesses, target 2, 2 or 4 queries, 2 claims a report, 2 attempts, 1 crash | the books agree, the checkpoint is earned, no search is bought in vain, attempts end |
| `MCEvaluation` | 2 listings of six kinds in 1 or 2 runs under each policy, 4 search results, 1 interruption, 2 reviewer's decisions | one evaluation per business and run, no suppressed candidate, counters, fixed evidence, an end |
| `MCInspection` | 2 attempts, 1 tunnel, 1 crash | nothing stays open, honest evidence, attempts end |
| `MCRuntime` | 2 calls of three runtimes and kinds, output limit 1 | a call cut short leaves no process, calls end |
| `MCNewRun` | 3 requests, 2 locations that share an area, 1 change of the machine | runs are confirmed and sound |
| `MCReview` | 2 businesses, 3 scores, 2 changes, 1 reading besides | queue, export and overview, travelling notes, the page shows what it saved |
| `MCLock` | a worker's cycle and two maintenance operations of one web process, 2 deaths, 1 failing write, `FairSpec` | types, exclusion, owners keep their file, abandoned locks are removed |
| `MCWorkspace` | 1 run, 3 database files, 1 archive, 1 failing file system call, 1 death | whole workspace, whole evidence, recovery backups, no active run lost |
| `MCResumeExhausted` | as `MCControl`, 1 crash | a violation, see below |
| `MCLostWebsite` | as `MCEvaluation`, nothing interrupted | a violation, see below |

### Why the bounds are enough

* Settlement depends on a run's tasks only through the existence of statuses, so one
  sibling of each status beside the one that settles is the general case. Two slots give
  every pairwise interleaving of executions; three attempts reach first, middle and
  last; a second crash hits the recovery of the first. The chain of a business is cut to
  its two ends, because neither claim nor settlement reads which stage lies between.
  One runtime is enough where the property is not about runtimes.
* A search stops early after two empty reports, so four queries give a report that
  adds, two that do not and one that is saved; two attempts give a retry that meets pages
  in the middle of a plan. Two claims a report give a duplicate inside it.
* Two listings are enough for everything that compares a listing with its siblings, and
  their six contents are every way to share a telephone, a website or nothing, and both
  kinds that are no candidate. Which of the two is called `l1` makes no difference.
* A second attempt is the general case of one beside an abandoned first: an attempt only
  shares its directory and the stored row with earlier ones.
* A third score follows one written while the page was behind. The third request made of
  the server in `MCNewRun` is the repetition of a confirmation after another one between.
  The second change the review page asks for is the one that Enter in the note of a
  rejection sends beside the first; each meets every reading, score and lifting. The proof
  has any number of them.
* Two maintenance operations are two that take the lock over from the same dead process;
  a second death is that of the one that took it over.
* A third database file is that of a second restore.

`MCBusinesses` uses symmetry of slots and businesses, `MCReview` of businesses, which are
only compared with each other; both check safety only. No other run uses symmetry. Deadlock is checked except in `MCDiscovery`, `MCEvaluation` and `MCLostWebsite`,
where settled tasks stay as they are, and in `MCWorkspace`, where a web process that dies
between the renames leaves no database and every request fails until the next start.
`Inspection` and `RuntimeCall` have a `Finished` step instead. `MCControl` has one run, so
that no run starves another is argued only (one queue, oldest first) and not checked.

### Fairness

* `RunExecution!LiveSpec`: the worker's loop goes on (`Effect.forever` around a cycle that
  catches its errors: `StartCycle`, `Seek`), a stage that is executing ends (`Finish`;
  `InspectionEnds`, `CallsEnd`, `AttemptsEnd` and `EvaluationEnds` say why), and the clock
  advances for leases nobody renews and for retry delays. Nothing is assumed of the user.
  Crashes and errors are bounded: a worker that is killed again and again settles nothing.
* `Discovery`, `Evaluation`: a stage under way takes its next step.
* `Inspection`: a session's calls return, look-ups are answered, tunnels end by the idle
  timeout of the browser or the site.
* `RuntimeCall`: file operations answer and timers fire. No runtime need ever exit.
* `OperationLock!FairSpec`: synchronous code runs to its end, a holder finishes its
  operation, the worker asks again for ever, time passes. A maintenance operation starts
  only when the user asks.

### What the code does not do

Two runs show a disagreement between what the repository says and what the code does;
each is a trace of a few steps, described in `PROJECT.json`.

| Run | Disagreement |
|---|---|
| `MCResumeExhausted` | attempts that ended `Blocked` are counted; the resume after the last one leaves a task no claim takes, which recovery then fails |
| `MCLostWebsite` | a website that the confirming search found but named among no sources is not stored; the second inspection finds none and the business is scored as having none |

Further divergences met while modelling, which no run checks. The properties leave these
steps out where they say so in their comments.

* Runtime change. `changeRuntime` rewrites the brief and the existing discovery task
  (`sqlite-run-monitoring.ts:328`); planning that finishes later copies its old input
  (`stage-executor-live.ts:46`): a run shown with one runtime discovers with another
  (`CHANGELOG.md:189`).
* Carried work. `carryForwardBusinesses` has no conflict clause
  (`sqlite-discovery-repository.ts:294`); a crash between its commit and the checkpoint
  makes the retry fail as Infrastructure (ADR 0007). `Discovery!CarryForward` and
  `RunExecution!CarryForward` both have it.
* Concurrency. A slot that finds nothing leaves for the rest of the cycle
  (`worker.ts:37`), so after a long single stage businesses are worked on one by one.
* Leftovers of a cancellation. A transient failure puts its task back to Pending whatever
  was asked (`sqlite-run-task-repository.ts:304`), and settlement then marks the run
  Cancelled around it (`CHANGELOG.md:113`).
* Stale locks. `rmSync` after `isStale` removes whatever file is there by then
  (`workspace-operation-lock.ts:50`; `CHANGELOG.md:158`). It takes a dead process and two
  others, and is why exclusion is claimed until the first death only.
* Handles. A restore closes the shared handles once, before its awaits
  (`workspace-operation-lock.ts:31`); a monitoring request meanwhile opens one again, which
  stays on the removed file (against `shared-connection.ts:5`).
* Replacement. When the old artifacts cannot be removed, the compensation removes the
  installed database after the old one is gone (`workspace-backup-store.ts:417`), and a
  death between two renames leaves the old workspace aside. `damaged` marks both.
* Recovery. The recovery backup takes its snapshot and then copies files while other
  requests are served (`workspace-backup-store.ts:152`). A review decision of that time, and
  a run created and cancelled in it, are moved aside with the old workspace and dropped:
  they are neither in the backup nor in the restored workspace. The check for active runs at
  157 sees neither.
* Duplicates. A corroboration retried after its own commit meets a sibling that has become
  its duplicate, and becomes the sibling's (`sqlite-identity-repository.ts:112`): neither is
  evaluated. `EvaluatedOnce` excludes the opposite only.
* Notes. `quickDecision` sends the notes of the page's copy (`review-workspace.tsx:145`)
  and the notes form its status (`candidate-admin.tsx:60`): after a lost answer or a failed
  reading, the next decision writes old notes back. So does Enter in the note of a
  rejection, which does not ask whether the page is busy (`candidate-sheet.tsx:325`), beside
  a save of the notes (against the comment at `review-workspace.tsx:144`). The panel is not
  keyed on its candidate (`candidate-sheet.tsx:165`, against the comment at 137).
* Counts. Suppressing and lifting do not recount `run_metrics.qualified`; the overview's
  summary counts a business once per score that qualified
  (`review-queue-read-model.ts:340`). The queue is cut off after 500 (line 100) and the
  export is not; above that they differ, which three scores do not reach.
* Pipes. The input of a runtime's child has no error listener (`runtime-process.ts:96`), so
  a child that is gone early takes the worker down; its detached process group survives.
* Pictures. An abandoned inspection goes on writing to its successor's files
  (`playwright-website-inspector.ts:379`); `candidate-screenshot.ts` refuses the ones whose
  size no longer matches.
* Reassessments. Two requests can both pass the check for one that is running
  (`reassessment-services.ts:22`), and a reassessment overwrites the remembered target
  count with 1.

## 5. Proofs

Every theorem is about the module's `Spec` and holds for all values of its constants that
satisfy the assumption the module states (and TLC evaluates in its runs). The names in
the second column are the properties the runs of section 4 check, unless it says
otherwise. Each inductive invariant was checked with TLC, as an invariant of the run's own
instance, before it was proved; the numbers are the distinct states of that check.

Every proof has the same layout: the parts of the inductive invariant, lemmas about the
module's operators, one lemma per action (or per group of actions that write the same
things), that the invariant holds at first and after every step, then the theorems. The
invariants are split into named parts so that an action is asked only for those it can
disturb.

### `RunExecutionProofs`

Any number of runs, slots and crashes, any positive number of attempts and positive
target, finitely many businesses, any stage graph that stays inside its stages
(`StoreAssumption`, `ExecutionAssumption`).

| Theorem | States |
|---|---|
| `InductiveInvariant` | `[]IInv` |
| `TypeCorrectness` | `[]TypeOK` |
| `ExecutionIsExclusive` | `[]ExclusiveExecution` |
| `RunsAreConsistent` | `[]RunsConsistent`, part of `IInv` |
| `RunStatesAreHonest` | `[]StatesAreHonest` |
| `SettledIsFinal` | `SettledRunIsFinal`, which no run checks by itself: `ImplementsLifecycle` implies it |
| `RecoveryRepairsNothing` | two of recovery's repairs find nothing to repair, see below (no run) |
| `CheckpointsKept` | `CheckpointsAreKept` |
| `CancelStops` | `CancelStopsNewWork` |
| `StagesDoNotOverlap` | `[]OneStageAtATime` |
| `OutcomesAreInductive` | `[]OutcomeInv`, a second inductive invariant beside `IInv` (325,258 states with `IInv`, `MCBusinesses`) |
| `CleanOutcomesAreEarned` | `[]CleanOutcomeIsEarned` |
| `BusinessFailuresAreIsolated` | `[]BusinessFailureIsIsolated` |
| `RunIsWhatWasPromised` | `ImplementsLifecycle` |

`IInv` is `TypeOK /\ ExclusiveExecution /\ RunsConsistent`. `TypeOK` is inductive by
itself: the claim's guard keeps attempts within their bound. `ExclusiveExecution` needs
it, and says that a settling slot really owns a leased row (so that the settlement's
refusal "lease ownership lost" never occurs), because recovery only runs when every slot
has left the cycle. `RunsConsistent`, that a run's state fits its tasks, needs both,
because a settlement is justified by the lease it gives up. It adds to the four
honest-state invariants what they do not say on their own: which control goes with which
state, which outcomes a completed run may have, and that a paused or cancelled run whose
control was cleared has nothing active left, so that nothing can be claimed in it.

`ReconcileConsistent` is the heart: a settlement produces a consistent run whenever the
run it starts from has a control that is none, or tasks that still justify it.
`OneRunStep` and `ConsistentFrame` reduce each action to the one run it touches.
`RecoveredRuns` says what recovery makes of a run, and `RecoveryRepairsNothing` that two of
its repairs, `CorrectTarget` and `Reopen`, change nothing in a reachable state: they can
only matter to rows written by earlier versions. (The model leaves the counters of a
completed run alone, as the code does: suppressing does not recount them.)

The refinement needs no further invariant: what a run's phase says of the jobs in hand is
`RunsConsistent`. `Ahead` is where the worker may take a run, and `ReconcileAhead` that a
settlement takes it there, a cancelling one only to its cancellation; recovery reconciles a
run at most twice (`RecoveryAhead`), and twice ahead is ahead. The lemmas called `...Moves`
map each action to the step of the one run it is about, and `OthersStay` to a stutter of the
others; the table grows at its end only (`TableGrows`), so a job is a row's place in it.

None of the outcome invariants is inductive. `StagesInOrder` adds to `OneStageAtATime`
that a run's rows are in the order of its stages, with the run-level ones first, so that
the row being settled is the last unfinished one of its business. `OutcomesHold` says
what a recorded outcome goes on meaning of the rows and of the qualified count after the
settlement that wrote it; `QualifiedByBusiness`, that nothing is qualified without a
business's task, is why a search that found no business is exhausted and below its
target.

### `WorkspaceProofs`

Any set of runs, any number of database files, archives, failing calls and deaths
(`WorkspaceAssumption`).

| Theorem | States |
|---|---|
| `WorkspaceInvariant` | `[]IInv` (1,612,675 states) |
| `TypesAreKept` | `[]TypeOK` |
| `WorkspaceStaysWhole` | `[]WorkspaceIsWhole` |
| `EvidenceStaysWhole` | `[]EvidenceIsWhole` |
| `RecoveryKeepsEvidence` | `[]RecoveryHoldsEvidence` |
| `ActiveRunsStay` | `NoActiveRunIsLost` |

The three invariants speak of the configured paths between operations; a proof has to
follow a replacement through its renames. `ControlOK` says who holds the lock at each
step of the web process, `ReplacementOK` which of the four places are filled,
`WholeOK` where the two halves of the old and of the new workspace are, `HandlesOK` and
`FilesOK` which file every shared handle has open, `CapturedOK` where the screenshot of
a row that is about to be written is. `SavedOK` is why a restore loses no evidence: every
row and file it moves aside is held by the recovery backup, and of the runs and decisions
everything but what the web process wrote while the backup was made (*Recovery* above).
`WholeOK` and `ArchivesOK` are claimed until `damaged`, the marker of the two divergences
under *Replacement* above.

### `InspectionProofs`

Any number of attempts, tunnels and crashes (`InspectionAssumption`).

| Theorem | States |
|---|---|
| `InspectionInvariant` | `[]IInv` (436,827 states) |
| `NothingStaysOpen` | `[]NothingIsLeftOpen` |
| `EvidenceStaysHonest` | `[]EvidenceIsHonest` |

`OpenOK` says by where a session stands what it has open: a tunnel or a look-up needs its
proxy, and every way to an end passes the closing of both. `SeenOK` says which pages and
blocks it has collected there, so that `Explained` holds of the result that is stored.
`OwnOK` is about pictures: until a second attempt begins every page is beside its own
picture. It needs `BegunOK`, that an attempt which has not begun has stored nothing.

### `DiscoveryProofs`

Any finite set of businesses, positive target, plan, number of attempts, claims and
crashes (`DiscoveryAssumption`).

| Theorem | States |
|---|---|
| `DiscoveryInvariant` | `[]IInv` (298,452 states) |
| `BooksStayTrue` | `[]BooksAgree` |
| `CheckpointsAreEarned` | `[]CheckpointIsEarned` |
| `NoSearchIsBoughtInVain` | `SearchesAreNeeded` |
| `RecordsStay` | a recorded business keeps its rank and a recorded report stays as it is |
| `SearchesAreBounded` | `[]SearchIsBounded`: at most one report per query of the plan, and less than one report (`MaxClaims`) beyond the target |

The last two are stated by no run. `SearchIsBounded` needs `RoomOK` beside `IInv`: from the
moment a report is asked for until it is recorded the run is below its target, also when
attempts and crashes come between.

A retry starts its loop anew over what earlier attempts have stored, so `LoopOK` relates the
loop's variables to the store: every query behind it is recorded, the report it stands at is
not, and as many of the last reports as `empty` counts added nothing (`Idly`), whichever
attempt recorded them. With that the loop ends for one of the checkpoint's three reasons.
`ExecutorOK` is why the checkpoint covers the run: what the attempt has seen is what is
stored. The books need to know what a transaction does with a report of any length, and
what a sum over any number of pages is: `RecordedIsSound` (the businesses held keep their
ranks; none is there twice; as many are added as are counted new; no claim is counted
twice) and `SumOfAppend`. Both
are inductions, made without a theorem that takes a predicate: the numbers for which the
statement fails would have a least member (`Least`, from the well-foundedness of `<`), and
it holds there. `LoopExists` and `SumExists` first show that the recursive functions have
the value their equations say.

The same module proves what `RuntimeCall` promises the discovery, for any calls, any
runtimes and kinds they are made of and any limit (`RuntimeCallAssumption`).

| Theorem | States |
|---|---|
| `CallInvariant` | `CallSpec => []CallInv` (322,497 states) |
| `NoProcessStays` | `CallSpec => []NoProcessIsLeft` |

`NoProcessIsLeft` excuses calls lost with their worker, and the helpers of a call that its
child's own exit ended: those with pipes of their own always, those with the child's only
where the call does not wait for the pipes. It is not inductive without
`LostIsOver`: if such a call could still have its directory released, a failing removal
would turn "lost" into a defect of a call whose child is running. `NothingRunsEarly` is
why a failure before the start leaves nothing.

### `NewRunProofs`

Any locations, areas, numbers of requests and changes of the machine
(`NewRunAssumption`).

| Theorem | States |
|---|---|
| `NewRunInvariant` | `[]IInv` (2,556,743 states) |
| `RunsStayConfirmed` | `[]RunsAreConfirmed` |
| `RunsStaySound` | `[]RunsAreSound` |

A run is created several awaits after it was asked for, so `JobsOK` carries the claims
through the server's steps: what a request asks for was confirmed, and at its last step
its areas are those of its own location. `OneRunEach` is the idempotency of the creating
transaction.

### `ReviewDeskProofs`

Any businesses, statuses, numbers of scores, requests and readings (`DeskAssumption`).

| Theorem | States |
|---|---|
| `DeskInvariant` | `[]IInv` (1,556,706 states) |
| `QueueStaysEarned` | `[]QueueIsEarned` |
| `NotesAreCarried` | `NotesTravel` |
| `WhatIsSavedIsSeen` | `SavedIsSeen` |

`WorthOK` says what a score is worth whatever was suppressed and lifted since; with
`Greatest`, that a business with scores has a last one, it is the queue. The rest is about age. Every write of a review gives
it a later `at`; `CopiesOK` says that what is read or copied of a score is what is stored or
older (`Past`), and that a first reading is fresh; `RequestOK`, for each of the requests
under way by itself, that what is read after its change is not older than that change
(`Late`). So a second write beside the first needs no case of its own: the copy the first
one ends with is not older than the first, and is what is stored unless a later write came
between. `StoreMoves`, `CopiesMove` and `RequestsMove` say what any step may do to the three,
and each action is mapped to them.

### `EvaluationProofs`

Any finite set of listings with any contents, any runs and policies, any search results,
interruptions and decisions (`EvaluationAssumption`). That the listings are finite is what
a database gives; the counters are cardinalities.

| Theorem | States |
|---|---|
| `EvaluationInvariant` | `[]IInv` (770,464 states) |
| `BusinessesAreEvaluatedOnce` | `[]EvaluatedOnce` |
| `SuppressedStaysUnrecommended` | `[]SuppressedIsNotRecommended` |
| `MetricsStayTrue` | `[]MetricsAgree` |
| `EvidenceStaysFixed` | `EvidenceIsFixed` |

A stage that is interrupted after its commit starts again and meets its own rows, so the
invariant says by stage what has been written (`DoneOK`) and what a commit may find in
memory (`HeldOK`). A listing is `Live` once its evaluation lets it go on to inspection.
`OnceOK` is `EvaluatedOnce` moved to that moment: of the live listings of a run no two
are one business. That a live listing is not among the excluded keeps the count of
exclusions undisturbed by later stages.

### `OperationLockProofs`

For every number of processes, clients, deaths and failing writes that satisfies
`LockAssumption`:

| Theorem | Statement |
|---|---|
| `LockInvariant` | `Spec => []LockInv` |
| `LockTypes` | `Spec => []TypeOK` |
| `LockIsExclusive` | `Spec => []ExclusiveUntilCrash` |
| `OwnersKeepTheirFiles` | `Spec => []OwnerKeepsFile` |

Exclusion is not inductive: it follows from who created the file. `LockInv` says that
before the first death every process is in its first life, the file at the path is young
and its owner's, nobody has read a dead pid, and so nobody stands at the step that removes
a stale lock (`Quiet`); `NothingStale` is why none gets there. `OneOwner` is then
immediate: two owners would both have created the one file.

### Only model-checked

Every invariant, action property and refinement that a passing run checks is proved. What
stays with TLC:

* Liveness: `RunsSettle`, `ControlsAreHonoured`, `AttemptsEnd`, `EvaluationEnds`,
  `InspectionEnds`, `CallsEnd`, `AbandonedLockIsRemoved`. It rests on `ENABLED` and
  fairness, which are beyond this prover.
* The two claims that the code does not keep (`ResumedWorkIsClaimable` in
  `MCResumeExhausted`, `FoundWebsiteIsInspected` in `MCLostWebsite`): there is nothing to
  prove.

## 6. Not modelled

* The update of a runtime (a spawned installer), the preference file, and how each
  program's output is read: input and output around `RuntimeCall`.
* Configuration, the setup script and schema migrations: they run once, before anything
  else does.
* Parsing (archives, HTML, addresses, telephone numbers, geocoder answers, API requests)
  and the check of a runtime's answer against its evidence: pure functions that unit
  tests reach. Here they are the choice of their outcome.
* Compaction and storage figures, the overview's other figures, the evaluation fixtures:
  they change nothing the properties tell apart.
* Drafts of outreach, sorting and columns of the queue, layout.
* The rubric's arithmetic apart from its caps and its threshold; see the plan.
* The half of the browser's proxy that forwards plain HTTP (`pinned-http-proxy.ts:32-66`):
  `AskTunnel` is the `CONNECT` half. A plain request belongs to no set that `close` empties,
  so one may outlive the proxy until its own idle timeout; `NothingIsLeftOpen` does not
  speak of it.
* The picture that a stopped visit may have written already
  (`playwright-website-inspector.ts:377`): it belongs to no row.
* The `-wal` and `-shm` files beside the database, which a replacement removes
  (`workspace-backup-store.ts:442`): a database here is one file. Nor the `restore-next`
  copies that a failure before the `try` of `replaceWorkspace` leaves there (398-400,
  `StagingFails`): they have unique names and nothing looks at them.
* A presence whose address was first read as a mere page and is later named as the website:
  pages and the website are apart in `Evaluation`.
