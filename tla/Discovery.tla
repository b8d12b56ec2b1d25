----------------------------- MODULE Discovery -----------------------------
(***************************************************************************)
(* The two executors that give a run its businesses: discovery asks a      *)
(* subscription runtime for a report per planned query and records what    *)
(* the report supports (discover-businesses.ts), a reassessment carries    *)
(* businesses of earlier runs forward (seed-reassessment.ts); both write   *)
(* through sqlite-discovery-repository.ts, one transaction per operation.  *)
(*                                                                         *)
(* The module follows one run.  Between two operations the worker may die; *)
(* the run task is then claimed again while it has attempts left           *)
(* (RunExecution models that in full), and the executor starts from what   *)
(* the store holds, with a new `empty' count.                              *)
(***************************************************************************)
EXTENDS Naturals, Sequences, FiniteSetsExt, SequencesExt

CONSTANTS
    Business,       \* what a name and a locality normalise to
    Target,         \* targetCount of the Search Brief
    Limit,          \* queryLimit: Limit[mode] planned queries at most
    MaxClaims,      \* bound on the businesses a structure returns (40 in the schema)
    MaxAttempts,    \* max_attempts of the run task
    MaxCrashes      \* bound on the worker's deaths

ASSUME DiscoveryAssumption ==
    /\ Business # {} /\ IsFiniteSet(Business)
    /\ {Target, MaxAttempts} \subseteq Nat \ {0} /\ {MaxClaims, MaxCrashes} \subseteq Nat
    /\ Limit \in [{"Quick", "Thorough"} -> Nat \ {0}]

VARIABLES
    plan,      \* number of distinct queries; the queries are 1..plan
    carried,   \* businesses a reassessment names, << >> for a search
    task,      \* status and attempts of the run task
    step,      \* where the executor stands
    query,     \* the query its loop is at
    progress,  \* businesses it last saw in the store
    empty,     \* consecutiveEmptyReports
    claims,    \* what the structuring step returned
    found,     \* discovered_businesses of the run, in rank order
    pages,     \* discovery_queries of the run, in order of completion
    metrics,   \* run_metrics of the run
    result,    \* the checkpoint
    crashes

executor == <<step, query, progress, empty, claims>>
store == <<found, pages, metrics>>
vars == <<plan, carried, task, executor, store, result, crashes>>

Query == 1..Max({Limit[mode] : mode \in DOMAIN Limit})

\* A claim of the structure; it is cited when a source of it is a public address
\* that the report contains.
Claim == [business : Business, cited : BOOLEAN]
Page == [query : Query, returned : 0..MaxClaims, unique : 0..MaxClaims,
         duplicates : 0..MaxClaims]
NoResult == [tasks |-> << >>, completion |-> "none", exhausted |-> FALSE,
             repeated |-> FALSE]

Reassessment == carried # << >>

Init ==
    /\ \E mode \in DOMAIN Limit : plan \in 1..Limit[mode]
    /\ carried \in {<< >>} \cup {SetToSeq(S) : S \in SUBSET Business \ {{}}}
    /\ task = [status |-> "Pending", attempts |-> 0]
    /\ step = "idle" /\ query = 1 /\ progress = << >> /\ empty = 0 /\ claims = << >>
    /\ found = << >> /\ pages = << >>
    /\ metrics = [queries |-> 0, discoveries |-> 0, duplicates |-> 0]
    /\ result = NoResult /\ crashes = 0

-----------------------------------------------------------------------------
(* The store.                                                              *)

Completed == {pages[i].query : i \in DOMAIN pages}

\* verifyAgainstReport drops a claim without a cited source.
Verified(c) == c.cited

\* One turn of recordReport's loop: a business the run already holds, from an
\* earlier report or earlier in this one, counts as a duplicate; a new one takes
\* the next rank.
RecordOne(acc, c) ==
    IF ~Verified(c) THEN acc
    ELSE IF c.business \in ToSet(acc.found) THEN [acc EXCEPT !.duplicates = @ + 1]
    ELSE [acc EXCEPT !.found = Append(@, c.business), !.unique = @ + 1]

Recorded(held, cs) ==
    LET after[n \in 0..Len(cs)] ==
          IF n = 0 THEN [found |-> held, unique |-> 0, duplicates |-> 0]
          ELSE RecordOne(after[n - 1], cs[n])
    IN  after[Len(cs)]

\* Faulty: the metric counts what the report added instead of the run's businesses.
RecordReportCountsAdded ==
    LET new == Recorded(found, claims) IN
    /\ found' = new.found
    /\ pages' = Append(pages, [query |-> query, returned |-> Len(claims),
                               unique |-> new.unique, duplicates |-> new.duplicates])
    /\ metrics' = [queries |-> metrics.queries + 1, discoveries |-> new.unique,
                   duplicates |-> metrics.duplicates + new.duplicates]

\* The transaction: businesses, the page and the metrics change together; a page
\* that is already there stays as it is.
RecordReport ==
    IF query \in Completed THEN UNCHANGED store
    ELSE LET new == Recorded(found, claims) IN
         /\ found' = new.found
         /\ pages' = Append(pages, [query |-> query, returned |-> Len(claims),
                                    unique |-> new.unique, duplicates |-> new.duplicates])
         /\ metrics' = [queries |-> metrics.queries + 1, discoveries |-> Len(new.found),
                        duplicates |-> metrics.duplicates + new.duplicates]

-----------------------------------------------------------------------------
(* The search.                                                             *)

Claimable == task.status = "Pending" /\ task.attempts < MaxAttempts

\* The worker claims the task; getProgress reads the store.
BeginSearch ==
    /\ ~Reassessment /\ Claimable
    /\ task' = [status |-> "Leased", attempts |-> task.attempts + 1]
    /\ step' = "plan" /\ query' = 1 /\ progress' = found /\ empty' = 0
    /\ UNCHANGED <<plan, carried, claims, store, result, crashes>>

WantsMore == query <= plan /\ Len(progress) < Target

\* Faulty: the loop stays at the query it skips.
SkipCompletedStays ==
    /\ step = "plan" /\ WantsMore /\ query \in Completed
    /\ UNCHANGED vars

\* getCompletedPage: a query recorded by an earlier attempt is not asked again,
\* and does not count as an empty report.
SkipCompleted ==
    /\ step = "plan" /\ WantsMore /\ query \in Completed
    /\ query' = query + 1
    /\ UNCHANGED <<plan, carried, task, step, progress, empty, claims, store, result,
                   crashes>>

\* Faulty: every query is asked, also one an earlier attempt recorded.
AskAgain ==
    /\ step = "plan" /\ WantsMore
    /\ step' = "report"
    /\ UNCHANGED <<plan, carried, task, query, progress, empty, claims, store, result,
                   crashes>>

Ask ==
    /\ step = "plan" /\ WantsMore /\ query \notin Completed
    /\ step' = "report"
    /\ UNCHANGED <<plan, carried, task, query, progress, empty, claims, store, result,
                   crashes>>

\* runtime.report: a process that writes a readable, non-empty report.
ReportArrives ==
    /\ step = "report"
    /\ step' = "structure"
    /\ UNCHANGED <<plan, carried, task, query, progress, empty, claims, store, result,
                   crashes>>

\* runtime.structure: the report is structured into businesses by a second process.
StructureArrives ==
    /\ step = "structure"
    /\ \E cs \in BoundedSeq(Claim, MaxClaims) : claims' = cs
    /\ step' = "record"
    /\ UNCHANGED <<plan, carried, task, query, progress, empty, store, result, crashes>>

MaxConsecutiveEmptyReports == 2

\* Faulty: an empty report is not forgotten when a later one adds a business.
AfterReportCountsAll(unique) ==
    LET count == IF unique = 0 THEN empty + 1 ELSE empty IN
    /\ empty' = count
    /\ step' = IF count >= MaxConsecutiveEmptyReports THEN "finish" ELSE "plan"
    /\ query' = IF count >= MaxConsecutiveEmptyReports THEN query ELSE query + 1

AfterReport(unique) ==
    LET count == IF unique = 0 THEN empty + 1 ELSE 0 IN
    /\ empty' = count
    /\ step' = IF count >= MaxConsecutiveEmptyReports THEN "finish" ELSE "plan"
    /\ query' = IF count >= MaxConsecutiveEmptyReports THEN query ELSE query + 1

Record ==
    /\ step = "record"
    /\ RecordReport
    /\ progress' = found' /\ claims' = << >>
    /\ AfterReport(Len(found') - Len(found))
    /\ UNCHANGED <<plan, carried, task, result, crashes>>

LoopEnds ==
    /\ step = "plan" /\ ~WantsMore
    /\ step' = "finish"
    /\ UNCHANGED <<plan, carried, task, query, progress, empty, claims, store, result,
                   crashes>>

\* The checkpoint opens corroboration for every business of the run, in rank
\* order, or settles the run as Search Exhausted.
FinishSearch ==
    /\ step = "finish"
    /\ result' = [tasks |-> progress,
                  completion |-> IF progress = << >> THEN "Search Exhausted" ELSE "none",
                  exhausted |-> Len(progress) < Target,
                  repeated |-> empty >= MaxConsecutiveEmptyReports]
    /\ task' = [task EXCEPT !.status = "Completed"]
    /\ step' = "idle"
    /\ UNCHANGED <<plan, carried, query, progress, empty, claims, store, crashes>>

-----------------------------------------------------------------------------
(* The reassessment.                                                       *)

BeginSeed ==
    /\ Reassessment /\ Claimable
    /\ task' = [status |-> "Leased", attempts |-> task.attempts + 1]
    /\ step' = "carry"
    /\ UNCHANGED <<plan, carried, query, progress, empty, claims, store, result, crashes>>

\* carryForwardBusinesses: one transaction inserts the named businesses that have
\* a structured record (structured).  Records are written once and at most removed,
\* so what a later attempt would carry this run carries already: it violates the
\* unique index on its key and nothing is inserted.
CarryForward(structured) ==
    /\ step = "carry"
    /\ LET wanted == SelectSeq(carried, LAMBDA b : b \in structured) IN
       IF found # << >> \/ wanted = << >>
       THEN /\ task' = [task EXCEPT !.status = "FailedPermanent"]
            /\ step' = "idle"
            /\ UNCHANGED <<found, progress>>
       ELSE /\ found' = wanted /\ progress' = wanted
            /\ step' = "carried"
            /\ UNCHANGED task
    /\ UNCHANGED <<plan, carried, query, empty, claims, pages, metrics, result, crashes>>

FinishSeed ==
    /\ step = "carried"
    /\ result' = [NoResult EXCEPT !.tasks = progress]
    /\ task' = [task EXCEPT !.status = "Completed"]
    /\ step' = "idle"
    /\ UNCHANGED <<plan, carried, query, progress, empty, claims, store, crashes>>

-----------------------------------------------------------------------------
(* What goes wrong.                                                        *)

\* A runtime call fails: the process times out, writes too much or is rate limited,
\* its report is empty or its structure does not decode (Transient); it is missing,
\* not logged in, or exits with an error (Blocked).  No report is kept.
RuntimeFails ==
    /\ step \in {"report", "structure"}
    /\ \E class \in {"Transient", "Blocked"} :
          task' = [task EXCEPT !.status =
                      IF class = "Blocked" THEN "Blocked"
                      ELSE IF task.attempts < MaxAttempts THEN "Pending"
                      ELSE "FailedPermanent"]
    /\ step' = "idle" /\ claims' = << >>
    /\ UNCHANGED <<plan, carried, query, progress, empty, store, result, crashes>>

\* A store operation fails as Infrastructure; its transaction leaves nothing.
StoreFails ==
    /\ step \in {"plan", "record", "carry"}
    /\ task' = [task EXCEPT !.status = "FailedPermanent"]
    /\ step' = "idle" /\ claims' = << >>
    /\ UNCHANGED <<plan, carried, query, progress, empty, store, result, crashes>>

\* The user resumes a blocked run.
Resume ==
    /\ task.status = "Blocked"
    /\ task' = [task EXCEPT !.status = "Pending"]
    /\ UNCHANGED <<plan, carried, executor, store, result, crashes>>

\* The worker dies and another recovers the lease.
WorkerDies ==
    /\ step # "idle" /\ crashes < MaxCrashes
    /\ crashes' = crashes + 1
    /\ task' = [task EXCEPT !.status = IF task.attempts < MaxAttempts THEN "Pending"
                                       ELSE "FailedPermanent"]
    /\ step' = "idle" /\ query' = 1 /\ progress' = << >> /\ empty' = 0 /\ claims' = << >>
    /\ UNCHANGED <<plan, carried, store, result>>

Step ==
    \/ BeginSearch \/ SkipCompleted \/ Ask \/ ReportArrives \/ StructureArrives
    \/ Record \/ LoopEnds \/ FinishSearch
    \/ BeginSeed \/ (\E S \in SUBSET Business : CarryForward(S)) \/ FinishSeed
    \/ RuntimeFails

Next == Step \/ StoreFails \/ Resume \/ WorkerDies

\* The worker goes on polling and every runtime call ends, by its timeout at the
\* latest.  Nobody has to resume a blocked run.
Spec == Init /\ [][Next]_vars /\ WF_vars(Step)

-----------------------------------------------------------------------------
(* Properties.                                                             *)

SumOf(ps, field) ==
    LET sum[n \in 0..Len(ps)] == IF n = 0 THEN 0 ELSE sum[n - 1] + ps[n][field]
    IN  sum[Len(ps)]

\* The books of a search agree, also after crashes and retries: no business and
\* no query is recorded twice, and the metrics and the pages' counts are those of
\* the businesses (sqlite-discovery-repository.ts:63-269).
BooksAgree ==
    ~Reassessment =>
        /\ IsInjective(found) /\ Cardinality(Completed) = Len(pages)
        /\ metrics.queries = Len(pages)
        /\ metrics.discoveries = Len(found) /\ SumOf(pages, "unique") = Len(found)
        /\ metrics.duplicates = SumOf(pages, "duplicates")

\* A subscription search is bought only when it can help: never for a query whose
\* report is already stored, and never once the run holds its target
\* (discover-businesses.ts:63-72).
SearchesAreNeeded ==
    [][step' = "report" /\ step # "report" =>
          query \notin Completed /\ Len(found) < Target]_vars

\* The checkpoint covers the whole run, whatever attempt recorded a business, and
\* a search ends short of its target only when every query was recorded or this
\* attempt's last two reports added nothing; Search Exhausted is a run without a
\* business (discover-businesses.ts:108-130, seed-reassessment.ts:39-63).
CheckpointIsEarned ==
    task.status = "Completed" =>
        /\ result.tasks = found
        /\ (result.completion = "Search Exhausted") = (found = << >>)
        /\ ~Reassessment => \/ Len(found) >= Target
                            \/ Completed = 1..plan
                            \/ /\ result.repeated
                               /\ \A i \in {Len(pages) - 1, Len(pages)} : pages[i].unique = 0

\* A claimed run task does not stay in progress for ever: its loop advances, past
\* reports of earlier attempts too, and every attempt ends
\* (discover-businesses.ts:63-106).
AttemptsEnd == task.status = "Leased" ~> task.status # "Leased"
=============================================================================
