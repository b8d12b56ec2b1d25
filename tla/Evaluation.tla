---------------------------- MODULE Evaluation ----------------------------
(***************************************************************************)
(* What happens to a discovered business: corroboration decides which      *)
(* canonical business it is (sqlite-identity-repository.ts), its website   *)
(* is inspected or its absence confirmed, a runtime assesses the evidence, *)
(* and the assessment is scored; a reviewer may suppress the business or   *)
(* lift the suppression at any time.                                       *)
(*                                                                         *)
(* The listings of one or more runs are worked on side by side.  A stage   *)
(* is cut where the worker may be interrupted: before its commit, between  *)
(* its commit and its checkpoint, and after.  An interrupted stage is      *)
(* claimed again and meets what it committed itself.                       *)
(*                                                                         *)
(* A telephone, a page and the website are tokens; a canonical business is *)
(* named by the fingerprint it was created with, which is unique.          *)
(***************************************************************************)
EXTENDS Integers, FiniteSetsExt, SequencesExt

CONSTANTS
    Listing,        \* discovered businesses
    Run,
    Phone,          \* subscriber numbers: contact routes with a match key
    Page,           \* directory pages and social profiles
    Site,           \* the only website
    NoBusiness,     \* null
    Worlds,         \* what discovery may have recorded of the listings, and in which runs
    Findings,       \* what a confirming search may report of it
    Severities,     \* severity of an assessment's worst opportunity; 0 if it has none
    Extras,         \* score from measured defects and commercial value
    MaxInterrupts,  \* bound on interrupted stages
    MaxDecisions    \* bound on suppressions and their lifting

Scope == {"Local", "Ambiguous", "Central"}
\* websiteUrl is set and a presence of type Website repeats it, or it is only set.
Website == {"listed", "unlisted", "none"}
Policy == {"Skip", "IncludeWithoutReassessment", "Reassess"}

ASSUME EvaluationAssumption ==
    /\ \A w \in Worlds :
          /\ w.content \in [Listing -> [scope : Scope, phones : Seq(Phone),
                                       website : Website, pages : SUBSET Page]]
          /\ w.runOf \in [Listing -> Run] /\ w.policy \in [Run -> Policy]
    /\ Findings \subseteq [phones : Seq(Phone), website : Website, pages : SUBSET Page]
    /\ Severities \subseteq 0..5 /\ Extras \subseteq 0..20
    /\ {MaxInterrupts, MaxDecisions} \subseteq Nat
    /\ IsFiniteSet(Listing)

VARIABLES
    content,     \* discovered_businesses.structured
    runOf,       \* the run that found the listing
    policy,      \* recentBusinessPolicy of the run
    task,        \* the listing's task: its stage, its step, and its input
    held,        \* what the stage has in memory
    canonical,   \* canonical_businesses: fingerprint -> decision scope
    assessed,    \* businesses with a last_assessed_at, all within 30 days
    row,         \* run_businesses of the listing
    contacts,    \* contact_routes of the listing
    presences,   \* online_presences of the listing
    inspection,  \* website_inspections by inspection task: 1, and 2 after a search
    assessment,  \* website_assessments of the listing
    score,       \* candidate_scores of the listing
    suppressed,  \* suppression_entries
    metrics,     \* run_metrics
    siteFound,   \* listings whose confirming search found a website
    interrupts, decisions

given == <<content, runOf, policy>>
work == <<task, held>>
identity == <<canonical, row, contacts, presences>>
evidence == <<inspection, assessment, score>>
review == <<suppressed, decisions>>
vars == <<given, work, identity, assessed, evidence, review, metrics, siteFound, interrupts>>

Fingerprint == Phone \cup {Site} \cup Listing
None == [kind |-> "none"]
Excluded == {"Ambiguous", "Excluded", "SkippedRecent", "DuplicateCandidate"}

Init ==
    /\ \E w \in Worlds : content = w.content /\ runOf = w.runOf /\ policy = w.policy
    /\ task = [l \in Listing |-> [stage |-> "Corroborate", step |-> "ready", round |-> 1]]
    /\ held = [l \in Listing |-> None]
    /\ canonical = << >> /\ assessed = {}
    /\ row = [l \in Listing |-> [business |-> NoBusiness, status |-> "none"]]
    /\ contacts = [l \in Listing |-> {}] /\ presences = [l \in Listing |-> {}]
    /\ inspection = [l \in Listing |-> <<"none", "none">>]
    /\ assessment = [l \in Listing |-> None] /\ score = [l \in Listing |-> None]
    /\ suppressed = {} /\ siteFound = {}
    /\ metrics = [r \in Run |-> [exclusions |-> 0, websites |-> 0, blocked |-> 0,
                                 assessments |-> 0, qualified |-> 0]]
    /\ interrupts = 0 /\ decisions = 0

At(l, stage, step) == task[l].stage = stage /\ task[l].step = step
Holds(l, value) ==
    /\ task' = [task EXCEPT ![l].step = "called"]
    /\ held' = [held EXCEPT ![l] = value]
Commits(l, next, round) ==
    /\ task' = [task EXCEPT ![l].step = "committed"]
    /\ held' = [held EXCEPT ![l] = [kind |-> "next", stage |-> next, round |-> round]]

-----------------------------------------------------------------------------
(* Corroboration.                                                          *)

\* confirmContactRoutes: a local business without a contact route is searched for.
NeedsContact(c) == c.phones = << >> /\ c.scope = "Local"
Merged(c, found) ==
    [c EXCEPT !.phones = found.phones, !.pages = @ \cup found.pages,
              !.website = IF "listed" \in {c.website, found.website} THEN "listed"
                          ELSE IF c.website = "none" THEN found.website ELSE c.website]

Corroborate(l) ==
    /\ At(l, "Corroborate", "ready")
    /\ \/ ~NeedsContact(content[l]) /\ Holds(l, content[l])
       \/ NeedsContact(content[l])
          /\ \E found \in Findings : Holds(l, Merged(content[l], found))
    /\ UNCHANGED <<given, identity, assessed, evidence, review, metrics, siteFound, interrupts>>

\* evaluateBusinessIdentity and the fingerprint: the first telephone, else the
\* website, else the name; an ambiguous business has none.
EvaluatedStatus(c) ==
    IF c.scope = "Ambiguous" THEN "Ambiguous"
    ELSE IF c.scope = "Central" \/ c.phones = << >> THEN "Excluded" ELSE "Eligible"
FingerprintOf(l, c) ==
    IF c.phones # << >> THEN Head(c.phones)
    ELSE IF c.website # "none" THEN Site ELSE l
MatchKeys(c) == ToSet(c.phones) \cup (IF c.website = "listed" THEN {Site} ELSE {})

\* upsertCanonical: by fingerprint, else by any route some business carries, the
\* first the query returns, else a new business with the listing's scope.
ByRoute(c) == {row[m].business : m \in {n \in Listing : row[n].business # NoBusiness
                   /\ MatchKeys(c) \cap (contacts[n] \cup (presences[n] \cap {Site})) # {}}}
CanonicalOf(l, c) ==
    LET fp == FingerprintOf(l, c) IN
    IF c.scope = "Ambiguous" THEN {NoBusiness}
    ELSE IF fp \in DOMAIN canonical \/ ByRoute(c) = {} THEN {fp} ELSE ByRoute(c)

\* Faulty: only listings that were found eligible count.
IsDuplicateOfEligible(l, b) ==
    \E m \in Listing \ {l} : runOf[m] = runOf[l] /\ row[m].business = b /\ row[m].status = "Eligible"

\* Another listing of the run, whatever became of it, already is this business.
IsDuplicate(l, b) ==
    \E m \in Listing \ {l} : runOf[m] = runOf[l] /\ row[m].business = b /\ b # NoBusiness

StatusOf(l, c, b) ==
    LET known == policy[runOf[l]] IN
    IF EvaluatedStatus(c) # "Eligible" THEN EvaluatedStatus(c)
    ELSE IF FingerprintOf(l, c) \in suppressed THEN "Excluded"
    ELSE IF IsDuplicate(l, b) THEN "DuplicateCandidate"
    ELSE IF b \in assessed /\ known = "Skip" THEN "SkippedRecent"
    ELSE IF b \in assessed /\ known = "IncludeWithoutReassessment" THEN "IncludedRecent"
    ELSE "Eligible"

ExcludedIn(rows, r) == Cardinality({m \in Listing : runOf[m] = r /\ rows[m].status \in Excluded})

CommitEvaluation(l) ==
    /\ At(l, "Corroborate", "called")
    /\ LET c == held[l] IN
       \E b \in CanonicalOf(l, c) :
          /\ canonical' = IF b = NoBusiness THEN canonical
                          ELSE canonical @@ (b :> c.scope)
          /\ row' = [row EXCEPT ![l] = [business |-> b, status |-> StatusOf(l, c, b)]]
          /\ presences' = [presences EXCEPT ![l] =
                 c.pages \cup (IF c.website = "listed" THEN {Site} ELSE {})]
          /\ contacts' = IF b = NoBusiness THEN contacts
                         ELSE [contacts EXCEPT ![l] = ToSet(c.phones)]
          /\ Commits(l, IF row'[l].status = "Eligible" THEN "Inspect" ELSE "Done", 1)
    /\ metrics' = [metrics EXCEPT ![runOf[l]].exclusions = ExcludedIn(row', runOf[l])]
    /\ UNCHANGED <<given, assessed, evidence, review, siteFound, interrupts>>

-----------------------------------------------------------------------------
(* Inspection.                                                             *)

\* A website among the listing's presences is inspected; without one there is
\* nothing to open.
Inspect(l) ==
    /\ At(l, "Inspect", "ready")
    /\ \E status \in IF Site \in presences[l] THEN {"Complete", "Partial", "Blocked"}
                     ELSE {"NoWebsite"} : Holds(l, [kind |-> "inspected", status |-> status])
    /\ UNCHANGED <<given, identity, assessed, evidence, review, metrics, siteFound, interrupts>>

RowStatus == [Complete |-> "Inspected", Partial |-> "InspectionPartial",
              Blocked |-> "InspectionBlocked", NoWebsite |-> "NoWebsite"]

InspectionsIn(r, statuses) ==
    Cardinality({p \in Listing \X {1, 2} : runOf[p[1]] = r /\ inspection[p[1]][p[2]] \in statuses})

\* Faulty: a retry replaces the inspection it committed before.
StoreInspectionAgain(l, k, status) ==
    /\ inspection' = [inspection EXCEPT ![l][k] = status]
    /\ row' = [row EXCEPT ![l].status = RowStatus[status]]
    /\ UNCHANGED metrics

\* One inspection per task: a retry keeps the one it committed before, and goes
\* on by what it saw itself.
StoreInspection(l, k, status) ==
    IF inspection[l][k] # "none" THEN UNCHANGED <<inspection, row, metrics>>
    ELSE /\ inspection' = [inspection EXCEPT ![l][k] = status]
         /\ row' = [row EXCEPT ![l].status = RowStatus[status]]
         /\ LET seen == {"Complete", "Partial", "Blocked"} \cap {status}
                bad == {"Partial", "Blocked"} \cap {status} IN
            metrics' = [metrics EXCEPT
                ![runOf[l]].websites = InspectionsIn(runOf[l], {"Complete", "Partial", "Blocked"})
                                       + Cardinality(seen),
                ![runOf[l]].blocked = InspectionsIn(runOf[l], {"Partial", "Blocked"})
                                      + Cardinality(bad)]

CommitInspection(l) ==
    /\ At(l, "Inspect", "called")
    /\ StoreInspection(l, task[l].round, held[l].status)
    /\ Commits(l, IF held[l].status = "NoWebsite" THEN "Confirm" ELSE "Assess", task[l].round)
    /\ UNCHANGED <<given, canonical, contacts, presences, assessed, assessment, score, review,
                   siteFound, interrupts>>

-----------------------------------------------------------------------------
(* Confirming an absent website.                                           *)

\* Distinct pages about the business, of every run.
Sources(b) == UNION {presences[m] : m \in {n \in Listing : row[n].business = b}}
Corroborated(b) == Cardinality(Sources(b)) >= 2
Settled(l) == Corroborated(row[l].business) \/ task[l].round = 2

ConfirmSettled(l) ==
    /\ At(l, "Confirm", "ready") /\ Settled(l)
    /\ Commits(l, "Assess", task[l].round)
    /\ UNCHANGED <<given, identity, assessed, evidence, review, metrics, siteFound, interrupts>>

SearchWebsite(l) ==
    /\ At(l, "Confirm", "ready") /\ ~Settled(l)
    /\ \E found \in Findings : Holds(l, [kind |-> "found", pages |-> found.pages,
                                         website |-> found.website])
    /\ UNCHANGED <<given, identity, assessed, evidence, review, metrics, siteFound, interrupts>>

\* Faulty: the second inspection loses the marker of the first confirmation.
AfterConfirmationUnmarked(l, found) ==
    IF found.website = "none" THEN Commits(l, "Assess", task[l].round)
    ELSE Commits(l, "Inspect", 1)

\* A website that was found sends the business back to inspection.
AfterConfirmation(l, found) ==
    IF found.website = "none" THEN Commits(l, "Assess", task[l].round)
    ELSE Commits(l, "Inspect", 2)

\* The pages the search read become presences; the website only when it is one
\* of them. A row that is there stays (`on conflict do nothing'), which the union
\* says; that the website's own address could be there as a mere page, and keep
\* that type, is left out: Page and Site are apart.
CommitConfirmation(l) ==
    /\ At(l, "Confirm", "called")
    /\ presences' = [presences EXCEPT ![l] = @ \cup held[l].pages
                         \cup (IF held[l].website = "listed" THEN {Site} ELSE {})]
    /\ siteFound' = IF held[l].website # "none" THEN siteFound \cup {l} ELSE siteFound
    /\ AfterConfirmation(l, held[l])
    /\ UNCHANGED <<given, canonical, row, contacts, assessed, evidence, review, metrics,
                   interrupts>>

-----------------------------------------------------------------------------
(* Assessment and score.                                                   *)

\* The evidence is loaded, unless the business is suppressed by now, and a
\* runtime judges it.
Assess(l) ==
    /\ At(l, "Assess", "ready")
    /\ IF row[l].business \in suppressed
       THEN /\ task' = [task EXCEPT ![l].stage = "Failed"]
            /\ UNCHANGED held
       ELSE \E severity \in Severities, extra \in Extras :
               Holds(l, [kind |-> "assessed", round |-> task[l].round,
                         severity |-> severity, extra |-> extra])
    /\ UNCHANGED <<given, identity, assessed, evidence, review, metrics, siteFound, interrupts>>

\* Faulty: a retry stores and counts its own assessment too.
CommitAssessmentAgain(l) ==
    /\ At(l, "Assess", "called")
    /\ assessment' = [assessment EXCEPT ![l] = held[l]]
    /\ assessed' = assessed \cup {row[l].business}
    /\ row' = [row EXCEPT ![l].status = "Assessed"]
    /\ metrics' = [metrics EXCEPT ![runOf[l]].assessments = @ + 1]
    /\ Commits(l, "Score", task[l].round)
    /\ UNCHANGED <<given, canonical, contacts, presences, inspection, score, review, siteFound,
                   interrupts>>

CommitAssessment(l) ==
    /\ At(l, "Assess", "called")
    /\ IF assessment[l] # None THEN UNCHANGED <<assessment, assessed, row, metrics>>
       ELSE /\ assessment' = [assessment EXCEPT ![l] = held[l]]
            /\ assessed' = assessed \cup {row[l].business}
            /\ row' = [row EXCEPT ![l].status = "Assessed"]
            /\ metrics' = [metrics EXCEPT ![runOf[l]].assessments = @ + 1]
    /\ Commits(l, "Score", task[l].round)
    /\ UNCHANGED <<given, canonical, contacts, presences, inspection, score, review, siteFound,
                   interrupts>>

\* cappedSeverity and calculateOpportunityScore, for the stored assessment.
Total(l) ==
    LET a == assessment[l]
        state == inspection[l][a.round]
        capped == state = "Blocked" \/ (state = "NoWebsite" /\ ~Corroborated(row[l].business))
        severity == IF capped /\ a.severity > 4 THEN 4 ELSE a.severity
    IN  11 * severity + (IF contacts[l] # {} THEN 15 ELSE 0)
        + (IF canonical[row[l].business] = "Local" THEN 10 ELSE 0) + a.extra

ReviewQueueThreshold == 72
Deserves(l, total) ==
    total >= ReviewQueueThreshold /\ assessment[l].severity > 0 /\ contacts[l] # {}
QualifiedIn(r) == Cardinality({m \in Listing : runOf[m] = r /\ score'[m] # None
                                                /\ score'[m].qualified})

\* Faulty: the score does not look for a suppression.
ScoreBlindly(l) ==
    /\ At(l, "Score", "ready")
    /\ IF score[l] # None THEN UNCHANGED <<score, row, metrics>>
       ELSE /\ score' = [score EXCEPT ![l] = [kind |-> "score", total |-> Total(l),
                                              qualified |-> Deserves(l, Total(l))]]
            /\ row' = [row EXCEPT ![l].status =
                  IF score'[l].qualified THEN "Candidate" ELSE "BelowThreshold"]
            /\ metrics' = [metrics EXCEPT ![runOf[l]].qualified = QualifiedIn(runOf[l])]
    /\ Commits(l, "Done", task[l].round)
    /\ UNCHANGED <<given, canonical, contacts, presences, assessed, inspection, assessment,
                   review, siteFound, interrupts>>

Score(l) ==
    /\ At(l, "Score", "ready")
    /\ IF score[l] # None THEN UNCHANGED <<score, row, metrics>>
       ELSE /\ score' = [score EXCEPT ![l] = [kind |-> "score", total |-> Total(l),
                  qualified |-> Deserves(l, Total(l)) /\ row[l].business \notin suppressed]]
            /\ row' = [row EXCEPT ![l].status =
                  IF score'[l].qualified THEN "Candidate" ELSE "BelowThreshold"]
            /\ metrics' = [metrics EXCEPT ![runOf[l]].qualified = QualifiedIn(runOf[l])]
    /\ Commits(l, "Done", task[l].round)
    /\ UNCHANGED <<given, canonical, contacts, presences, assessed, inspection, assessment,
                   review, siteFound, interrupts>>

-----------------------------------------------------------------------------
(* Tasks and reviewers.                                                    *)

\* The checkpoint opens the next stage in the same transaction.
Checkpoint(l) ==
    /\ task[l].step = "committed"
    /\ task' = [task EXCEPT ![l] = [stage |-> held[l].stage, step |-> "ready",
                                    round |-> held[l].round]]
    /\ held' = [held EXCEPT ![l] = None]
    /\ UNCHANGED <<given, identity, assessed, evidence, review, metrics, siteFound, interrupts>>

\* The stage fails for good: its attempts are spent, or the failure is permanent.
Fail(l) ==
    /\ task[l].step = "called"
    /\ task' = [task EXCEPT ![l].stage = "Failed", ![l].step = "ready"]
    /\ held' = [held EXCEPT ![l] = None]
    /\ UNCHANGED <<given, identity, assessed, evidence, review, metrics, siteFound, interrupts>>

\* The worker dies, the settlement is lost, or the stage fails for now: the task
\* is claimed again.
Interrupt(l) ==
    /\ task[l].step \in {"called", "committed"} /\ interrupts < MaxInterrupts
    /\ interrupts' = interrupts + 1
    /\ task' = [task EXCEPT ![l].step = "ready"]
    /\ held' = [held EXCEPT ![l] = None]
    /\ UNCHANGED <<given, identity, assessed, evidence, review, metrics, siteFound>>

ScoresOf(b) == {m \in Listing : score[m] # None /\ row[m].business = b}

\* suppressCandidate: the business's scores lose their qualification.
Suppress(l) ==
    /\ score[l] # None /\ decisions < MaxDecisions
    /\ LET b == row[l].business IN
       /\ suppressed' = suppressed \cup {b}
       /\ score' = [m \in Listing |-> IF m \in ScoresOf(b)
                                      THEN [score[m] EXCEPT !.qualified = FALSE] ELSE score[m]]
    /\ decisions' = decisions + 1
    /\ UNCHANGED <<given, work, identity, assessed, inspection, assessment, metrics, siteFound,
                   interrupts>>

\* liftCandidateSuppression: qualification is computed again from the stored
\* totals and evidence.
Lift(b) ==
    /\ b \in suppressed /\ decisions < MaxDecisions
    /\ suppressed' = suppressed \ {b}
    /\ score' = [m \in Listing |->
          IF m \in ScoresOf(b)
          THEN [score[m] EXCEPT !.qualified = Deserves(m, score[m].total)] ELSE score[m]]
    /\ row' = [m \in Listing |->
          IF m \in ScoresOf(b)
          THEN [row[m] EXCEPT !.status =
                   IF score'[m].qualified THEN "Candidate" ELSE "BelowThreshold"]
          ELSE row[m]]
    /\ decisions' = decisions + 1
    /\ UNCHANGED <<given, work, canonical, contacts, presences, assessed, inspection,
                   assessment, metrics, siteFound, interrupts>>

Stage(l) ==
    \/ Corroborate(l) \/ CommitEvaluation(l)
    \/ Inspect(l) \/ CommitInspection(l)
    \/ ConfirmSettled(l) \/ SearchWebsite(l) \/ CommitConfirmation(l)
    \/ Assess(l) \/ CommitAssessment(l) \/ Score(l)
    \/ Checkpoint(l)

Next ==
    \/ \E l \in Listing : Stage(l) \/ Fail(l) \/ Interrupt(l) \/ Suppress(l)
    \/ \E b \in Fingerprint : Lift(b)

\* The worker polls for ever and each of its calls ends.
Spec == Init /\ [][Next]_vars /\ \A l \in Listing : WF_vars(Stage(l))

-----------------------------------------------------------------------------
(* Properties.                                                             *)

\* In one run a canonical business is evaluated through one listing at most, in
\* whatever order its listings are corroborated, also when a corroboration is
\* retried (sqlite-identity-repository.ts:111-142).
EvaluatedOnce ==
    \A l, m \in Listing :
        l # m /\ runOf[l] = runOf[m] /\ row[l].business = row[m].business
              /\ row[l].business # NoBusiness
        => "none" \in {inspection[l][1], inspection[m][1]}

\* A suppressed business is recommended by no score, neither by one that existed
\* nor by one of a stage that was under way (score-candidate.ts:74-86,
\* suppress-candidate.ts:24-42).
SuppressedIsNotRecommended ==
    \A l \in Listing : score[l] # None /\ score[l].qualified => row[l].business \notin suppressed

Recounted(r, P(_)) == Cardinality({l \in Listing : runOf[l] = r /\ P(l)})

\* The run's counters are what its rows say, with every stage retried after its
\* own commit; qualified candidates while no reviewer has interfered
\* (sqlite-identity-repository.ts:395-412, sqlite-inspection-repository.ts:185-199,
\* sqlite-assessment-repository.ts:253-257, score-candidate.ts:114-121).
MetricsAgree ==
    \A r \in Run :
        /\ metrics[r].exclusions = Recounted(r, LAMBDA l : row[l].status \in Excluded)
        /\ metrics[r].websites = InspectionsIn(r, {"Complete", "Partial", "Blocked"})
        /\ metrics[r].blocked = InspectionsIn(r, {"Partial", "Blocked"})
        /\ metrics[r].assessments = Recounted(r, LAMBDA l : assessment[l] # None)
        /\ decisions = 0 => metrics[r].qualified =
               Recounted(r, LAMBDA l : score[l] # None /\ score[l].qualified)

\* What a reader was shown does not change under a retry: an inspection, an
\* assessment and a total stay as first committed, and a score rests on the
\* assessment stored for its listing (sqlite-inspection-repository.ts:74-77,
\* sqlite-assessment-repository.ts:190-193, score-candidate.ts:30-44).
EvidenceIsFixed ==
    [][\A l \in Listing :
          /\ \A k \in {1, 2} : inspection[l][k] # "none" => inspection'[l][k] = inspection[l][k]
          /\ assessment[l] # None => assessment'[l] = assessment[l]
          /\ score[l] # None => score'[l].total = score[l].total]_vars

\* Every listing's evaluation ends: confirming an absence and inspecting what the
\* search found do not take turns for ever (confirm-absent-website.ts:33-43).
EvaluationEnds == \A l \in Listing : <>(task[l].stage \in {"Done", "Failed"})

\* A website that a confirming search found is inspected, not scored as absent
\* (docs/adr/0018-confirm-an-absent-website-by-search.md:40).
FoundWebsiteIsInspected ==
    \A l \in siteFound : score[l] # None => inspection[l][assessment[l].round] # "NoWebsite"
=============================================================================
