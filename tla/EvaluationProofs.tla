-------------------------- MODULE EvaluationProofs --------------------------
(***************************************************************************)
(* Proofs about the evaluation of businesses: one listing at most stands   *)
(* for a business in a run, no score recommends what is suppressed, the    *)
(* run's counters are what its rows say, and evidence stays as committed.  *)
(*                                                                         *)
(* The inductive invariant says for each listing what the stage it is at   *)
(* implies of the rows it has written, since an interrupted stage starts   *)
(* again and meets its own rows.  A listing is live once its evaluation    *)
(* lets it go on to inspection.  A live listing is not among the excluded  *)
(* ones, so that no later stage disturbs the count of exclusions, and no   *)
(* two live listings of a run are one business.                            *)
(***************************************************************************)
EXTENDS Evaluation, FiniteSetTheorems, TLAPS

Stages == {"Corroborate", "Inspect", "Confirm", "Assess", "Score", "Done", "Failed"}
Rounds == {1, 2}
Task == [stage : Stages, step : {"ready", "called", "committed"}, round : Rounds]
Content == [scope : Scope, phones : Seq(Phone), website : Website, pages : SUBSET Page]
Status == {"none", "Ambiguous", "Excluded", "DuplicateCandidate", "SkippedRecent",
           "IncludedRecent", "Eligible", "Inspected", "InspectionPartial",
           "InspectionBlocked", "NoWebsite", "Assessed", "Candidate", "BelowThreshold"}
Row == [business : Fingerprint \cup {NoBusiness}, status : Status]
Inspected == {"Complete", "Partial", "Blocked", "NoWebsite"}
AnyAssessment == [kind : {"assessed"}, round : Rounds, severity : 0 .. 5, extra : 0 .. 20]
AnyScore == [kind : {"score"}, total : Int, qualified : BOOLEAN]
Books == [exclusions : Nat, websites : Nat, blocked : Nat, assessments : Nat, qualified : Nat]

TypeOK ==
    /\ content \in [Listing -> Content] /\ runOf \in [Listing -> Run]
    /\ task \in [Listing -> Task] /\ DOMAIN held = Listing
    /\ row \in [Listing -> Row]
    /\ inspection \in [Listing -> [Rounds -> Inspected \cup {"none"}]]
    /\ assessment \in [Listing -> AnyAssessment \cup {None}]
    /\ score \in [Listing -> AnyScore \cup {None}]
    /\ metrics \in [Run -> Books] /\ decisions \in Nat

\* Where each stage may send its listing.
After == [Corroborate |-> {"Inspect", "Done"}, Inspect |-> {"Confirm", "Assess"},
          Confirm |-> {"Assess", "Inspect"}, Assess |-> {"Score"}, Score |-> {"Done"}]

\* What a stage has in memory is what its commit and its checkpoint expect.
HeldOK(l) ==
    /\ At(l, "Corroborate", "called") => held[l] \in Content
    /\ At(l, "Inspect", "called") => held[l].status \in Inspected
    /\ At(l, "Assess", "called") => held[l] \in AnyAssessment
    /\ task[l].step # "ready" => task[l].stage \in DOMAIN After
    /\ task[l].step = "committed" =>
         held[l].stage \in After[task[l].stage] /\ held[l].round \in Rounds

IsInspected(l) == inspection[l][1] # "none"

\* What the stages a listing is past have left behind; nothing is assessed or
\* scored that was not inspected.
DoneOK(l) ==
    /\ task[l].stage = "Corroborate" =>
         ~IsInspected(l) /\ (task[l].step = "committed" => held[l].round = 1)
    /\ task[l].stage = "Inspect" =>
         IsInspected(l) \/ (task[l].round = 1 /\ task[l].step # "committed")
    /\ task[l].stage \in {"Confirm", "Assess", "Score"} => IsInspected(l)
    /\ task[l].stage = "Score" => assessment[l] # None
    /\ At(l, "Assess", "committed") => assessment[l] # None
    /\ assessment[l] # None \/ score[l] # None => IsInspected(l)

\* Evaluation let the listing go on to inspection.
Live(l) ==
    \/ IsInspected(l) \/ task[l].stage = "Inspect"
    \/ At(l, "Corroborate", "committed") /\ held[l].stage = "Inspect"

ListingOK(l) ==
    /\ HeldOK(l) /\ DoneOK(l)
    /\ Live(l) => row[l].status \notin Excluded

OnceOK ==
    \A l, m \in Listing :
        l # m /\ runOf[l] = runOf[m] /\ row[l].business = row[m].business
              /\ row[l].business # NoBusiness
        => ~Live(l) \/ ~Live(m)

IInv ==
    /\ TypeOK
    /\ \A l \in Listing : ListingOK(l)
    /\ OnceOK /\ SuppressedIsNotRecommended /\ MetricsAgree

-----------------------------------------------------------------------------
(* Tasks and what they hold.                                               *)

\* Only the task of l and what it holds change.
Works(l) ==
    /\ task' \in [Listing -> Task] /\ DOMAIN held' = Listing
    /\ \A m \in Listing \ {l} : task'[m] = task[m] /\ held'[m] = held[m]

LEMMA WorksOn ==
    ASSUME TypeOK, NEW l \in Listing, NEW value, NEW stage \in Stages,
           NEW step \in {"ready", "called", "committed"}, NEW round \in Rounds,
           task' = [task EXCEPT ![l] = [stage |-> stage, step |-> step, round |-> round]],
           held' = [held EXCEPT ![l] = value]
    PROVE  /\ Works(l) /\ held'[l] = value
           /\ task'[l].stage = stage /\ task'[l].step = step /\ task'[l].round = round
<1> DEFINE t == [stage |-> stage, step |-> step, round |-> round]
<1>1. t \in Task /\ t.stage = stage /\ t.step = step /\ t.round = round
  BY DEF Task
<1>2. task' = [task EXCEPT ![l] = t]
  OBVIOUS
<1> HIDE DEF t
<1>3. task \in [Listing -> Task] /\ DOMAIN held = Listing
  BY DEF TypeOK
<1>4. task' \in [Listing -> Task] /\ task'[l] = t /\ \A m \in Listing \ {l} : task'[m] = task[m]
  BY <1>1, <1>2, <1>3
<1>5. DOMAIN held' = Listing /\ held'[l] = value /\ \A m \in Listing \ {l} : held'[m] = held[m]
  BY <1>3
<1> QED
  BY <1>1, <1>4, <1>5 DEF Works

\* A stage that called, or that committed, is where it was.
LEMMA Stepped ==
    ASSUME TypeOK, NEW l \in Listing, NEW value, NEW step \in {"ready", "called", "committed"},
           task' = [task EXCEPT ![l].step = step], held' = [held EXCEPT ![l] = value]
    PROVE  /\ Works(l) /\ held'[l] = value /\ task'[l].step = step
           /\ task'[l].stage = task[l].stage /\ task'[l].round = task[l].round
<1> DEFINE t == [task[l] EXCEPT !.step = step]
<1>1. task \in [Listing -> Task] /\ task[l] \in Task /\ DOMAIN held = Listing
  BY DEF TypeOK
<1>2. /\ t \in Task /\ t.step = step /\ t.stage = task[l].stage
      /\ t.round = task[l].round
  BY <1>1 DEF Task
<1>3. task' = [task EXCEPT ![l] = t]
  BY <1>1
<1> HIDE DEF t
<1>4. task' \in [Listing -> Task] /\ task'[l] = t /\ \A m \in Listing \ {l} : task'[m] = task[m]
  BY <1>1, <1>2, <1>3
<1>5. DOMAIN held' = Listing /\ held'[l] = value /\ \A m \in Listing \ {l} : held'[m] = held[m]
  BY <1>1
<1> QED
  BY <1>2, <1>4, <1>5 DEF Works

LEMMA HoldsFacts ==
    ASSUME TypeOK, NEW l \in Listing, NEW value, Holds(l, value)
    PROVE  /\ Works(l) /\ held'[l] = value /\ task'[l].step = "called"
           /\ task'[l].stage = task[l].stage /\ task'[l].round = task[l].round
  BY Stepped DEF Holds

LEMMA CommitsFacts ==
    ASSUME TypeOK, NEW l \in Listing, NEW next, NEW round, Commits(l, next, round)
    PROVE  /\ Works(l) /\ held'[l].stage = next /\ held'[l].round = round
           /\ task'[l].step = "committed"
           /\ task'[l].stage = task[l].stage /\ task'[l].round = task[l].round
<1> DEFINE value == [kind |-> "next", stage |-> next, round |-> round]
<1>1. value.stage = next /\ value.round = round
  OBVIOUS
<1>2. task' = [task EXCEPT ![l].step = "committed"] /\ held' = [held EXCEPT ![l] = value]
  BY DEF Commits
<1> HIDE DEF value
<1> QED
  BY <1>1, <1>2, Stepped

-----------------------------------------------------------------------------
(* What a step of one listing leaves of the others.                        *)

\* What the counters of a run count.
ExcludedOf(r) == {l \in Listing : runOf[l] = r /\ row[l].status \in Excluded}
AssessedOf(r) == {l \in Listing : runOf[l] = r /\ assessment[l] # None}
QualifiedOf(r) == {l \in Listing : runOf[l] = r /\ (score[l] # None /\ score[l].qualified)}
VisitsOf(r, statuses) ==
    {p \in Listing \X {1, 2} : runOf[p[1]] = r /\ inspection[p[1]][p[2]] \in statuses}

CountsOK(r) ==
    /\ metrics[r].exclusions = Cardinality(ExcludedOf(r))
    /\ metrics[r].assessments = Cardinality(AssessedOf(r))
    /\ decisions = 0 => metrics[r].qualified = Cardinality(QualifiedOf(r))
VisitsOK(r) ==
    /\ metrics[r].websites = Cardinality(VisitsOf(r, {"Complete", "Partial", "Blocked"}))
    /\ metrics[r].blocked = Cardinality(VisitsOf(r, {"Partial", "Blocked"}))

LEMMA BooksBefore == MetricsAgree <=> \A r \in Run : CountsOK(r) /\ VisitsOK(r)
  BY Zenon DEF MetricsAgree, Recounted, InspectionsIn, CountsOK, VisitsOK,
         ExcludedOf, AssessedOf, QualifiedOf, VisitsOf

LEMMA BooksAfter == MetricsAgree' <=> \A r \in Run : CountsOK(r)' /\ VisitsOK(r)'
  BY Zenon DEF MetricsAgree, Recounted, InspectionsIn, CountsOK, VisitsOK,
         ExcludedOf, AssessedOf, QualifiedOf, VisitsOf

\* A run's counters stay right where nothing they count changes.
LEMMA SameCounts ==
    ASSUME NEW r, CountsOK(r), UNCHANGED <<metrics, decisions>>,
           ExcludedOf(r)' = ExcludedOf(r), AssessedOf(r)' = AssessedOf(r),
           QualifiedOf(r)' = QualifiedOf(r)
    PROVE  CountsOK(r)'
  BY DEF CountsOK

LEMMA SameBooks ==
    ASSUME MetricsAgree,
           UNCHANGED <<runOf, row, inspection, assessment, score, metrics, decisions>>
    PROVE  MetricsAgree'
<1> SUFFICES ASSUME NEW r \in Run PROVE CountsOK(r)' /\ VisitsOK(r)'
  BY BooksAfter
<1>1. CountsOK(r) /\ VisitsOK(r)
  BY BooksBefore
<1>2. /\ ExcludedOf(r)' = ExcludedOf(r) /\ AssessedOf(r)' = AssessedOf(r)
      /\ QualifiedOf(r)' = QualifiedOf(r)
      /\ \A statuses : VisitsOf(r, statuses)' = VisitsOf(r, statuses)
  BY DEF ExcludedOf, AssessedOf, QualifiedOf, VisitsOf
<1> QED
  BY <1>1, <1>2 DEF CountsOK, VisitsOK

Same(m) ==
    /\ task'[m] = task[m] /\ held'[m] = held[m]
    /\ inspection'[m] = inspection[m] /\ assessment'[m] = assessment[m]
    /\ score'[m] = score[m] /\ row'[m] = row[m]

LEMMA SameKeeps ==
    ASSUME NEW m, Same(m)
    PROVE  (Live(m)' <=> Live(m)) /\ (ListingOK(m) => ListingOK(m)')
<1>1. Live(m)' <=> Live(m)
  BY DEF Same, Live, IsInspected, At
<1>2. (HeldOK(m) => HeldOK(m)') /\ (DoneOK(m) => DoneOK(m)')
  BY DEF Same, HeldOK, DoneOK, IsInspected, At
<1> QED
  BY <1>1, <1>2 DEF Same, ListingOK

\* A step of one listing, which does not become live by it.
LEMMA ListingKeeps ==
    ASSUME IInv, NEW l \in Listing, UNCHANGED runOf, \A m \in Listing \ {l} : Same(m),
           ListingOK(l)', row'[l].business = row[l].business, Live(l)' => Live(l)
    PROVE  (\A m \in Listing : ListingOK(m)') /\ OnceOK'
<1>1. \A m \in Listing \ {l} : (Live(m)' <=> Live(m)) /\ ListingOK(m)'
  BY SameKeeps DEF IInv
<1>2. \A m \in Listing : row'[m].business = row[m].business /\ (Live(m)' => Live(m))
  BY <1>1 DEF Same
<1>3. OnceOK'
  BY <1>2 DEF IInv, OnceOK
<1> QED
  BY <1>1, <1>3

\* A step that changes no row.
LEMMA WorkKeeps ==
    ASSUME IInv, NEW l \in Listing, Works(l),
           UNCHANGED <<given, row, inspection, assessment, score, suppressed, metrics, decisions>>,
           HeldOK(l)', DoneOK(l)', Live(l)' => Live(l)
    PROVE  IInv'
<1>1. UNCHANGED <<content, runOf, policy>>
  BY DEF given
<1>2. TypeOK'
  BY <1>1 DEF IInv, TypeOK, Works
<1>3. \A m \in Listing \ {l} : Same(m)
  BY DEF Works, Same
<1>4. ListingOK(l)'
  BY DEF IInv, ListingOK
<1>5. (\A m \in Listing : ListingOK(m)') /\ OnceOK'
  BY <1>1, <1>3, <1>4, ListingKeeps
<1>6. SuppressedIsNotRecommended'
  BY DEF IInv, SuppressedIsNotRecommended
<1>7. MetricsAgree'
  BY <1>1, SameBooks DEF IInv
<1> QED
  BY <1>2, <1>5, <1>6, <1>7 DEF IInv
-----------------------------------------------------------------------------
(* Steps that change no row.                                               *)

LEMMA Typed ==
    ASSUME IInv, NEW l \in Listing
    PROVE  /\ TypeOK /\ HeldOK(l) /\ DoneOK(l) /\ (Live(l) => row[l].status \notin Excluded)
           /\ task[l] \in Task /\ task[l].stage \in Stages /\ task[l].round \in Rounds
           /\ task[l].step \in {"ready", "called", "committed"}
           /\ content[l] \in Content /\ row[l] \in Row /\ runOf[l] \in Run
           /\ assessment[l] \in AnyAssessment \cup {None} /\ score[l] \in AnyScore \cup {None}
           /\ inspection[l] \in [Rounds -> Inspected \cup {"none"}]
<1>1. TypeOK /\ ListingOK(l)
  BY DEF IInv
<1>2. HeldOK(l) /\ DoneOK(l) /\ (Live(l) => row[l].status \notin Excluded)
  BY <1>1 DEF ListingOK
<1>3. task[l] \in Task /\ task[l].stage \in Stages /\ task[l].round \in Rounds
      /\ task[l].step \in {"ready", "called", "committed"}
  BY <1>1 DEF TypeOK, Task
<1> QED
  BY <1>1, <1>2, <1>3 DEF TypeOK

\* A telephone, a website and pages found for a business are added to it.
LEMMA MergedTyped ==
    ASSUME NEW c \in Content, NEW found \in Findings
    PROVE  Merged(c, found) \in Content
<1>1. found \in [phones : Seq(Phone), website : Website, pages : SUBSET Page]
  BY EvaluationAssumption
<1> DEFINE website == IF "listed" \in {c.website, found.website} THEN "listed"
                      ELSE IF c.website = "none" THEN found.website ELSE c.website
<1>2. website \in Website
  BY <1>1 DEF Content, Website
<1>3. Merged(c, found) = [c EXCEPT !.phones = found.phones, !.pages = c.pages \cup found.pages,
                                   !.website = website]
  BY DEF Merged
<1> HIDE DEF website
<1>4. found.phones \in Seq(Phone) /\ c.pages \cup found.pages \in SUBSET Page
  BY <1>1 DEF Content
<1> QED
  BY <1>2, <1>3, <1>4 DEF Content

\* A stage calls, for what it will commit.
LEMMA CallSteps ==
    ASSUME IInv, NEW l \in Listing,
           Corroborate(l) \/ Inspect(l) \/ SearchWebsite(l) \/ (Assess(l) /\ row[l].business \notin suppressed)
    PROVE  IInv'
<1> DEFINE stage == task[l].stage
<1>1. task[l].step = "ready"
      /\ UNCHANGED <<given, identity, assessed, evidence, review, metrics, siteFound, interrupts>>
  BY DEF Corroborate, Inspect, SearchWebsite, Assess, At
<1>2. UNCHANGED <<given, row, inspection, assessment, score, suppressed, metrics, decisions>>
  BY <1>1 DEF identity, evidence, review
<1>3. ASSUME NEW value, Holds(l, value), stage \in DOMAIN After,
             stage = "Corroborate" => value \in Content,
             stage = "Inspect" => value.status \in Inspected,
             stage = "Assess" => value \in AnyAssessment
      PROVE  IInv'
  <2>1. /\ Works(l) /\ held'[l] = value /\ task'[l].step = "called"
        /\ task'[l].stage = stage /\ task'[l].round = task[l].round
    BY <1>3, Typed, HoldsFacts
  <2>2. HeldOK(l)'
    BY <1>3, <2>1 DEF HeldOK, At
  <2>3. DoneOK(l)'
    <3>1. DoneOK(l)
      BY Typed
    <3> QED BY <1>1, <1>2, <2>1, <3>1 DEF DoneOK, At, IsInspected
  <2>4. Live(l)' => Live(l)
    BY <1>2, <2>1 DEF Live, At, IsInspected
  <2> QED BY <1>2, <2>1, <2>2, <2>3, <2>4, WorkKeeps
<1>4. CASE Corroborate(l)
  <2>1. stage = "Corroborate" /\ stage \in DOMAIN After
    BY <1>4 DEF Corroborate, At, After
  <2>2. PICK value \in Content : Holds(l, value)
    BY <1>4, Typed, MergedTyped DEF Corroborate
  <2> QED BY <1>3, <2>1, <2>2
<1>5. CASE Inspect(l)
  <2>1. stage = "Inspect" /\ stage \in DOMAIN After
    BY <1>5 DEF Inspect, At, After
  <2>2. PICK status \in Inspected : Holds(l, [kind |-> "inspected", status |-> status])
    BY <1>5 DEF Inspect, Inspected
  <2> QED BY <1>3, <2>1, <2>2
<1>6. CASE SearchWebsite(l)
  <2>1. stage = "Confirm" /\ stage \in DOMAIN After
    BY <1>6 DEF SearchWebsite, At, After
  <2>2. PICK found \in Findings : Holds(l, [kind |-> "found", pages |-> found.pages,
                                          website |-> found.website])
    BY <1>6 DEF SearchWebsite
  <2> QED BY <1>3, <2>1, <2>2
<1>7. CASE Assess(l) /\ row[l].business \notin suppressed
  <2>1. stage = "Assess" /\ stage \in DOMAIN After
    BY <1>7 DEF Assess, At, After
  <2>2. PICK severity \in Severities, extra \in Extras :
          Holds(l, [kind |-> "assessed", round |-> task[l].round,
                    severity |-> severity, extra |-> extra])
    BY <1>7 DEF Assess
  <2> DEFINE value == [kind |-> "assessed", round |-> task[l].round,
                       severity |-> severity, extra |-> extra]
  <2>3. value \in AnyAssessment
    BY Typed, EvaluationAssumption DEF AnyAssessment
  <2> QED BY <1>3, <2>1, <2>2, <2>3
<1> QED
  BY <1>4, <1>5, <1>6, <1>7
LEMMA AfterFacts ==
    /\ DOMAIN After = {"Corroborate", "Inspect", "Confirm", "Assess", "Score"}
    /\ After["Corroborate"] = {"Inspect", "Done"} /\ After["Inspect"] = {"Confirm", "Assess"}
    /\ After["Confirm"] = {"Assess", "Inspect"} /\ After["Assess"] = {"Score"}
    /\ After["Score"] = {"Done"}
  BY DEF After

\* A stage commits what changes no row here: the absence of a website is
\* settled, or what was found of one.
LEMMA ConfirmSteps ==
    ASSUME IInv, NEW l \in Listing, ConfirmSettled(l) \/ CommitConfirmation(l)
    PROVE  IInv'
<1>1. task[l].stage = "Confirm" /\ task[l].step # "committed"
      /\ UNCHANGED <<given, row, inspection, assessment, score, suppressed, metrics, decisions>>
  BY DEF ConfirmSettled, CommitConfirmation, At, identity, evidence, review
<1>2. \E next \in {"Assess", "Inspect"}, round \in Rounds : Commits(l, next, round)
  <2>1. task[l].round \in Rounds
    BY Typed
  <2> QED BY <2>1 DEF ConfirmSettled, CommitConfirmation, AfterConfirmation, Rounds
<1>3. PICK next \in {"Assess", "Inspect"}, round \in Rounds : Commits(l, next, round)
  BY <1>2
<1>4. /\ Works(l) /\ held'[l].stage = next /\ held'[l].round = round
      /\ task'[l].step = "committed" /\ task'[l].stage = "Confirm"
  BY <1>1, <1>3, Typed, CommitsFacts
<1>5. HeldOK(l)'
  BY <1>4, AfterFacts DEF HeldOK, At
<1>6. IsInspected(l) /\ DoneOK(l)
  BY <1>1, Typed DEF DoneOK
<1>7. DoneOK(l)'
  BY <1>1, <1>4, <1>6 DEF DoneOK, At, IsInspected
<1>8. Live(l)
  BY <1>6 DEF Live
<1> QED
  BY <1>1, <1>4, <1>5, <1>7, <1>8, WorkKeeps

\* A task goes on to its next stage, fails, or is claimed again.
LEMMA TaskSteps ==
    ASSUME IInv, NEW l \in Listing,
           \/ Checkpoint(l) \/ Fail(l) \/ Interrupt(l)
           \/ Assess(l) /\ row[l].business \in suppressed
    PROVE  IInv'
<1>1. UNCHANGED <<given, row, inspection, assessment, score, suppressed, metrics, decisions>>
  BY DEF Checkpoint, Fail, Interrupt, Assess, identity, evidence, review
<1>2. TypeOK /\ HeldOK(l) /\ DoneOK(l) /\ task[l] \in Task /\ task \in [Listing -> Task]
  BY Typed DEF TypeOK
<1>3. ASSUME Works(l), task'[l].step = "ready",
             task'[l].stage = "Failed" \/ (task'[l].stage = task[l].stage
                                           /\ task'[l].round = task[l].round)
      PROVE  IInv'
  <2>1. HeldOK(l)'
    BY <1>3 DEF HeldOK, At
  <2>2. DoneOK(l)'
    BY <1>1, <1>2, <1>3 DEF DoneOK, At, IsInspected
  <2>3. Live(l)' => Live(l)
    BY <1>1, <1>3 DEF Live, At, IsInspected
  <2> QED BY <1>1, <1>3, <2>1, <2>2, <2>3, WorkKeeps
<1>4. CASE Interrupt(l)
  BY <1>2, <1>3, <1>4, Stepped DEF Interrupt
<1>5. CASE Fail(l)
  <2> DEFINE t == [task[l] EXCEPT !.stage = "Failed", !.step = "ready"]
  <2>1. task' = [task EXCEPT ![l] = t] /\ held' = [held EXCEPT ![l] = None]
    BY <1>2, <1>5 DEF Fail
  <2>2. t \in Task /\ t.stage = "Failed" /\ t.step = "ready"
    BY <1>2 DEF Task, Stages
  <2> HIDE DEF t
  <2>3. Works(l) /\ task'[l] = t
    BY <1>2, <2>1, <2>2 DEF Works, TypeOK
  <2> QED BY <1>3, <2>2, <2>3
<1>6. CASE Assess(l) /\ row[l].business \in suppressed
  <2> DEFINE t == [task[l] EXCEPT !.stage = "Failed"]
  <2>1. task[l].step = "ready" /\ task' = [task EXCEPT ![l] = t] /\ held' = held
    BY <1>2, <1>6 DEF Assess, At
  <2>2. t \in Task /\ t.stage = "Failed" /\ t.step = "ready"
    BY <1>2, <2>1 DEF Task, Stages
  <2> HIDE DEF t
  <2>3. Works(l) /\ task'[l] = t
    BY <1>2, <2>1, <2>2 DEF Works, TypeOK
  <2> QED BY <1>3, <2>2, <2>3
<1>7. CASE Checkpoint(l)
  <2> DEFINE stage == held[l].stage
             round == held[l].round
  <2>1. task[l].step = "committed"
    BY <1>7 DEF Checkpoint
  <2>2. task[l].stage \in DOMAIN After /\ stage \in After[task[l].stage] /\ round \in Rounds
    BY <1>2, <2>1 DEF HeldOK
  <2>3. stage \in {"Inspect", "Confirm", "Assess", "Score", "Done"} /\ stage \in Stages
    BY <2>2, AfterFacts DEF Stages
  <2>4. task' = [task EXCEPT ![l] = [stage |-> stage, step |-> "ready", round |-> round]]
        /\ held' = [held EXCEPT ![l] = None]
    BY <1>7 DEF Checkpoint
  <2>5. Works(l) /\ task'[l].stage = stage /\ task'[l].step = "ready" /\ task'[l].round = round
    <3> HIDE DEF stage, round
    <3> QED BY <1>2, <2>2, <2>3, <2>4, WorksOn
  <2>6. HeldOK(l)'
    BY <2>5 DEF HeldOK, At
  <2>7. \/ task[l].stage = "Corroborate" /\ stage \in {"Inspect", "Done"} /\ round = 1
        \/ task[l].stage # "Corroborate" /\ IsInspected(l)
           /\ (stage = "Score" => assessment[l] # None)
    BY <1>2, <2>1, <2>2, AfterFacts DEF DoneOK, At
  <2>8. DoneOK(l)'
    <3>1. IsInspected(l)' <=> IsInspected(l)
      BY <1>1 DEF IsInspected
    <3> HIDE DEF stage, round
    <3> QED BY <1>1, <1>2, <2>3, <2>5, <2>7, <3>1 DEF DoneOK, At
  <2>9. Live(l)' => Live(l)
    BY <1>1, <2>1, <2>5, <2>7 DEF Live, At, IsInspected
  <2> QED BY <1>1, <2>5, <2>6, <2>8, <2>9, WorkKeeps
<1> QED
  BY <1>4, <1>5, <1>6, <1>7
-----------------------------------------------------------------------------
(* The evaluation.                                                         *)

LEMMA Countable ==
    /\ \A S \in SUBSET Listing : IsFiniteSet(S) /\ Cardinality(S) \in Nat
    /\ \A S \in SUBSET (Listing \X {1, 2}) : IsFiniteSet(S) /\ Cardinality(S) \in Nat
<1>1. IsFiniteSet(Listing)
  BY EvaluationAssumption
<1>2. ASSUME NEW S \in SUBSET Listing
      PROVE  IsFiniteSet(S) /\ Cardinality(S) \in Nat
  BY <1>1, FS_Subset, FS_CardinalityType
<1>3. IsFiniteSet(Listing \X {1, 2})
  <2>1. IsFiniteSet({1, 2})
    <3>1. IsFiniteSet({1}) /\ {1} \cup {2} = {1, 2}
      BY FS_Singleton
    <3>2. IsFiniteSet({1} \cup {2})
      BY <3>1, FS_AddElement
    <3> QED BY <3>1, <3>2
  <2> QED BY <1>1, <2>1, FS_Product
<1>4. ASSUME NEW S \in SUBSET (Listing \X {1, 2})
      PROVE  IsFiniteSet(S) /\ Cardinality(S) \in Nat
  BY <1>3, FS_Subset, FS_CardinalityType
<1> QED
  BY <1>2, <1>4

\* The books of one run are written, those of the others are not.
LEMMA Booked ==
    ASSUME TypeOK, NEW r \in Run, NEW books \in Books, metrics' = [metrics EXCEPT ![r] = books]
    PROVE  /\ metrics' \in [Run -> Books] /\ metrics'[r] = books
           /\ \A q \in Run \ {r} : metrics'[q] = metrics[q]
  BY DEF TypeOK

\* A business is one the listing names, or one a listing already is.
LEMMA CanonicalTyped ==
    ASSUME IInv, NEW l \in Listing, NEW c \in Content, NEW b \in CanonicalOf(l, c)
    PROVE  b \in Fingerprint \cup {NoBusiness}
<1>1. \A m \in Listing : row[m].business \in Fingerprint \cup {NoBusiness}
  BY Typed DEF Row
<1>2. ByRoute(c) \subseteq Fingerprint \cup {NoBusiness}
  BY <1>1 DEF ByRoute
<1>3. FingerprintOf(l, c) \in Fingerprint
  <2>1. CASE c.phones # << >>
    <3>1. c.phones \in Seq(Phone)
      BY DEF Content
    <3>2. Head(c.phones) \in Phone
      BY <2>1, <3>1
    <3> QED BY <2>1, <3>2 DEF FingerprintOf, Fingerprint
  <2>2. CASE c.phones = << >>
    BY <2>2 DEF FingerprintOf, Fingerprint
  <2> QED BY <2>1, <2>2
<1> QED
  BY <1>2, <1>3 DEF CanonicalOf

LEMMA StatusTyped ==
    ASSUME NEW l, NEW c, NEW b
    PROVE  /\ StatusOf(l, c, b) \in Status
           /\ StatusOf(l, c, b) = "Eligible" => ~IsDuplicate(l, b)
<1> DEFINE known == policy[runOf[l]]
<1>1. EvaluatedStatus(c) \in {"Ambiguous", "Excluded", "Eligible"}
  BY DEF EvaluatedStatus
<1>2. CASE EvaluatedStatus(c) # "Eligible"
  BY <1>1, <1>2 DEF StatusOf, Status
<1>3. CASE EvaluatedStatus(c) = "Eligible"
  BY <1>3 DEF StatusOf, Status
<1> QED
  BY <1>2, <1>3

LEMMA EvaluationKeeps ==
    ASSUME IInv, NEW l \in Listing, CommitEvaluation(l)
    PROVE  IInv'
<1> DEFINE c == held[l]
           r == runOf[l]
<1>1. /\ task[l].stage = "Corroborate" /\ task[l].step = "called"
      /\ UNCHANGED <<given, assessed, evidence, review, siteFound, interrupts>>
  BY DEF CommitEvaluation, At
<1>2. UNCHANGED <<content, runOf, policy, inspection, assessment, score, suppressed, decisions>>
  BY <1>1 DEF given, evidence, review
<1>3. TypeOK /\ HeldOK(l) /\ DoneOK(l) /\ c \in Content /\ r \in Run
  BY <1>1, Typed DEF HeldOK, At
<1>4. PICK b \in CanonicalOf(l, c) :
        /\ row' = [row EXCEPT ![l] = [business |-> b, status |-> StatusOf(l, c, b)]]
        /\ Commits(l, IF row'[l].status = "Eligible" THEN "Inspect" ELSE "Done", 1)
  BY DEF CommitEvaluation
<1>5. b \in Fingerprint \cup {NoBusiness}
  BY <1>3, CanonicalTyped
<1> DEFINE new == [business |-> b, status |-> StatusOf(l, c, b)]
<1>6. new \in Row /\ new.business = b /\ (new.status = "Eligible" => ~IsDuplicate(l, b))
  BY <1>5, StatusTyped DEF Row
<1>7. row' = [row EXCEPT ![l] = new]
  BY <1>4
<1> HIDE DEF new
<1>8. /\ row' \in [Listing -> Row] /\ row'[l] = new
      /\ \A m \in Listing \ {l} : row'[m] = row[m]
  BY <1>3, <1>6, <1>7 DEF TypeOK
<1> DEFINE next == IF row'[l].status = "Eligible" THEN "Inspect" ELSE "Done"
<1>9. next \in {"Inspect", "Done"} /\ (next = "Inspect" => new.status = "Eligible")
  BY <1>8
<1>10. Commits(l, next, 1)
  BY <1>4
<1> HIDE DEF next
<1>11. /\ Works(l) /\ held'[l].stage = next /\ held'[l].round = 1
       /\ task'[l].step = "committed" /\ task'[l].stage = "Corroborate"
  BY <1>1, <1>3, <1>10, CommitsFacts
<1>12. /\ metrics' \in [Run -> Books]
       /\ metrics'[r].exclusions = ExcludedIn(row', r)
       /\ metrics'[r].websites = metrics[r].websites /\ metrics'[r].blocked = metrics[r].blocked
       /\ metrics'[r].assessments = metrics[r].assessments
       /\ metrics'[r].qualified = metrics[r].qualified
       /\ \A q \in Run \ {r} : metrics'[q] = metrics[q]
  <2> DEFINE n == ExcludedIn(row', r)
             books == [metrics[r] EXCEPT !.exclusions = n]
  <2>1. n \in Nat
    <3>1. {m \in Listing : runOf[m] = r /\ row'[m].status \in Excluded} \in SUBSET Listing
      OBVIOUS
    <3> QED BY <3>1, Countable, Zenon DEF ExcludedIn
  <2>2. metrics' = [metrics EXCEPT ![r] = books] /\ metrics[r] \in Books
    BY <1>3 DEF CommitEvaluation, TypeOK
  <2> HIDE DEF n
  <2>3. /\ books \in Books /\ books.exclusions = n /\ books.websites = metrics[r].websites
        /\ books.blocked = metrics[r].blocked /\ books.assessments = metrics[r].assessments
        /\ books.qualified = metrics[r].qualified
    BY <2>1, <2>2 DEF Books
  <2> HIDE DEF books, r
  <2>4. /\ metrics' \in [Run -> Books] /\ metrics'[r] = books
        /\ \A q \in Run \ {r} : metrics'[q] = metrics[q]
    BY <1>3, <2>2, <2>3 DEF TypeOK
  <2> QED BY <2>3, <2>4 DEF n
<1>13. TypeOK'
  BY <1>2, <1>3, <1>8, <1>11, <1>12 DEF TypeOK, Works
<1>14. \A m \in Listing \ {l} : Same(m)
  BY <1>2, <1>8, <1>11 DEF Same, Works
<1>15. ~IsInspected(l)' /\ score'[l] = None /\ assessment'[l] = None
  BY <1>1, <1>2, <1>3 DEF DoneOK, IsInspected
<1>16. ListingOK(l)'
  <2>1. HeldOK(l)'
    BY <1>9, <1>11, AfterFacts DEF HeldOK, At, Rounds
  <2>2. DoneOK(l)'
    BY <1>11, <1>15 DEF DoneOK, At
  <2>3. Live(l)' => row'[l].status \notin Excluded
    BY <1>8, <1>9, <1>11, <1>15 DEF Live, At, Excluded
  <2> QED BY <2>1, <2>2, <2>3 DEF ListingOK
<1>17. \A m \in Listing : ListingOK(m)'
  BY <1>14, <1>16, SameKeeps DEF IInv
<1>18. OnceOK'
  <2>1. Live(l)' => ~IsDuplicate(l, b)
    BY <1>6, <1>9, <1>11, <1>15 DEF Live, At
  <2>2. ASSUME NEW m \in Listing, m # l, runOf[m] = runOf[l], row[m].business = b, b # NoBusiness
        PROVE  ~Live(l)'
    BY <2>1, <2>2 DEF IsDuplicate
  <2>3. \A m \in Listing \ {l} : (Live(m)' <=> Live(m)) /\ row'[m] = row[m]
    BY <1>8, <1>14, SameKeeps
  <2>4. row'[l].business = b /\ runOf' = runOf
    BY <1>2, <1>6, <1>8
  <2>5. ASSUME NEW m \in Listing, NEW n \in Listing, m # n, runOf[m] = runOf[n],
               row'[m].business = row'[n].business, row'[m].business # NoBusiness
        PROVE  ~Live(m)' \/ ~Live(n)'
    <3>1. CASE m = l
      BY <2>2, <2>3, <2>4, <2>5, <3>1
    <3>2. CASE n = l
      BY <2>2, <2>3, <2>4, <2>5, <3>2
    <3>3. CASE m # l /\ n # l
      BY <2>3, <2>5, <3>3 DEF IInv, OnceOK
    <3> QED BY <3>1, <3>2, <3>3
  <2> QED BY <2>4, <2>5 DEF OnceOK
<1>19. SuppressedIsNotRecommended'
  BY <1>2, <1>8, <1>15 DEF IInv, SuppressedIsNotRecommended
<1>20. MetricsAgree'
  <2> SUFFICES ASSUME NEW q \in Run PROVE CountsOK(q)' /\ VisitsOK(q)'
    BY BooksAfter
  <2>1. CountsOK(q) /\ VisitsOK(q)
    BY BooksBefore DEF IInv
  <2>2. /\ AssessedOf(q)' = AssessedOf(q) /\ QualifiedOf(q)' = QualifiedOf(q)
        /\ \A statuses : VisitsOf(q, statuses)' = VisitsOf(q, statuses)
    BY <1>2 DEF AssessedOf, QualifiedOf, VisitsOf
  <2>3. CASE q = r
    <3>1. ExcludedIn(row', r) = Cardinality(ExcludedOf(q)')
      BY <1>2, <2>3 DEF ExcludedIn, ExcludedOf
    <3> HIDE DEF r
    <3> QED BY <1>2, <1>12, <2>1, <2>2, <2>3, <3>1 DEF CountsOK, VisitsOK
  <2>4. CASE q # r
    <3>1. ExcludedOf(q)' = ExcludedOf(q)
      BY <1>2, <1>8, <2>4 DEF ExcludedOf
    <3>2. metrics'[q] = metrics[q]
      BY <1>12, <2>4
    <3> QED BY <1>2, <2>1, <2>2, <3>1, <3>2 DEF CountsOK, VisitsOK
  <2> QED BY <2>3, <2>4
<1> QED
  BY <1>13, <1>17, <1>18, <1>19, <1>20 DEF IInv
-----------------------------------------------------------------------------
(* The stages of a live listing.                                           *)

\* What a stage of l may write: rows of l, which stays the same business and
\* does not become an excluded one.
Writes(l) ==
    /\ Works(l) /\ UNCHANGED <<given, suppressed, decisions>>
    /\ \A m \in Listing \ {l} :
         /\ inspection'[m] = inspection[m] /\ assessment'[m] = assessment[m]
         /\ score'[m] = score[m] /\ row'[m] = row[m]
    /\ row'[l].business = row[l].business /\ row'[l].status \notin Excluded

LEMMA LiveKeeps ==
    ASSUME IInv, NEW l \in Listing, Live(l), Writes(l), TypeOK', HeldOK(l)', DoneOK(l)',
           score'[l] # None /\ score'[l].qualified =>
             score[l] = score'[l] \/ row[l].business \notin suppressed,
           MetricsAgree'
    PROVE  IInv'
<1>1. runOf' = runOf /\ suppressed' = suppressed
  BY DEF Writes, given
<1>2. \A m \in Listing \ {l} : Same(m)
  BY DEF Writes, Works, Same
<1>3. ListingOK(l)'
  BY DEF ListingOK, Writes
<1>4. (\A m \in Listing : ListingOK(m)') /\ OnceOK'
  BY <1>1, <1>2, <1>3, ListingKeeps DEF Writes
<1>5. SuppressedIsNotRecommended'
  BY <1>1 DEF IInv, SuppressedIsNotRecommended, Writes
<1> QED
  BY <1>4, <1>5 DEF IInv

\* Nothing becomes excluded, and nothing excluded is taken back.
LEMMA LiveExcluded ==
    ASSUME IInv, NEW l \in Listing, Live(l), Writes(l), NEW q
    PROVE  ExcludedOf(q)' = ExcludedOf(q)
<1>1. row[l].status \notin Excluded /\ row'[l].status \notin Excluded
  BY Typed DEF Writes
<1>2. runOf' = runOf /\ \A m \in Listing \ {l} : row'[m] = row[m]
  BY DEF Writes, given
<1> QED
  BY <1>1, <1>2 DEF ExcludedOf

LEMMA RowStatusFacts ==
    \A status \in Inspected :
        RowStatus[status] \in Status /\ RowStatus[status] \notin Excluded
  BY DEF RowStatus, Inspected, Status, Excluded

\* Another row's status, for the same business.
LEMMA RowChanged ==
    ASSUME TypeOK, NEW l \in Listing, NEW status \in Status, status \notin Excluded,
           row' = [row EXCEPT ![l].status = status]
    PROVE  /\ row' \in [Listing -> Row] /\ row'[l].business = row[l].business
           /\ row'[l].status \notin Excluded /\ \A m \in Listing \ {l} : row'[m] = row[m]
<1> DEFINE new == [row[l] EXCEPT !.status = status]
<1>1. row \in [Listing -> Row] /\ row[l] \in Row
  BY DEF TypeOK
<1>2. new \in Row /\ new.business = row[l].business /\ new.status = status
  BY <1>1 DEF Row
<1>3. row' = [row EXCEPT ![l] = new]
  BY <1>1
<1> HIDE DEF new
<1> QED
  BY <1>1, <1>2, <1>3

\* The first inspection of a round is stored.
Visited(l, k, status) ==
    /\ inspection[l][k] = "none" /\ inspection'[l][k] = status /\ runOf' = runOf
    /\ \A m \in Listing, i \in Rounds :
         m # l \/ i # k => inspection'[m][i] = inspection[m][i]

\* An inspection is counted where its outcome is looked for.
LEMMA VisitCounted ==
    ASSUME TypeOK, NEW l \in Listing, NEW k \in Rounds, NEW status \in Inspected,
           Visited(l, k, status), NEW q, NEW statuses \in SUBSET Inspected
    PROVE  Cardinality(VisitsOf(q, statuses)') =
             Cardinality(VisitsOf(q, statuses))
               + IF q = runOf[l] THEN Cardinality(statuses \cap {status}) ELSE 0
<1> DEFINE r == runOf[l]
<1>1. \A p \in Listing \X {1, 2} : p # <<l, k>> =>
        inspection'[p[1]][p[2]] = inspection[p[1]][p[2]]
  BY DEF Rounds, Visited
<1>2. "none" \notin statuses
  BY DEF Inspected
<1>3. <<l, k>> \in Listing \X {1, 2} /\ <<l, k>> \notin VisitsOf(r, statuses)
  BY <1>2 DEF Visited, VisitsOf, Rounds
<1>4. VisitsOf(q, statuses)' =
        IF q = r /\ status \in statuses THEN VisitsOf(q, statuses) \cup {<<l, k>>}
        ELSE VisitsOf(q, statuses)
  <2> DEFINE P == Listing \X {1, 2}
             pair == <<l, k>>
  <2>1. \A p \in P : p[1] \in Listing /\ p[2] \in {1, 2}
    OBVIOUS
  <2>2. pair \in P /\ pair[1] = l /\ pair[2] = k
    BY <1>3
  <2>3. VisitsOf(q, statuses)' =
          {p \in P : runOf[p[1]] = q /\ inspection'[p[1]][p[2]] \in statuses}
    BY DEF VisitsOf, Visited
  <2>4. VisitsOf(q, statuses) =
          {p \in P : runOf[p[1]] = q /\ inspection[p[1]][p[2]] \in statuses}
    BY DEF VisitsOf
  <2>5. inspection'[pair[1]][pair[2]] = status /\ runOf[pair[1]] = r
        /\ inspection[pair[1]][pair[2]] \notin statuses
        /\ \A p \in P \ {pair} : inspection'[p[1]][p[2]] = inspection[p[1]][p[2]]
    BY <1>1, <1>2, <2>2 DEF Visited
  <2> HIDE DEF P, pair, r
  <2>6. VisitsOf(q, statuses)' =
          IF q = r /\ status \in statuses THEN VisitsOf(q, statuses) \cup {pair}
          ELSE VisitsOf(q, statuses)
    BY <2>2, <2>3, <2>4, <2>5
  <2> QED BY <2>6 DEF pair
<1>5. VisitsOf(q, statuses) \in SUBSET (Listing \X {1, 2})
  BY DEF VisitsOf
<1> DEFINE V == VisitsOf(q, statuses)
           pair == <<l, k>>
<1>6. IsFiniteSet(V) /\ Cardinality(V) \in Nat
  BY <1>5, Countable
<1>7. q = r => pair \notin V
  BY <1>3
<1>8. /\ status \in statuses => statuses \cap {status} = {status}
      /\ status \notin statuses => statuses \cap {status} = {}
      /\ Cardinality({status}) = 1 /\ Cardinality({}) = 0
  BY FS_Singleton, FS_EmptySet
<1>9. VisitsOf(q, statuses)' = IF q = r /\ status \in statuses THEN V \cup {pair} ELSE V
  BY <1>4
<1> HIDE DEF V, pair
<1>10. CASE q = r /\ status \in statuses
  <2>1. Cardinality(V \cup {pair}) = Cardinality(V) + 1
    BY <1>6, <1>7, <1>10, FS_AddElement
  <2> QED BY <1>8, <1>9, <1>10, <2>1 DEF V
<1>11. CASE ~(q = r /\ status \in statuses)
  <2>1. VisitsOf(q, statuses)' = V
    BY <1>9, <1>11
  <2>2. q = r => Cardinality(statuses \cap {status}) = 0
    BY <1>8, <1>11
  <2> QED BY <1>6, <2>1, <2>2 DEF V
<1> QED
  BY <1>10, <1>11
LEMMA InspectionKeeps ==
    ASSUME IInv, NEW l \in Listing, CommitInspection(l)
    PROVE  IInv'
<1> DEFINE status == held[l].status
           k == task[l].round
           r == runOf[l]
           next == IF status = "NoWebsite" THEN "Confirm" ELSE "Assess"
<1>1. /\ task[l].stage = "Inspect" /\ task[l].step = "called"
      /\ UNCHANGED <<given, assessment, score, review>>
      /\ StoreInspection(l, k, status) /\ Commits(l, next, k)
  BY DEF CommitInspection, At
<1>2. UNCHANGED <<content, runOf, policy, assessment, score, suppressed, decisions>>
  BY <1>1 DEF given, review
<1>3. /\ TypeOK /\ HeldOK(l) /\ DoneOK(l) /\ status \in Inspected /\ k \in Rounds /\ r \in Run
      /\ inspection[l] \in [Rounds -> Inspected \cup {"none"}]
  BY <1>1, Typed DEF HeldOK, At
<1>4. next \in {"Confirm", "Assess"}
  OBVIOUS
<1> HIDE DEF next
<1>5. /\ Works(l) /\ held'[l].stage = next /\ held'[l].round = k
      /\ task'[l].step = "committed" /\ task'[l].stage = "Inspect"
  BY <1>1, <1>3, CommitsFacts
<1>6. HeldOK(l)'
  BY <1>3, <1>4, <1>5, AfterFacts DEF HeldOK, At
<1>7. Live(l)
  BY <1>1 DEF Live
<1>8. CASE inspection[l][k] # "none"
  <2>1. UNCHANGED <<inspection, row, metrics>>
    BY <1>1, <1>8 DEF StoreInspection
  <2>2. IsInspected(l)
    BY <1>1, <1>3, <1>8 DEF DoneOK, IsInspected
  <2>3. DoneOK(l)'
    BY <1>2, <1>3, <1>5, <2>1, <2>2 DEF DoneOK, At, IsInspected
  <2> QED BY <1>1, <1>2, <1>5, <1>6, <1>7, <2>1, <2>3, WorkKeeps
<1>9. CASE inspection[l][k] = "none"
  <2> DEFINE seen == {"Complete", "Partial", "Blocked"}
             bad == {"Partial", "Blocked"}
             n == InspectionsIn(r, seen) + Cardinality(seen \cap {status})
             j == InspectionsIn(r, bad) + Cardinality(bad \cap {status})
  <2>1. /\ inspection' = [inspection EXCEPT ![l][k] = status]
        /\ row' = [row EXCEPT ![l].status = RowStatus[status]]
        /\ metrics' = [metrics EXCEPT ![r].websites = n, ![r].blocked = j]
    BY <1>1, <1>9 DEF StoreInspection
  <2>2. /\ row' \in [Listing -> Row] /\ row'[l].business = row[l].business
        /\ row'[l].status \notin Excluded /\ \A m \in Listing \ {l} : row'[m] = row[m]
    <3> DEFINE new == RowStatus[status]
    <3>1. new \in Status /\ new \notin Excluded /\ row' = [row EXCEPT ![l].status = new]
      BY <1>3, <2>1, RowStatusFacts
    <3> HIDE DEF new
    <3> QED BY <1>3, <3>1, RowChanged
  <2>3. /\ inspection' \in [Listing -> [Rounds -> Inspected \cup {"none"}]]
        /\ inspection'[l][k] # "none" /\ (IsInspected(l) => IsInspected(l)')
        /\ \A m \in Listing \ {l} : inspection'[m] = inspection[m]
        /\ inspection'[l][k] = status /\ \A i \in Rounds \ {k} : inspection'[l][i] = inspection[l][i]
    <3> DEFINE new == [inspection[l] EXCEPT ![k] = status]
    <3>1. inspection \in [Listing -> [Rounds -> Inspected \cup {"none"}]]
      BY <1>3 DEF TypeOK
    <3>2. /\ new \in [Rounds -> Inspected \cup {"none"}] /\ new[k] = status
          /\ \A i \in Rounds \ {k} : new[i] = inspection[l][i]
      BY <1>3
    <3>3. inspection' = [inspection EXCEPT ![l] = new]
      BY <2>1, <3>1
    <3>4. status # "none"
      BY <1>3 DEF Inspected
    <3> HIDE DEF new, status, k
    <3>5. /\ inspection' \in [Listing -> [Rounds -> Inspected \cup {"none"}]]
          /\ inspection'[l] = new /\ \A m \in Listing \ {l} : inspection'[m] = inspection[m]
      BY <3>1, <3>2, <3>3
    <3> QED BY <1>3, <3>2, <3>4, <3>5 DEF IsInspected, Rounds
  <2>4. Writes(l)
    BY <1>1, <1>2, <1>5, <2>2, <2>3 DEF Writes
  <2>5. seen \in SUBSET Inspected /\ bad \in SUBSET Inspected
    BY DEF Inspected
  <2>6. \A q, statuses : InspectionsIn(q, statuses) = Cardinality(VisitsOf(q, statuses))
    BY DEF InspectionsIn, VisitsOf
  <2>7. \A q, statuses : Cardinality(VisitsOf(q, statuses)) \in Nat
    <3>1. \A q, statuses : VisitsOf(q, statuses) \in SUBSET (Listing \X {1, 2})
      BY DEF VisitsOf
    <3> QED BY <3>1, Countable
  <2>8. \A statuses : Cardinality(statuses \cap {status}) \in Nat
    <3>1. Cardinality({status}) = 1 /\ Cardinality({}) = 0
      BY FS_Singleton, FS_EmptySet
    <3> HIDE DEF status
    <3>2. \A statuses : statuses \cap {status} = {status} \/ statuses \cap {status} = {}
      OBVIOUS
    <3>3. \A statuses : Cardinality(statuses \cap {status}) \in {0, 1}
      BY <3>1, <3>2, Zenon
    <3> QED BY <3>3
  <2>9. n \in Nat /\ j \in Nat
    <3>1. InspectionsIn(r, seen) \in Nat /\ InspectionsIn(r, bad) \in Nat
      BY <2>6, <2>7
    <3>2. Cardinality(seen \cap {status}) \in Nat /\ Cardinality(bad \cap {status}) \in Nat
      BY <2>8
    <3> HIDE DEF seen, bad
    <3> QED BY <3>1, <3>2
  <2>10. /\ metrics' \in [Run -> Books]
         /\ metrics'[r].websites = n /\ metrics'[r].blocked = j
         /\ metrics'[r].exclusions = metrics[r].exclusions
         /\ metrics'[r].assessments = metrics[r].assessments
         /\ metrics'[r].qualified = metrics[r].qualified
         /\ \A q \in Run \ {r} : metrics'[q] = metrics[q]
    <3> HIDE DEF n, j, r
    <3> DEFINE books == [[metrics[r] EXCEPT !.websites = n] EXCEPT !.blocked = j]
    <3>1. metrics \in [Run -> Books] /\ metrics[r] \in Books
      BY <1>3 DEF TypeOK
    <3>2. /\ books \in Books /\ books.websites = n /\ books.blocked = j
          /\ books.exclusions = metrics[r].exclusions
          /\ books.assessments = metrics[r].assessments
          /\ books.qualified = metrics[r].qualified
      BY <2>9, <3>1 DEF Books
    <3>3. metrics' = [metrics EXCEPT ![r] = books]
      BY <1>3, <2>1, <3>1
    <3> HIDE DEF books
    <3>4. /\ metrics' \in [Run -> Books] /\ metrics'[r] = books
          /\ \A q \in Run \ {r} : metrics'[q] = metrics[q]
      BY <1>3, <3>1, <3>2, <3>3
    <3> QED BY <3>2, <3>4
  <2>11. TypeOK'
    BY <1>2, <1>3, <1>5, <2>2, <2>3, <2>10 DEF TypeOK, Works
  <2>12. IsInspected(l)'
    BY <1>1, <1>3, <2>3 DEF DoneOK, IsInspected
  <2>13. DoneOK(l)'
    BY <1>5, <2>12 DEF DoneOK, At
  <2>14. score' = score
    BY <1>2
  <2>15. MetricsAgree'
    <3> SUFFICES ASSUME NEW q \in Run PROVE CountsOK(q)' /\ VisitsOK(q)'
      BY BooksAfter
    <3>1. CountsOK(q) /\ VisitsOK(q)
      BY BooksBefore DEF IInv
    <3>2. /\ AssessedOf(q)' = AssessedOf(q) /\ QualifiedOf(q)' = QualifiedOf(q)
          /\ ExcludedOf(q)' = ExcludedOf(q)
      BY <1>2, <1>7, <2>4, LiveExcluded DEF AssessedOf, QualifiedOf
    <3>3. /\ Cardinality(VisitsOf(q, seen)') =
               Cardinality(VisitsOf(q, seen))
                 + IF q = r THEN Cardinality(seen \cap {status}) ELSE 0
          /\ Cardinality(VisitsOf(q, bad)') =
               Cardinality(VisitsOf(q, bad))
                 + IF q = r THEN Cardinality(bad \cap {status}) ELSE 0
      <4>1. Visited(l, k, status)
        BY <1>2, <1>9, <2>3 DEF Visited
      <4>2. TypeOK /\ status \in Inspected /\ k \in Rounds
        BY <1>3
      <4> HIDE DEF k, status
      <4>3. ASSUME NEW statuses \in SUBSET Inspected
            PROVE  Cardinality(VisitsOf(q, statuses)') =
                     Cardinality(VisitsOf(q, statuses))
                       + IF q = r THEN Cardinality(statuses \cap {status}) ELSE 0
        BY <4>1, <4>2, VisitCounted
      <4> QED BY <2>5, <4>3
    <3>4. CountsOK(q)'
      BY <1>2, <2>10, <3>1, <3>2 DEF CountsOK
    <3>5. VisitsOK(q)'
      <4>1. Cardinality(VisitsOf(q, seen)) \in Nat /\ Cardinality(VisitsOf(q, bad)) \in Nat
        BY <2>7
      <4>2. CASE q = r
        BY <2>6, <2>10, <3>3, <4>2 DEF VisitsOK
      <4>3. CASE q # r
        <5>1. metrics'[q] = metrics[q]
          BY <2>10, <4>3
        <5> QED BY <3>1, <3>3, <4>1, <4>3, <5>1 DEF VisitsOK
      <4> QED BY <4>2, <4>3
    <3> QED BY <3>4, <3>5
  <2> QED BY <1>6, <1>7, <2>4, <2>11, <2>13, <2>14, <2>15, LiveKeeps
<1> QED
  BY <1>8, <1>9
LEMMA AssessmentKeeps ==
    ASSUME IInv, NEW l \in Listing, CommitAssessment(l)
    PROVE  IInv'
<1> DEFINE value == held[l]
           r == runOf[l]
<1>1. /\ task[l].stage = "Assess" /\ task[l].step = "called"
      /\ UNCHANGED <<given, inspection, score, review>> /\ Commits(l, "Score", task[l].round)
  BY DEF CommitAssessment, At
<1>2. UNCHANGED <<content, runOf, policy, inspection, score, suppressed, decisions>>
  BY <1>1 DEF given, review
<1>3. /\ TypeOK /\ HeldOK(l) /\ DoneOK(l) /\ value \in AnyAssessment /\ r \in Run
      /\ task[l].round \in Rounds
  BY <1>1, Typed DEF HeldOK, At
<1>4. /\ Works(l) /\ held'[l].stage = "Score" /\ held'[l].round = task[l].round
      /\ task'[l].step = "committed" /\ task'[l].stage = "Assess"
  BY <1>1, <1>3, CommitsFacts
<1>5. HeldOK(l)'
  BY <1>3, <1>4, AfterFacts DEF HeldOK, At
<1>6. IsInspected(l) /\ Live(l) /\ IsInspected(l)'
  BY <1>1, <1>2, <1>3 DEF DoneOK, Live, IsInspected
<1>7. value # None
  BY <1>3 DEF AnyAssessment, None
<1>8. CASE assessment[l] # None
  <2>1. UNCHANGED <<assessment, row, metrics>>
    BY <1>8 DEF CommitAssessment
  <2>2. DoneOK(l)'
    BY <1>4, <1>6, <1>8, <2>1 DEF DoneOK, At
  <2> QED BY <1>1, <1>2, <1>4, <1>5, <1>6, <2>1, <2>2, WorkKeeps
<1>9. CASE assessment[l] = None
  <2> DEFINE books == [metrics[r] EXCEPT !.assessments = metrics[r].assessments + 1]
  <2>1. /\ assessment' = [assessment EXCEPT ![l] = value]
        /\ row' = [row EXCEPT ![l].status = "Assessed"]
        /\ metrics' = [metrics EXCEPT ![r] = books]
    BY <1>3, <1>9 DEF CommitAssessment, TypeOK
  <2>2. /\ row' \in [Listing -> Row] /\ row'[l].business = row[l].business
        /\ row'[l].status \notin Excluded /\ \A m \in Listing \ {l} : row'[m] = row[m]
    BY <1>3, <2>1, RowChanged DEF Status, Excluded
  <2>3. /\ assessment' \in [Listing -> AnyAssessment \cup {None}]
        /\ assessment'[l] = value /\ \A m \in Listing \ {l} : assessment'[m] = assessment[m]
    BY <1>3, <2>1 DEF TypeOK
  <2>4. Writes(l)
    BY <1>1, <1>2, <1>4, <2>2, <2>3 DEF Writes
  <2>5. metrics[r] \in Books
    BY <1>3 DEF TypeOK
  <2>6. /\ books \in Books /\ books.assessments = metrics[r].assessments + 1
        /\ books.exclusions = metrics[r].exclusions /\ books.websites = metrics[r].websites
        /\ books.blocked = metrics[r].blocked /\ books.qualified = metrics[r].qualified
    BY <2>5 DEF Books
  <2> HIDE DEF books, r
  <2>7. /\ metrics' \in [Run -> Books] /\ metrics'[r] = books
        /\ \A q \in Run \ {r} : metrics'[q] = metrics[q]
    BY <1>3, <2>1, <2>6 DEF TypeOK
  <2>8. TypeOK'
    BY <1>2, <1>3, <1>4, <2>2, <2>3, <2>7 DEF TypeOK, Works
  <2>9. DoneOK(l)'
    BY <1>4, <1>6, <1>7, <2>3 DEF DoneOK, At
  <2>10. score' = score
    BY <1>2
  <2>11. MetricsAgree'
    <3> SUFFICES ASSUME NEW q \in Run PROVE CountsOK(q)' /\ VisitsOK(q)'
      BY BooksAfter
    <3>1. CountsOK(q) /\ VisitsOK(q)
      BY BooksBefore DEF IInv
    <3>2. /\ ExcludedOf(q)' = ExcludedOf(q) /\ QualifiedOf(q)' = QualifiedOf(q)
          /\ \A statuses : VisitsOf(q, statuses)' = VisitsOf(q, statuses)
      BY <1>2, <1>6, <2>4, LiveExcluded DEF QualifiedOf, VisitsOf
    <3>3. CASE q = r
      <4>1. AssessedOf(q)' = AssessedOf(q) \cup {l} /\ l \notin AssessedOf(q)
        BY <1>2, <1>7, <1>9, <2>3, <3>3 DEF AssessedOf, r
      <4>2. IsFiniteSet(AssessedOf(q)) /\ Cardinality(AssessedOf(q)) \in Nat
        <5>1. AssessedOf(q) \in SUBSET Listing
          BY DEF AssessedOf
        <5> QED BY <5>1, Countable
      <4>3. Cardinality(AssessedOf(q)') = Cardinality(AssessedOf(q)) + 1
        BY <4>1, <4>2, FS_AddElement
      <4> QED BY <1>2, <2>6, <2>7, <3>1, <3>2, <3>3, <4>3 DEF CountsOK, VisitsOK
    <3>4. CASE q # r
      <4>1. AssessedOf(q)' = AssessedOf(q)
        BY <1>2, <2>3, <3>4 DEF AssessedOf, r
      <4>2. metrics'[q] = metrics[q]
        BY <2>7, <3>4
      <4> QED BY <1>2, <3>1, <3>2, <4>1, <4>2 DEF CountsOK, VisitsOK
    <3> QED BY <3>3, <3>4
  <2> QED BY <1>5, <1>6, <2>4, <2>8, <2>9, <2>10, <2>11, LiveKeeps
<1> QED
  BY <1>8, <1>9

LEMMA TotalTyped ==
    ASSUME NEW l, assessment[l] \in AnyAssessment
    PROVE  Total(l) \in Int
<1> DEFINE a == assessment[l]
           state == inspection[l][a.round]
           capped == state = "Blocked" \/ (state = "NoWebsite" /\ ~Corroborated(row[l].business))
           severity == IF capped /\ a.severity > 4 THEN 4 ELSE a.severity
           contact == IF contacts[l] # {} THEN 15 ELSE 0
           local == IF canonical[row[l].business] = "Local" THEN 10 ELSE 0
<1>1. a.severity \in 0 .. 5 /\ a.extra \in 0 .. 20
  BY DEF AnyAssessment
<1>2. severity \in Int /\ contact \in Int /\ local \in Int /\ a.extra \in Int
  <2> HIDE DEF capped
  <2> QED BY <1>1
<1>3. Total(l) = 11 * severity + contact + local + a.extra
  BY Zenon DEF Total
<1> HIDE DEF severity, contact, local, a
<1> QED
  BY <1>2, <1>3

LEMMA ScoreKeeps ==
    ASSUME IInv, NEW l \in Listing, Score(l)
    PROVE  IInv'
<1> DEFINE r == runOf[l]
           b == row[l].business
<1>1. /\ task[l].stage = "Score" /\ task[l].step = "ready"
      /\ UNCHANGED <<given, inspection, assessment, review>> /\ Commits(l, "Done", task[l].round)
  BY DEF Score, At
<1>2. UNCHANGED <<content, runOf, policy, inspection, assessment, suppressed, decisions>>
  BY <1>1 DEF given, review
<1>3. TypeOK /\ DoneOK(l) /\ r \in Run /\ task[l].round \in Rounds /\ row[l] \in Row
  BY Typed
<1>4. /\ Works(l) /\ held'[l].stage = "Done" /\ held'[l].round = task[l].round
      /\ task'[l].step = "committed" /\ task'[l].stage = "Score"
  BY <1>1, <1>3, CommitsFacts
<1>5. HeldOK(l)'
  BY <1>3, <1>4, AfterFacts DEF HeldOK, At
<1>6. IsInspected(l) /\ Live(l) /\ IsInspected(l)' /\ assessment[l] # None
  BY <1>1, <1>2, <1>3 DEF DoneOK, Live, IsInspected
<1>7. DoneOK(l)'
  BY <1>2, <1>4, <1>6 DEF DoneOK, At
<1>8. CASE score[l] # None
  <2>1. UNCHANGED <<score, row, metrics>>
    BY <1>8 DEF Score
  <2> QED BY <1>1, <1>2, <1>4, <1>5, <1>6, <1>7, <2>1, WorkKeeps
<1>9. CASE score[l] = None
  <2> DEFINE total == Total(l)
             worthy == Deserves(l, Total(l)) /\ b \notin suppressed
             value == [kind |-> "score", total |-> total, qualified |-> worthy]
             status == IF score'[l].qualified THEN "Candidate" ELSE "BelowThreshold"
             books == [metrics[r] EXCEPT !.qualified = QualifiedIn(r)]
  <2>1. /\ score' = [score EXCEPT ![l] = value]
        /\ row' = [row EXCEPT ![l].status = status]
        /\ metrics' = [metrics EXCEPT ![r] = books]
    BY <1>3, <1>9 DEF Score, TypeOK
  <2>2. total \in Int
    <3>1. assessment[l] \in AnyAssessment
      BY <1>6, Typed
    <3> HIDE DEF total
    <3> QED BY <3>1, TotalTyped DEF total
  <2>3. worthy \in BOOLEAN /\ (worthy => b \notin suppressed)
    OBVIOUS
  <2> HIDE DEF total, worthy
  <2>4. value \in AnyScore /\ value # None /\ value.qualified = worthy
    BY <2>2, <2>3 DEF AnyScore, None
  <2> HIDE DEF value
  <2>5. /\ score' \in [Listing -> AnyScore \cup {None}]
        /\ score'[l] = value /\ \A m \in Listing \ {l} : score'[m] = score[m]
    BY <1>3, <2>1, <2>4 DEF TypeOK
  <2>6. status \in Status /\ status \notin Excluded
    BY DEF Status, Excluded
  <2>7. /\ row' \in [Listing -> Row] /\ row'[l].business = row[l].business
        /\ row'[l].status \notin Excluded /\ \A m \in Listing \ {l} : row'[m] = row[m]
    <3> HIDE DEF status
    <3> QED BY <1>3, <2>1, <2>6, RowChanged
  <2>8. Writes(l)
    BY <1>1, <1>2, <1>4, <2>5, <2>7 DEF Writes
  <2>9. metrics[r] \in Books
    BY <1>3 DEF TypeOK
  <2>10. QualifiedIn(r) \in Nat
    <3>1. {m \in Listing : runOf[m] = r /\ score'[m] # None /\ score'[m].qualified} \in SUBSET Listing
      OBVIOUS
    <3> QED BY <3>1, Countable, Zenon DEF QualifiedIn
  <2>11. /\ books \in Books /\ books.qualified = QualifiedIn(r)
         /\ books.exclusions = metrics[r].exclusions /\ books.websites = metrics[r].websites
         /\ books.blocked = metrics[r].blocked /\ books.assessments = metrics[r].assessments
    BY <2>9, <2>10 DEF Books
  <2> HIDE DEF books, r
  <2>12. /\ metrics' \in [Run -> Books] /\ metrics'[r] = books
         /\ \A q \in Run \ {r} : metrics'[q] = metrics[q]
    BY <1>3, <2>1, <2>11 DEF TypeOK
  <2>13. TypeOK'
    BY <1>2, <1>3, <1>4, <2>5, <2>7, <2>12 DEF TypeOK, Works
  <2>14. score'[l] # None /\ score'[l].qualified =>
           score[l] = score'[l] \/ row[l].business \notin suppressed
    BY <2>3, <2>4, <2>5
  <2>15. MetricsAgree'
    <3> SUFFICES ASSUME NEW q \in Run PROVE CountsOK(q)' /\ VisitsOK(q)'
      BY BooksAfter
    <3>1. CountsOK(q) /\ VisitsOK(q)
      BY BooksBefore DEF IInv
    <3>2. /\ ExcludedOf(q)' = ExcludedOf(q) /\ AssessedOf(q)' = AssessedOf(q)
          /\ \A statuses : VisitsOf(q, statuses)' = VisitsOf(q, statuses)
      BY <1>2, <1>6, <2>8, LiveExcluded DEF AssessedOf, VisitsOf
    <3>3. CASE q = r
      <4>1. QualifiedIn(r) = Cardinality(QualifiedOf(q)')
        BY <1>2, <3>3 DEF QualifiedIn, QualifiedOf
      <4> QED BY <1>2, <2>11, <2>12, <3>1, <3>2, <3>3, <4>1 DEF CountsOK, VisitsOK
    <3>4. CASE q # r
      <4>1. QualifiedOf(q)' = QualifiedOf(q)
        BY <1>2, <2>5, <3>4 DEF QualifiedOf, r
      <4>2. metrics'[q] = metrics[q]
        BY <2>12, <3>4
      <4> QED BY <1>2, <3>1, <3>2, <4>1, <4>2 DEF CountsOK, VisitsOK
    <3> QED BY <3>3, <3>4
  <2> QED BY <1>5, <1>6, <1>7, <2>8, <2>13, <2>14, <2>15, LiveKeeps
<1> QED
  BY <1>8, <1>9
-----------------------------------------------------------------------------
(* Decisions of a reviewer.                                                *)

\* A decision changes what scores are worth, of listings that have one, and
\* is not among what the run's counters count.
LEMMA DecisionKeeps ==
    ASSUME IInv, UNCHANGED <<given, work, inspection, assessment, metrics>>,
           row' \in [Listing -> Row], score' \in [Listing -> AnyScore \cup {None}],
           decisions' = decisions + 1,
           \A m \in Listing :
             /\ row'[m].business = row[m].business
             /\ score'[m] # None <=> score[m] # None
             /\ row'[m].status = row[m].status
                \/ (score[m] # None /\ row'[m].status \notin Excluded),
           SuppressedIsNotRecommended'
    PROVE  IInv'
<1>1. UNCHANGED <<content, runOf, policy, task, held, inspection, assessment, metrics>>
  BY DEF given, work
<1>2. decisions \in Nat /\ decisions' \in Nat /\ decisions' # 0
  BY DEF IInv, TypeOK
<1>3. TypeOK'
  BY <1>1, <1>2 DEF IInv, TypeOK
<1>4. ASSUME NEW m \in Listing
      PROVE  /\ ListingOK(m)' /\ (Live(m)' <=> Live(m))
             /\ row'[m].status \in Excluded <=> row[m].status \in Excluded
  <2>1. HeldOK(m) /\ DoneOK(m) /\ (Live(m) => row[m].status \notin Excluded)
    BY Typed
  <2>2. Live(m)' <=> Live(m)
    BY <1>1 DEF Live, IsInspected, At
  <2>3. HeldOK(m)' /\ DoneOK(m)'
    BY <1>1, <2>1 DEF HeldOK, DoneOK, IsInspected, At
  <2>4. score[m] # None => Live(m)
    BY <2>1 DEF DoneOK, Live
  <2> QED BY <2>1, <2>2, <2>3, <2>4 DEF ListingOK
<1>5. OnceOK'
  BY <1>1, <1>4 DEF IInv, OnceOK
<1>6. MetricsAgree'
  <2> SUFFICES ASSUME NEW q \in Run PROVE CountsOK(q)' /\ VisitsOK(q)'
    BY BooksAfter
  <2>1. CountsOK(q) /\ VisitsOK(q)
    BY BooksBefore DEF IInv
  <2>2. /\ ExcludedOf(q)' = ExcludedOf(q) /\ AssessedOf(q)' = AssessedOf(q)
        /\ \A statuses : VisitsOf(q, statuses)' = VisitsOf(q, statuses)
    BY <1>1, <1>4 DEF ExcludedOf, AssessedOf, VisitsOf
  <2> QED BY <1>1, <1>2, <2>1, <2>2 DEF CountsOK, VisitsOK
<1> QED
  BY <1>3, <1>4, <1>5, <1>6 DEF IInv

LEMMA SuppressEffect ==
    ASSUME IInv, NEW l \in Listing, Suppress(l)
    PROVE  /\ score' \in [Listing -> AnyScore \cup {None}]
           /\ \A m \in Listing :
                /\ score'[m] # None <=> score[m] # None
                /\ score[m] # None => score'[m].total = score[m].total
                /\ row[m].business = row[l].business /\ score'[m] # None => ~score'[m].qualified
                /\ row[m].business # row[l].business => score'[m] = score[m]
<1> DEFINE b == row[l].business
<1>1. /\ score' = [m \in Listing |-> score'[m]]
      /\ \A m \in Listing : score'[m] = IF m \in ScoresOf(b)
                                       THEN [score[m] EXCEPT !.qualified = FALSE] ELSE score[m]
  BY DEF Suppress
<1>2. ASSUME NEW m \in Listing
      PROVE  /\ score'[m] \in AnyScore \cup {None}
             /\ score'[m] # None <=> score[m] # None
             /\ score[m] # None => score'[m].total = score[m].total
             /\ row[m].business = b /\ score'[m] # None => ~score'[m].qualified
             /\ row[m].business # b => score'[m] = score[m]
  <2>1. score[m] \in AnyScore \cup {None}
    BY Typed
  <2>2. m \in ScoresOf(b) <=> score[m] # None /\ row[m].business = b
    BY DEF ScoresOf
  <2>3. CASE m \in ScoresOf(b)
    <3> DEFINE s == score[m]
               new == score'[m]
    <3>1. s \in AnyScore /\ new = [s EXCEPT !.qualified = FALSE]
      BY <1>1, <2>1, <2>2, <2>3
    <3> HIDE DEF s, new
    <3>2. new \in AnyScore /\ new # None /\ ~new.qualified /\ new.total = s.total
      BY <3>1 DEF AnyScore, None
    <3> QED BY <2>2, <2>3, <3>2 DEF s, new
  <2>4. CASE m \notin ScoresOf(b)
    <3>1. score'[m] = score[m]
      BY <1>1, <2>4
    <3> HIDE DEF b
    <3> QED BY <2>1, <2>2, <2>4, <3>1
  <2> QED BY <2>3, <2>4
<1> QED
  BY <1>1, <1>2

LEMMA SuppressKeeps ==
    ASSUME IInv, NEW l \in Listing, Suppress(l)
    PROVE  IInv'
<1>1. /\ UNCHANGED <<given, work, row, inspection, assessment, metrics>>
      /\ decisions' = decisions + 1 /\ suppressed' = suppressed \cup {row[l].business}
  BY DEF Suppress, identity
<1>2. row' \in [Listing -> Row] /\ row' = row
  BY <1>1 DEF IInv, TypeOK
<1>3. SuppressedIsNotRecommended'
  BY <1>1, SuppressEffect DEF IInv, SuppressedIsNotRecommended
<1> QED
  BY <1>1, <1>2, <1>3, SuppressEffect, DecisionKeeps

LEMMA LiftEffect ==
    ASSUME IInv, NEW b, Lift(b)
    PROVE  /\ score' \in [Listing -> AnyScore \cup {None}] /\ row' \in [Listing -> Row]
           /\ \A m \in Listing :
                /\ score'[m] # None <=> score[m] # None
                /\ score[m] # None => score'[m].total = score[m].total
                /\ row[m].business # b => score'[m] = score[m]
                /\ row'[m].business = row[m].business
                /\ row'[m].status = row[m].status
                   \/ (score[m] # None /\ row'[m].status \notin Excluded)
<1>1. /\ score' = [m \in Listing |-> score'[m]] /\ row' = [m \in Listing |-> row'[m]]
      /\ \A m \in Listing :
           /\ score'[m] = IF m \in ScoresOf(b)
                          THEN [score[m] EXCEPT !.qualified = Deserves(m, score[m].total)]
                          ELSE score[m]
           /\ row'[m] = IF m \in ScoresOf(b)
                        THEN [row[m] EXCEPT !.status =
                                IF score'[m].qualified THEN "Candidate" ELSE "BelowThreshold"]
                        ELSE row[m]
  BY Zenon DEF Lift
<1>2. ASSUME NEW m \in Listing
      PROVE  /\ score'[m] \in AnyScore \cup {None} /\ row'[m] \in Row
             /\ score'[m] # None <=> score[m] # None
             /\ score[m] # None => score'[m].total = score[m].total
             /\ row[m].business # b => score'[m] = score[m]
             /\ row'[m].business = row[m].business
             /\ row'[m].status = row[m].status
                \/ (score[m] # None /\ row'[m].status \notin Excluded)
  <2>1. score[m] \in AnyScore \cup {None} /\ row[m] \in Row
    BY Typed
  <2>2. m \in ScoresOf(b) <=> score[m] # None /\ row[m].business = b
    BY DEF ScoresOf
  <2>3. CASE m \in ScoresOf(b)
    <3> DEFINE s == score[m]
               new == score'[m]
               worthy == Deserves(m, score[m].total)
               status == IF score'[m].qualified THEN "Candidate" ELSE "BelowThreshold"
               old == row[m]
               next == row'[m]
    <3>1. s \in AnyScore /\ new = [s EXCEPT !.qualified = worthy]
          /\ next = [old EXCEPT !.status = status] /\ old \in Row
      BY <1>1, <2>1, <2>2, <2>3
    <3>2. worthy \in BOOLEAN
      BY DEF Deserves
    <3>3. status \in Status /\ status \notin Excluded
      BY DEF Status, Excluded
    <3> HIDE DEF s, new, worthy, status, old, next
    <3>4. new \in AnyScore /\ new # None /\ new.total = s.total
      BY <3>1, <3>2 DEF AnyScore, None
    <3>5. next \in Row /\ next.business = old.business /\ next.status \notin Excluded
      BY <3>1, <3>3 DEF Row
    <3> QED BY <2>2, <2>3, <3>4, <3>5 DEF s, new, old, next
  <2>4. CASE m \notin ScoresOf(b)
    BY <1>1, <2>1, <2>2, <2>4
  <2> QED BY <2>3, <2>4
<1> QED
  BY <1>1, <1>2

LEMMA LiftKeeps ==
    ASSUME IInv, NEW b, Lift(b)
    PROVE  IInv'
<1>1. /\ UNCHANGED <<given, work, inspection, assessment, metrics>>
      /\ decisions' = decisions + 1 /\ suppressed' = suppressed \ {b}
  BY DEF Lift
<1>2. SuppressedIsNotRecommended'
  BY <1>1, LiftEffect DEF IInv, SuppressedIsNotRecommended
<1> QED
  BY <1>1, <1>2, LiftEffect, DecisionKeeps
-----------------------------------------------------------------------------
(* The invariant, and what it says.                                        *)

LEMMA InitHolds == Init => IInv
<1> SUFFICES ASSUME Init PROVE IInv
  OBVIOUS
<1>1. PICK w \in Worlds : content = w.content /\ runOf = w.runOf /\ policy = w.policy
  BY DEF Init
<1>2. /\ w.content \in [Listing -> Content]
      /\ w.runOf \in [Listing -> Run]
  BY EvaluationAssumption DEF Content
<1>3. /\ \A l \in Listing : task[l] = [stage |-> "Corroborate", step |-> "ready", round |-> 1]
      /\ \A l \in Listing : row[l] = [business |-> NoBusiness, status |-> "none"]
      /\ \A l \in Listing : inspection[l] = <<"none", "none">>
      /\ \A l \in Listing : assessment[l] = None /\ score[l] = None
      /\ suppressed = {} /\ decisions = 0
  BY DEF Init
<1>4. TypeOK
  <2>1. content \in [Listing -> Content]
    BY <1>1, <1>2
  <2>2. task \in [Listing -> Task] /\ DOMAIN held = Listing
    BY DEF Init, Task, Stages, Rounds
  <2>3. row \in [Listing -> Row]
    BY DEF Init, Row, Status
  <2>4. inspection \in [Listing -> [Rounds -> Inspected \cup {"none"}]]
    BY DEF Init, Rounds
  <2>5. assessment \in [Listing -> AnyAssessment \cup {None}]
        /\ score \in [Listing -> AnyScore \cup {None}]
    BY DEF Init
  <2>6. metrics \in [Run -> Books] /\ decisions \in Nat
    BY DEF Init, Books
  <2> QED BY <1>1, <1>2, <2>1, <2>2, <2>3, <2>4, <2>5, <2>6 DEF TypeOK
<1>5. \A l \in Listing : ~IsInspected(l) /\ ~Live(l)
  BY <1>3 DEF IsInspected, Live, At
<1>6. \A l \in Listing : ListingOK(l)
  BY <1>3, <1>5 DEF ListingOK, HeldOK, DoneOK, At
<1>7. OnceOK /\ SuppressedIsNotRecommended
  BY <1>3, <1>5 DEF OnceOK, SuppressedIsNotRecommended
<1>8. MetricsAgree
  <2> SUFFICES ASSUME NEW r \in Run PROVE CountsOK(r) /\ VisitsOK(r)
    BY BooksBefore
  <2>1. ExcludedOf(r) = {} /\ AssessedOf(r) = {} /\ QualifiedOf(r) = {}
    BY <1>3 DEF ExcludedOf, AssessedOf, QualifiedOf, Excluded
  <2>2. VisitsOf(r, {"Complete", "Partial", "Blocked"}) = {}
        /\ VisitsOf(r, {"Partial", "Blocked"}) = {}
    <3>1. \A p \in Listing \X {1, 2} : inspection[p[1]][p[2]] = "none"
      BY <1>3
    <3> QED BY <3>1 DEF VisitsOf
  <2>3. /\ metrics[r].exclusions = 0 /\ metrics[r].websites = 0 /\ metrics[r].blocked = 0
        /\ metrics[r].assessments = 0 /\ metrics[r].qualified = 0
    BY DEF Init
  <2> QED BY <2>1, <2>2, <2>3, FS_EmptySet DEF CountsOK, VisitsOK
<1> QED
  BY <1>4, <1>6, <1>7, <1>8 DEF IInv

LEMMA NextPreserves == IInv /\ [Next]_vars => IInv'
<1> SUFFICES ASSUME IInv, [Next]_vars PROVE IInv'
  OBVIOUS
<1>1. ASSUME NEW l \in Listing, Stage(l)
      PROVE  IInv'
  <2>1. CASE Corroborate(l) \/ Inspect(l) \/ SearchWebsite(l)
    BY <2>1, CallSteps
  <2>2. CASE Assess(l)
    BY <2>2, CallSteps, TaskSteps
  <2>3. CASE CommitEvaluation(l)
    BY <2>3, EvaluationKeeps
  <2>4. CASE CommitInspection(l)
    BY <2>4, InspectionKeeps
  <2>5. CASE ConfirmSettled(l) \/ CommitConfirmation(l)
    BY <2>5, ConfirmSteps
  <2>6. CASE CommitAssessment(l)
    BY <2>6, AssessmentKeeps
  <2>7. CASE Score(l)
    BY <2>7, ScoreKeeps
  <2>8. CASE Checkpoint(l)
    BY <2>8, TaskSteps
  <2> QED BY <1>1, <2>1, <2>2, <2>3, <2>4, <2>5, <2>6, <2>7, <2>8 DEF Stage
<1>2. ASSUME NEW l \in Listing, Fail(l) \/ Interrupt(l)
      PROVE  IInv'
  BY <1>2, TaskSteps
<1>3. ASSUME NEW l \in Listing, Suppress(l)
      PROVE  IInv'
  BY <1>3, SuppressKeeps
<1>4. ASSUME NEW b \in Fingerprint, Lift(b)
      PROVE  IInv'
  BY <1>4, LiftKeeps
<1>5. CASE UNCHANGED vars
  <2>1. /\ UNCHANGED <<content, runOf, policy, task, held, row, inspection, assessment, score>>
        /\ UNCHANGED <<suppressed, metrics, decisions>>
    BY <1>5 DEF vars, given, work, identity, evidence, review
  <2>2. TypeOK'
    BY <2>1 DEF IInv, TypeOK
  <2>3. \A l \in Listing : Same(l)
    BY <2>1 DEF Same
  <2>4. \A l \in Listing : ListingOK(l)' /\ (Live(l)' <=> Live(l))
    BY <2>3, SameKeeps DEF IInv
  <2>5. OnceOK' /\ SuppressedIsNotRecommended'
    BY <2>1, <2>4 DEF IInv, OnceOK, SuppressedIsNotRecommended
  <2>6. MetricsAgree'
    BY <2>1, SameBooks DEF IInv
  <2> QED BY <2>2, <2>4, <2>5, <2>6 DEF IInv
<1> QED
  BY <1>1, <1>2, <1>3, <1>4, <1>5 DEF Next

\* The evaluation never leaves its inductive invariant: types, what each stage
\* implies of the rows written before it, one live listing per business and run,
\* and the run's counters.
THEOREM EvaluationInvariant == Spec => []IInv
<1>1. Init => IInv
  BY InitHolds
<1>2. IInv /\ [Next]_vars => IInv'
  BY NextPreserves
<1> QED
  BY <1>1, <1>2, PTL DEF Spec

\* In one run a business is evaluated through one listing at most, in whatever
\* order its listings are corroborated and however often a stage is retried.
THEOREM BusinessesAreEvaluatedOnce == Spec => []EvaluatedOnce
<1>1. IInv => EvaluatedOnce
  <2>1. \A l \in Listing : inspection[l][1] # "none" => Live(l)
    BY DEF Live, IsInspected
  <2> QED BY <2>1, Zenon DEF IInv, OnceOK, EvaluatedOnce
<1> QED
  BY <1>1, EvaluationInvariant, PTL

\* No score recommends a suppressed business, neither one that existed when it
\* was suppressed nor one of a stage that was under way.
THEOREM SuppressedStaysUnrecommended == Spec => []SuppressedIsNotRecommended
<1>1. IInv => SuppressedIsNotRecommended
  BY DEF IInv
<1> QED
  BY <1>1, EvaluationInvariant, PTL

\* The run's counters are what its rows say, with every stage retried after its
\* own commit.
THEOREM MetricsStayTrue == Spec => []MetricsAgree
<1>1. IInv => MetricsAgree
  BY DEF IInv
<1> QED
  BY <1>1, EvaluationInvariant, PTL

\* The evidence of a listing stays as first committed.
Fixed(l) ==
    /\ \A k \in {1, 2} : inspection[l][k] # "none" => inspection'[l][k] = inspection[l][k]
    /\ assessment[l] # None => assessment'[l] = assessment[l]
    /\ score[l] # None => score'[l].total = score[l].total

LEMMA EvidenceSteps ==
    ASSUME IInv, [Next]_vars, NEW m \in Listing
    PROVE  Fixed(m)
<1>1. TypeOK
  BY DEF IInv
<1>2. ASSUME UNCHANGED <<inspection, assessment, score>>
      PROVE  Fixed(m)
  BY <1>2 DEF Fixed
<1>3. ASSUME NEW l \in Listing, Stage(l) \/ Fail(l) \/ Interrupt(l), UNCHANGED evidence
      PROVE  Fixed(m)
  BY <1>2, <1>3 DEF evidence
<1>4. ASSUME NEW l \in Listing, CommitInspection(l)
      PROVE  Fixed(m)
  <2> DEFINE k == task[l].round
  <2>1. \/ inspection' = inspection
        \/ inspection[l][k] = "none"
           /\ inspection' = [inspection EXCEPT ![l][k] = held[l].status]
    BY <1>4 DEF CommitInspection, StoreInspection
  <2>2. assessment' = assessment /\ score' = score /\ k \in Rounds
    BY <1>4, Typed DEF CommitInspection
  <2>3. \A j \in {1, 2} : inspection[m][j] # "none" => inspection'[m][j] = inspection[m][j]
    <3> HIDE DEF k
    <3> QED BY <1>1, <2>1, <2>2 DEF TypeOK, Rounds
  <2> QED BY <2>2, <2>3 DEF Fixed
<1>5. ASSUME NEW l \in Listing, CommitAssessment(l)
      PROVE  Fixed(m)
  <2>1. \/ assessment' = assessment
        \/ assessment[l] = None /\ assessment' = [assessment EXCEPT ![l] = held[l]]
    BY <1>5 DEF CommitAssessment
  <2>2. inspection' = inspection /\ score' = score
    BY <1>5 DEF CommitAssessment
  <2> QED BY <1>1, <2>1, <2>2 DEF Fixed, TypeOK
<1>6. ASSUME NEW l \in Listing, Score(l)
      PROVE  Fixed(m)
  <2>1. \/ score' = score
        \/ score[l] = None /\ \A n \in Listing \ {l} : score'[n] = score[n]
    BY <1>1, <1>6 DEF Score, TypeOK
  <2>2. inspection' = inspection /\ assessment' = assessment
    BY <1>6 DEF Score
  <2> QED BY <2>1, <2>2 DEF Fixed
<1>7. ASSUME NEW l \in Listing, Suppress(l)
      PROVE  Fixed(m)
  BY <1>7, SuppressEffect DEF Suppress, Fixed
<1>8. ASSUME NEW b, Lift(b)
      PROVE  Fixed(m)
  BY <1>8, LiftEffect DEF Lift, Fixed
<1>9. CASE UNCHANGED vars
  BY <1>2, <1>9 DEF vars, evidence
<1>10. \A l \in Listing :
         Corroborate(l) \/ CommitEvaluation(l) \/ Inspect(l) \/ ConfirmSettled(l)
           \/ SearchWebsite(l) \/ CommitConfirmation(l) \/ Assess(l) \/ Checkpoint(l)
           \/ Fail(l) \/ Interrupt(l)
         => UNCHANGED <<inspection, assessment, score>>
  BY DEF Corroborate, CommitEvaluation, Inspect, ConfirmSettled, SearchWebsite,
         CommitConfirmation, Assess, Checkpoint, Fail, Interrupt, evidence
<1> QED
  BY <1>2, <1>4, <1>5, <1>6, <1>7, <1>8, <1>9, <1>10 DEF Next, Stage

\* What a reader was shown does not change: an inspection, an assessment and a
\* total stay as first committed, under every retry and every decision.
THEOREM EvidenceStaysFixed == Spec => EvidenceIsFixed
<1>1. IInv /\ [Next]_vars => [\A l \in Listing : Fixed(l)]_vars
  BY EvidenceSteps
<1> QED
  BY <1>1, EvaluationInvariant, PTL DEF Spec, EvidenceIsFixed, Fixed
=============================================================================
