---------------------------- MODULE NewRunProofs ----------------------------
(***************************************************************************)
(* Proofs about NewRun, for any locations, areas and numbers of requests   *)
(* and changes of the machine: a run of a search is one the user           *)
(* confirmed, once, and one that searches an area of its own location.     *)
(***************************************************************************)
EXTENDS NewRun, FiniteSetTheorems, SequenceTheorems, TLAPS

-----------------------------------------------------------------------------
(* The inductive invariant.                                                *)

AnyDraft == [location : Locations \cup {"", SourceBrief.location}, target : Targets]
AnyArea == Areas \cup {"none", "source"}
JobKinds == {"preflight", "create", "reassess"}

Preflight == [asked : AnyDraft, areas : SUBSET Areas, ready : BOOLEAN, shown : BOOLEAN]
Form == [draft : AnyDraft, preflight : Preflight, area : AnyArea, request : Nat,
         busy : Nat, made : Nat]
AnyJob == [kind : JobKinds, draft : AnyDraft, area : AnyArea, request : Nat,
           step : {"check", "locate", "create", "answered", "refused"},
           ready : BOOLEAN, areas : SUBSET Areas, run : Nat]
AnyRun == [kind : JobKinds, request : Nat, draft : AnyDraft, area : AnyArea,
           state : {"Pending", "Running", "Completed"}]

TypeOK ==
    /\ form \in Form /\ jobs \in Seq(AnyJob) /\ runs \in Seq(AnyRun)
    /\ form.busy <= Len(jobs)
    /\ defaults \in Targets /\ located \subseteq Locations
    /\ works \subseteq Parts /\ catalog \in {"unread", "offered", "missing"}
    /\ changes \in 0 .. MaxChanges

Confirmation(request, draft, area) == [request |-> request, draft |-> draft, area |-> area]

\* A request to create a run sends what the user confirmed; and before a run is
\* created of it, its draft has been decoded and its location looked up again.
JobOK(job, known) ==
    job.kind = "create" =>
        /\ Confirmation(job.request, job.draft, job.area) \in known
        /\ job.step = "create" => IsDraft(job.draft) /\ job.areas = Interpreted(job.draft)

\* A run of a search was confirmed, and searches an area of its location.
RunOK(run, known) ==
    run.kind = "create" =>
        /\ Confirmation(run.request, run.draft, run.area) \in known
        /\ IsDraft(run.draft) /\ run.area \in AreasOf[run.draft.location]

JobsOK == \A j \in DOMAIN jobs : JobOK(jobs[j], confirmed)
RunsOK == \A r \in DOMAIN runs : RunOK(runs[r], confirmed)
OneRunEach == \A r, s \in DOMAIN runs : runs[r].request = runs[s].request => r = s

IInv == TypeOK /\ JobsOK /\ RunsOK /\ OneRunEach

-----------------------------------------------------------------------------
(* Sequences.                                                              *)

\* What an append and a replacement make of a sequence, element by element.
LEMMA Appended ==
    ASSUME NEW S, NEW seq \in Seq(S), NEW e \in S
    PROVE  /\ Append(seq, e) \in Seq(S) /\ Len(Append(seq, e)) = Len(seq) + 1
           /\ Len(seq) \in Nat /\ DOMAIN seq = 1 .. Len(seq)
           /\ DOMAIN Append(seq, e) = 1 .. (Len(seq) + 1)
           /\ \A i \in DOMAIN seq : seq[i] \in S /\ Append(seq, e)[i] = seq[i]
           /\ Append(seq, e)[Len(seq) + 1] = e
<1>1. /\ Append(seq, e) \in Seq(S) /\ Len(Append(seq, e)) = Len(seq) + 1
      /\ \A i \in 1 .. Len(seq) : Append(seq, e)[i] = seq[i]
      /\ Append(seq, e)[Len(seq) + 1] = e
  BY AppendProperties
<1>2. /\ Len(seq) \in Nat /\ DOMAIN seq = 1 .. Len(seq)
      /\ \A i \in 1 .. Len(seq) : seq[i] \in S
  OBVIOUS
<1> DEFINE t == Append(seq, e)
<1> HIDE DEF t
<1>3. t \in Seq(S) => DOMAIN t = 1 .. Len(t)
  OBVIOUS
<1>4. DOMAIN Append(seq, e) = 1 .. (Len(seq) + 1)
  BY <1>1, <1>3 DEF t
<1> QED BY <1>1, <1>2, <1>4

LEMMA Replaced ==
    ASSUME NEW S, NEW seq \in Seq(S), NEW i \in DOMAIN seq, NEW e \in S
    PROVE  LET t == [seq EXCEPT ![i] = e] IN
           /\ t \in Seq(S) /\ Len(t) = Len(seq) /\ DOMAIN t = DOMAIN seq
           /\ t[i] = e /\ \A k \in DOMAIN seq \ {i} : t[k] = seq[k]
BY ExceptSeq

-----------------------------------------------------------------------------
(* Drafts, forms and jobs.                                                 *)

LEMMA DraftFacts ==
    /\ Drafts \subseteq AnyDraft /\ SourceBrief \in AnyDraft
    /\ \A target \in Targets : [Empty EXCEPT !.target = target] \in AnyDraft
    /\ Empty \in AnyDraft /\ 1 \in Targets /\ Minimum \in Targets
<1>1. 1 \in Targets /\ Minimum \in Targets
  BY DEF Targets, Minimum
<1>2. Drafts \subseteq AnyDraft
  BY DEF Drafts, AnyDraft
<1>3. SourceBrief \in AnyDraft
  <2>1. SourceBrief = [location |-> SourceBrief.location, target |-> 1]
    BY DEF SourceBrief
  <2>2. ASSUME NEW l
        PROVE  [location |-> l, target |-> 1] \in [location : Locations \cup {"", l},
                                                  target : Targets]
    BY <1>1
  <2>3. [location |-> SourceBrief.location, target |-> 1] \in AnyDraft
    BY <2>2 DEF AnyDraft
  <2> HIDE DEF SourceBrief
  <2> QED BY <2>1, <2>3
<1>4. Empty \in AnyDraft
  BY <1>1 DEF Empty, AnyDraft
<1>5. \A target \in Targets : [Empty EXCEPT !.target = target] \in AnyDraft
  BY <1>1 DEF Empty, AnyDraft
<1> QED BY <1>1, <1>2, <1>3, <1>4, <1>5

LEMMA FreshForms ==
    ASSUME NEW target \in Targets
    PROVE  /\ Fresh(target) \in Form /\ Fresh(target).busy = 0
           /\ \A draft \in AnyDraft, busy \in Nat :
                LET new == [Fresh(target) EXCEPT !.draft = draft, !.busy = busy]
                IN  new \in Form /\ new.busy = busy
<1>1. NoPreflight \in Preflight
  BY DraftFacts DEF NoPreflight, Preflight
<1>2. Fresh(target) \in Form /\ Fresh(target).busy = 0
  BY <1>1, DraftFacts DEF Fresh, Form, AnyArea
<1>3. ASSUME NEW draft \in AnyDraft, NEW busy \in Nat
      PROVE  LET new == [Fresh(target) EXCEPT !.draft = draft, !.busy = busy]
             IN  new \in Form /\ new.busy = busy
  BY <1>2 DEF Form
<1> QED BY <1>2, <1>3

LEMMA NewJobs ==
    ASSUME NEW kind \in JobKinds, NEW draft \in AnyDraft, NEW area \in AnyArea,
           NEW request \in Nat
    PROVE  LET job == Job(kind, draft, area, request)
           IN  /\ job \in AnyJob /\ job.kind = kind /\ job.draft = draft
               /\ job.area = area /\ job.request = request /\ job.step = "check"
BY DEF Job, AnyJob

-----------------------------------------------------------------------------
(* Steps of the invariant's parts.                                         *)

TypeFacts ==
    /\ form \in Form /\ jobs \in Seq(AnyJob) /\ runs \in Seq(AnyRun)
    /\ Len(jobs) \in Nat /\ DOMAIN jobs = 1 .. Len(jobs) /\ form.busy <= Len(jobs)
    /\ \A j \in DOMAIN jobs : jobs[j] \in AnyJob /\ JobOK(jobs[j], confirmed)

LEMMA Typed == IInv => TypeFacts
<1> SUFFICES ASSUME IInv PROVE TypeFacts
  OBVIOUS
<1>1. /\ form \in Form /\ jobs \in Seq(AnyJob) /\ runs \in Seq(AnyRun)
      /\ form.busy <= Len(jobs) /\ \A j \in DOMAIN jobs : JobOK(jobs[j], confirmed)
  BY DEF IInv, TypeOK, JobsOK
<1>2. Len(jobs) \in Nat /\ DOMAIN jobs = 1 .. Len(jobs) /\ \A j \in DOMAIN jobs : jobs[j] \in AnyJob
  BY <1>1
<1> QED BY <1>1, <1>2 DEF TypeFacts

\* A step of the form changes nothing else.
LEMMA FormKeeps ==
    ASSUME IInv, UNCHANGED <<server, machine, confirmed>>, form' \in Form,
           form'.busy \in {0, form.busy}
    PROVE  IInv'
<1>1. UNCHANGED <<jobs, runs, defaults, located, catalog, works, changes, confirmed>>
  BY DEF server, machine
<1>2. form'.busy <= Len(jobs)
  BY Typed DEF TypeFacts, Form
<1>3. TypeOK'
  BY <1>1, <1>2 DEF IInv, TypeOK
<1>4. JobsOK' /\ RunsOK' /\ OneRunEach'
  BY <1>1 DEF IInv, JobsOK, RunsOK, OneRunEach, JobOK, RunOK
<1> QED BY <1>3, <1>4 DEF IInv

\* A new request, for which the form may wait; more may be confirmed with it.
LEMMA PostKeeps ==
    ASSUME IInv, NEW job \in AnyJob, Posts(job), form' \in Form,
           form'.busy \in {form.busy, Len(jobs) + 1},
           UNCHANGED <<runs, defaults, located, catalog, works, changes>>,
           confirmed \subseteq confirmed', JobOK(job, confirmed')
    PROVE  IInv'
<1>1. TypeFacts
  BY Typed
<1>2. /\ jobs' = Append(jobs, job) /\ jobs' \in Seq(AnyJob) /\ Len(jobs') = Len(jobs) + 1
      /\ DOMAIN jobs' = 1 .. (Len(jobs) + 1) /\ jobs'[Len(jobs) + 1] = job
      /\ \A i \in DOMAIN jobs : jobs'[i] = jobs[i]
  BY <1>1, Appended DEF Posts, TypeFacts
<1>3. TypeOK'
  <2>1. form'.busy <= Len(jobs')
    BY <1>1, <1>2 DEF TypeFacts, Form
  <2> QED BY <1>2, <2>1 DEF IInv, TypeOK
<1>4. JobsOK'
  <2> SUFFICES ASSUME NEW j \in DOMAIN jobs' PROVE JobOK(jobs'[j], confirmed')
    BY DEF JobsOK
  <2>1. CASE j \in DOMAIN jobs
    BY <1>1, <1>2, <2>1 DEF TypeFacts, JobOK
  <2>2. CASE j = Len(jobs) + 1
    BY <1>2, <2>2
  <2> QED BY <1>1, <1>2, <2>1, <2>2 DEF TypeFacts
<1>5. RunsOK'
  BY DEF IInv, RunsOK, RunOK
<1>6. OneRunEach'
  BY DEF IInv, OneRunEach
<1> QED BY <1>3, <1>4, <1>5, <1>6 DEF IInv

\* A step of the server's work on a request, that creates no run.
LEMMA AnswerKeeps ==
    ASSUME IInv, NEW j \in DOMAIN jobs, NEW job \in AnyJob, Answers(j, job), JobOK(job, confirmed),
           UNCHANGED <<form, runs, defaults, works, changes, confirmed>>,
           located' \subseteq Locations, catalog' \in {"unread", "offered", "missing"}
    PROVE  IInv'
<1>1. TypeFacts
  BY Typed
<1>2. /\ jobs' \in Seq(AnyJob) /\ Len(jobs') = Len(jobs) /\ DOMAIN jobs' = DOMAIN jobs
      /\ jobs'[j] = job /\ \A i \in DOMAIN jobs \ {j} : jobs'[i] = jobs[i]
  BY <1>1, Replaced DEF TypeFacts, Answers
<1>3. TypeOK'
  BY <1>2 DEF IInv, TypeOK
<1>4. JobsOK'
  <2>1. \A i \in DOMAIN jobs' : JobOK(jobs'[i], confirmed')
    BY <1>1, <1>2 DEF TypeFacts
  <2> QED BY <2>1 DEF JobsOK, JobOK
<1>5. RunsOK' /\ OneRunEach'
  BY DEF IInv, RunsOK, RunOK, OneRunEach
<1> QED BY <1>3, <1>4, <1>5 DEF IInv

-----------------------------------------------------------------------------
(* The form's steps.                                                       *)

LEMMA FormSteps ==
    ASSUME IInv, Open \/ Edit \/ ShowPreflight \/ ShowError \/ SelectArea \/ ShowRun
    PROVE  IInv'
<1>1. TypeFacts /\ form \in Form /\ defaults \in Targets
  BY Typed DEF TypeFacts, IInv, TypeOK
<1>2. CASE Open
  BY <1>1, <1>2, FreshForms, FormKeeps DEF Open
<1>3. CASE Edit
  <2>1. PICK draft \in Drafts :
          form' = [Fresh(defaults) EXCEPT !.draft = draft, !.busy = form.busy]
    BY <1>3 DEF Edit
  <2>2. draft \in AnyDraft /\ form.busy \in Nat
    BY <1>1, DraftFacts DEF Form
  <2>3. form' \in Form /\ form'.busy = form.busy
    BY <1>1, <2>1, <2>2, FreshForms
  <2> QED BY <1>3, <2>3, FormKeeps DEF Edit
<1>4. CASE ShowPreflight
  <2> DEFINE job == jobs[form.busy]
             chosen == IF Cardinality(job.areas) = 1
                         THEN CHOOSE area \in job.areas : TRUE ELSE "none"
             preflight == [asked |-> job.draft, areas |-> job.areas,
                           ready |-> job.ready, shown |-> TRUE]
  <2>1. job \in AnyJob /\ form.busy \in Nat
    <3>1. form.busy \in DOMAIN jobs
      BY <1>1, <1>4 DEF ShowPreflight, TypeFacts, Form
    <3> QED BY <1>1, <3>1 DEF TypeFacts, Form
  <2>2. preflight \in Preflight
    BY <2>1 DEF AnyJob, Preflight
  <2>3. chosen \in AnyArea
    <3>1. ASSUME Cardinality(job.areas) = 1 PROVE job.areas # {}
      BY <3>1, FS_EmptySet
    <3>2. job.areas \subseteq Areas
      BY <2>1 DEF AnyJob
    <3> HIDE DEF job
    <3> QED BY <3>1, <3>2 DEF AnyArea
  <2> HIDE DEF chosen, preflight
  <2>4. form' = [form EXCEPT !.busy = 0, !.request = form.busy, !.preflight = preflight,
                             !.area = chosen]
    BY <1>4 DEF ShowPreflight, chosen, preflight
  <2>5. form' \in Form /\ form'.busy = 0
    BY <1>1, <2>1, <2>2, <2>3, <2>4 DEF Form
  <2> QED BY <1>4, <2>5, FormKeeps DEF ShowPreflight
<1>5. CASE ShowError
  <2>1. form' \in Form /\ form'.busy = 0
    BY <1>1, <1>5 DEF ShowError, Form
  <2> QED BY <1>5, <2>1, FormKeeps DEF ShowError
<1>6. CASE SelectArea
  <2>1. PICK area \in form.preflight.areas : form' = [form EXCEPT !.area = area]
    BY <1>6 DEF SelectArea
  <2>2. area \in AnyArea
    BY <1>1 DEF Form, Preflight, AnyArea
  <2>3. form' \in Form /\ form'.busy = form.busy
    BY <1>1, <2>1, <2>2 DEF Form
  <2> QED BY <1>6, <2>3, FormKeeps DEF SelectArea
<1>7. CASE ShowRun
  <2>1. jobs[form.busy].run \in Nat
    <3>1. form.busy \in DOMAIN jobs
      BY <1>1, <1>7 DEF ShowRun, TypeFacts, Form
    <3> QED BY <1>1, <3>1 DEF TypeFacts, AnyJob
  <2>2. form' \in Form /\ form'.busy = 0
    BY <1>1, <1>7, <2>1 DEF ShowRun, Form
  <2> QED BY <1>7, <2>2, FormKeeps DEF ShowRun
<1> QED BY <1>2, <1>3, <1>4, <1>5, <1>6, <1>7

\* Requests, from the form and from the reviewer.
LEMMA Requests ==
    ASSUME IInv, CheckPreflight \/ CreateRun \/ Reassess
    PROVE  IInv'
<1>1. TypeFacts /\ form \in Form /\ Len(jobs) \in Nat
  BY Typed DEF TypeFacts
<1>2. /\ form.draft \in AnyDraft /\ form.area \in AnyArea /\ form.request \in Nat
      /\ form.busy \in Nat
      /\ \A n \in Nat : [form EXCEPT !.busy = n] \in Form /\ [form EXCEPT !.busy = n].busy = n
  BY <1>1 DEF Form
<1>3. CASE CheckPreflight
  <2> DEFINE job == Job("preflight", form.draft, "none", 0)
  <2>1. job \in AnyJob /\ job.kind = "preflight"
    BY <1>2, NewJobs DEF JobKinds, AnyArea
  <2>2. /\ Posts(job) /\ form' \in Form /\ form'.busy = Len(jobs) + 1
        /\ UNCHANGED <<runs, defaults, located, catalog, works, changes, confirmed>>
    BY <1>1, <1>2, <1>3 DEF CheckPreflight, machine
  <2> HIDE DEF job
  <2>3. JobOK(job, confirmed')
    BY <2>1 DEF JobOK
  <2> QED BY <2>1, <2>2, <2>3, PostKeeps
<1>4. CASE CreateRun
  <2> DEFINE job == Job("create", form.draft, form.area, form.request)
  <2>1. /\ job \in AnyJob /\ job.kind = "create" /\ job.draft = form.draft
        /\ job.area = form.area /\ job.request = form.request /\ job.step = "check"
    BY <1>2, NewJobs DEF JobKinds
  <2>2. /\ Posts(job) /\ form' \in Form /\ form'.busy = Len(jobs) + 1
        /\ UNCHANGED <<runs, defaults, located, catalog, works, changes>>
        /\ confirmed' = confirmed \cup {Confirmation(form.request, form.draft, form.area)}
    BY <1>1, <1>2, <1>4 DEF CreateRun, machine, Confirmation
  <2> HIDE DEF job
  <2>3. JobOK(job, confirmed')
    BY <2>1, <2>2 DEF JobOK
  <2> QED BY <2>1, <2>2, <2>3, PostKeeps
<1>5. CASE Reassess
  <2> DEFINE request == MaxPosts + Len(jobs) + 1
             job == Job("reassess", SourceBrief, "source", request)
  <2>1. request \in Nat
    BY <1>1, NewRunAssumption
  <2> HIDE DEF request
  <2>2. job \in AnyJob /\ job.kind = "reassess"
    BY <2>1, DraftFacts, NewJobs DEF JobKinds, AnyArea
  <2>3. /\ Posts(job) /\ form' = form
        /\ UNCHANGED <<runs, defaults, located, catalog, works, changes, confirmed>>
    BY <1>5 DEF Reassess, machine, request
  <2> HIDE DEF job
  <2>4. JobOK(job, confirmed')
    BY <2>2 DEF JobOK
  <2> QED BY <1>1, <2>2, <2>3, <2>4, PostKeeps
<1> QED BY <1>3, <1>4, <1>5

-----------------------------------------------------------------------------
(* The server's steps.                                                     *)

LEMMA CheckKeeps == ASSUME IInv, NEW j \in DOMAIN jobs, Check(j) PROVE IInv'
<1>1. /\ TypeFacts /\ jobs[j] \in AnyJob /\ JobOK(jobs[j], confirmed) /\ located \subseteq Locations
      /\ catalog \in {"unread", "offered", "missing"}
  BY Typed DEF TypeFacts, IInv, TypeOK
<1>2. /\ UNCHANGED <<form, runs, defaults, works, changes, confirmed>>
      /\ located' \subseteq Locations /\ catalog' \in {"unread", "offered", "missing"}
  BY <1>1 DEF Check, machine
<1>3. ASSUME NEW job, Answers(j, job), job \in AnyJob, job.kind = jobs[j].kind,
             job.draft = jobs[j].draft, job.area = jobs[j].area,
             job.request = jobs[j].request, job.step # "create" \/ job.kind # "create"
      PROVE  IInv'
  <2>1. JobOK(job, confirmed)
    BY <1>1, <1>3 DEF JobOK
  <2> QED BY <1>2, <1>3, <2>1, AnswerKeeps
<1>4. CASE Refuses(j)
  <2> DEFINE job == [jobs[j] EXCEPT !.step = "refused"]
  <2>1. /\ job \in AnyJob /\ job.kind = jobs[j].kind /\ job.draft = jobs[j].draft
        /\ job.area = jobs[j].area /\ job.request = jobs[j].request /\ job.step = "refused"
    BY <1>1 DEF AnyJob
  <2> HIDE DEF job
  <2> QED BY <1>3, <1>4, <2>1 DEF Refuses, job
<1>5. CASE /\ jobs[j].kind = "reassess"
           /\ Answers(j, [jobs[j] EXCEPT !.step = "create", !.ready = RuntimeReady])
  <2> DEFINE job == [jobs[j] EXCEPT !.step = "create", !.ready = RuntimeReady]
  <2>1. RuntimeReady \in BOOLEAN
    BY DEF RuntimeReady
  <2>2. /\ job \in AnyJob /\ job.kind = jobs[j].kind /\ job.draft = jobs[j].draft
        /\ job.area = jobs[j].area /\ job.request = jobs[j].request
    BY <1>1, <2>1 DEF AnyJob
  <2> HIDE DEF job
  <2> QED BY <1>3, <1>5, <2>2 DEF job
<1>6. CASE \E offered \in Offers :
             Answers(j, [jobs[j] EXCEPT !.step = "locate",
                !.ready = DependenciesReady /\ RuntimeReady /\ offered])
  <2>1. PICK offered \in Offers :
             Answers(j, [jobs[j] EXCEPT !.step = "locate",
                !.ready = DependenciesReady /\ RuntimeReady /\ offered])
    BY <1>6
  <2> DEFINE ready == DependenciesReady /\ RuntimeReady /\ offered
             job == [jobs[j] EXCEPT !.step = "locate", !.ready = ready]
  <2>2. ready \in BOOLEAN
    OBVIOUS
  <2> HIDE DEF ready
  <2>3. /\ job \in AnyJob /\ job.kind = jobs[j].kind /\ job.draft = jobs[j].draft
        /\ job.area = jobs[j].area /\ job.request = jobs[j].request /\ job.step = "locate"
    BY <1>1, <2>2 DEF AnyJob
  <2> HIDE DEF job
  <2>4. Answers(j, job)
    BY <2>1 DEF job, ready
  <2> QED BY <1>3, <2>3, <2>4
<1> QED BY <1>4, <1>5, <1>6 DEF Check

LEMMA LocateKeeps == ASSUME IInv, NEW j \in DOMAIN jobs, Locate(j) PROVE IInv'
<1>1. /\ TypeFacts /\ jobs[j] \in AnyJob /\ JobOK(jobs[j], confirmed) /\ located \subseteq Locations
      /\ catalog \in {"unread", "offered", "missing"}
  BY Typed DEF TypeFacts, IInv, TypeOK
<1>2. /\ UNCHANGED <<form, runs, defaults, works, changes, confirmed>>
      /\ catalog' \in {"unread", "offered", "missing"}
  BY <1>1 DEF Locate, machine
<1>3. CASE Refuses(j) /\ UNCHANGED located
  <2> DEFINE job == [jobs[j] EXCEPT !.step = "refused"]
  <2>1. /\ job \in AnyJob /\ job.kind = jobs[j].kind /\ job.draft = jobs[j].draft
        /\ job.area = jobs[j].area /\ job.request = jobs[j].request /\ job.step = "refused"
    BY <1>1 DEF AnyJob
  <2> HIDE DEF job
  <2>2. JobOK(job, confirmed)
    BY <1>1, <2>1 DEF JobOK
  <2> QED BY <1>1, <1>2, <1>3, <2>1, <2>2, AnswerKeeps DEF Refuses, job
<1>4. CASE /\ IsDraft(jobs[j].draft)
           /\ LET areas == Interpreted(jobs[j].draft) IN
              Answers(j, [jobs[j] EXCEPT
                !.areas = areas, !.ready = @ /\ areas # {},
                !.step = IF jobs[j].kind = "preflight" THEN "answered" ELSE "create"])
           /\ Caches(jobs[j].draft.location)
  <2> DEFINE areas == Interpreted(jobs[j].draft)
             ready == jobs[j].ready /\ areas # {}
             step == IF jobs[j].kind = "preflight" THEN "answered" ELSE "create"
             job == [jobs[j] EXCEPT !.areas = areas, !.ready = ready, !.step = step]
  <2>1. /\ jobs[j].draft.location \in Locations /\ areas \subseteq Areas
        /\ ready \in BOOLEAN /\ step \in {"answered", "create"}
    BY <1>4, NewRunAssumption DEF IsDraft, Interpreted
  <2>2. located' \subseteq Locations
    BY <1>1, <1>4, <2>1 DEF Caches
  <2> HIDE DEF areas, ready, step
  <2>3. /\ job \in AnyJob /\ job.kind = jobs[j].kind /\ job.draft = jobs[j].draft
        /\ job.area = jobs[j].area /\ job.request = jobs[j].request /\ job.areas = areas
    BY <1>1, <2>1 DEF AnyJob
  <2> HIDE DEF job
  <2>4. JobOK(job, confirmed)
    BY <1>1, <1>4, <2>3 DEF JobOK, areas
  <2>5. Answers(j, job)
    BY <1>4 DEF job, areas, ready, step
  <2> QED BY <1>1, <1>2, <2>2, <2>3, <2>4, <2>5, AnswerKeeps
<1> QED BY <1>3, <1>4 DEF Locate

\* A run is created, or found.
LEMMA CreateKeeps == ASSUME IInv, NEW j \in DOMAIN jobs, Create(j) PROVE IInv'
<1> DEFINE job == jobs[j]
<1>1. /\ TypeFacts /\ job \in AnyJob /\ JobOK(job, confirmed) /\ located \subseteq Locations
      /\ catalog \in {"unread", "offered", "missing"} /\ runs \in Seq(AnyRun)
  BY Typed DEF TypeFacts, IInv, TypeOK
<1>2. UNCHANGED <<form, located, catalog, works, changes, confirmed>> /\ job.step = "create"
  BY DEF Create, machine
<1>3. ASSUME NEW step \in {"answered", "refused"}, NEW run \in Nat
      PROVE  LET new == [job EXCEPT !.step = step, !.run = run]
             IN  new \in AnyJob /\ JobOK(new, confirmed)
  <2> DEFINE new == [job EXCEPT !.step = step, !.run = run]
  <2>1. /\ new \in AnyJob /\ new.kind = job.kind /\ new.draft = job.draft
        /\ new.area = job.area /\ new.request = job.request /\ new.step = step
    BY <1>1 DEF AnyJob
  <2> HIDE DEF new
  <2>2. JobOK(new, confirmed)
    BY <1>1, <2>1 DEF JobOK
  <2> QED BY <2>1, <2>2 DEF new
<1>4. CASE Refuses(j) /\ UNCHANGED <<runs, defaults>>
  <2> DEFINE new == [job EXCEPT !.step = "refused"]
  <2>1. new = [job EXCEPT !.step = "refused", !.run = job.run] /\ job.run \in Nat
    BY <1>1 DEF AnyJob
  <2> HIDE DEF job
  <2>2. new \in AnyJob /\ JobOK(new, confirmed)
    BY <1>3, <2>1
  <2>3. Answers(j, new)
    BY <1>4 DEF Refuses, job
  <2> HIDE DEF new
  <2> QED BY <1>1, <1>2, <1>4, <2>2, <2>3, AnswerKeeps
<1>5. CASE /\ \E r \in SameRequest(job) :
                Answers(j, [job EXCEPT !.step = "answered", !.run = r])
           /\ UNCHANGED <<runs, defaults>>
  <2>1. PICK r \in SameRequest(job) : Answers(j, [job EXCEPT !.step = "answered", !.run = r])
    BY <1>5
  <2> DEFINE new == [job EXCEPT !.step = "answered", !.run = r]
  <2>2. r \in Nat
    BY <1>1 DEF SameRequest
  <2> HIDE DEF job
  <2>3. new \in AnyJob /\ JobOK(new, confirmed)
    BY <1>3, <2>2
  <2> HIDE DEF new
  <2>4. Answers(j, new)
    BY <2>1 DEF new
  <2> QED BY <1>1, <1>2, <1>5, <2>3, <2>4, AnswerKeeps
<1>6. CASE /\ MayCreate(job) /\ SameRequest(job) = {}
           /\ runs' = Append(runs, RunOf(job))
           /\ Answers(j, [job EXCEPT !.step = "answered", !.run = Len(runs) + 1])
           /\ defaults' = job.draft.target
  <2> DEFINE run == RunOf(job)
             n == Len(runs) + 1
             new == [job EXCEPT !.step = "answered", !.run = n]
  <2>1. /\ run \in AnyRun /\ run.kind = job.kind /\ run.request = job.request
        /\ run.draft = job.draft /\ run.area = job.area
    BY <1>1 DEF RunOf, AnyRun, AnyJob
  <2>2. n \in Nat
    BY <1>1
  <2> HIDE DEF job, n
  <2>3. new \in AnyJob /\ JobOK(new, confirmed) /\ Answers(j, new)
    BY <1>3, <1>6, <2>2 DEF n
  <2> HIDE DEF run, new
  <2>4. RunOK(run, confirmed)
    BY <1>1, <1>2, <1>6, <2>1 DEF JobOK, RunOK, MayCreate, Interpreted
  <2>5. /\ runs' \in Seq(AnyRun) /\ DOMAIN runs = 1 .. Len(runs) /\ Len(runs) \in Nat
        /\ DOMAIN runs' = 1 .. (Len(runs) + 1)
        /\ runs'[Len(runs) + 1] = run /\ \A i \in DOMAIN runs : runs'[i] = runs[i]
    BY <1>1, <1>6, <2>1, Appended DEF run
  <2>6. /\ jobs' \in Seq(AnyJob) /\ Len(jobs') = Len(jobs) /\ DOMAIN jobs' = DOMAIN jobs
        /\ jobs'[j] = new /\ \A i \in DOMAIN jobs \ {j} : jobs'[i] = jobs[i]
    BY <1>1, <2>3, Replaced DEF TypeFacts, Answers
  <2>7. TypeOK'
    <3>1. defaults' \in Targets
      BY <1>1, <1>6 DEF AnyJob, AnyDraft
    <3> QED BY <1>2, <2>5, <2>6, <3>1 DEF IInv, TypeOK
  <2>8. JobsOK'
    <3>1. \A i \in DOMAIN jobs' : JobOK(jobs'[i], confirmed')
      BY <1>1, <1>2, <2>3, <2>6 DEF TypeFacts
    <3> QED BY <3>1 DEF JobsOK
  <2>9. RunsOK'
    <3>1. \A i \in DOMAIN runs' : RunOK(runs'[i], confirmed')
      <4>1. \A i \in DOMAIN runs : RunOK(runs[i], confirmed)
        BY DEF IInv, RunsOK
      <4> QED BY <1>2, <2>4, <2>5, <4>1
    <3> QED BY <3>1 DEF RunsOK
  <2>10. OneRunEach'
    <3>1. \A r, s \in DOMAIN runs : runs[r].request = runs[s].request => r = s
      BY DEF IInv, OneRunEach
    <3>2. \A r \in DOMAIN runs : runs[r].request # run.request
      BY <1>6, <2>1 DEF SameRequest
    <3>3. \A r \in DOMAIN runs' : r \in DOMAIN runs \/ r = Len(runs) + 1
      BY <2>5
    <3>4. \A r, s \in DOMAIN runs' : runs'[r].request = runs'[s].request => r = s
      BY <2>5, <3>1, <3>2, <3>3
    <3> QED BY <3>4 DEF OneRunEach
  <2> QED BY <2>7, <2>8, <2>9, <2>10 DEF IInv
<1> QED BY <1>4, <1>5, <1>6 DEF Create

LEMMA WorkKeeps == ASSUME IInv, Work PROVE IInv'
<1>1. PICK r \in DOMAIN runs :
        runs' = [runs EXCEPT ![r].state = IF @ = "Pending" THEN "Running" ELSE "Completed"]
  BY DEF Work
<1>2. runs \in Seq(AnyRun) /\ runs[r] \in AnyRun
  BY DEF IInv, TypeOK
<1> DEFINE state == IF runs[r].state = "Pending" THEN "Running" ELSE "Completed"
           new == [runs[r] EXCEPT !.state = state]
<1>3. state \in {"Running", "Completed"} /\ runs' = [runs EXCEPT ![r] = new]
  BY <1>1, <1>2
<1> HIDE DEF state
<1>4. /\ new \in AnyRun /\ new.kind = runs[r].kind /\ new.request = runs[r].request
      /\ new.draft = runs[r].draft /\ new.area = runs[r].area
  BY <1>2, <1>3 DEF AnyRun
<1> HIDE DEF new
<1>5. /\ runs' \in Seq(AnyRun) /\ DOMAIN runs' = DOMAIN runs
      /\ runs'[r] = new /\ \A i \in DOMAIN runs \ {r} : runs'[i] = runs[i]
  BY <1>2, <1>3, <1>4, Replaced
<1>6. UNCHANGED <<form, jobs, defaults, located, catalog, works, changes, confirmed>>
  BY DEF Work, machine
<1>7. TypeOK' /\ JobsOK'
  BY <1>5, <1>6 DEF IInv, TypeOK, JobsOK
<1>8. RunsOK'
  <2>1. \A i \in DOMAIN runs' : RunOK(runs'[i], confirmed')
    BY <1>4, <1>5, <1>6 DEF IInv, RunsOK, RunOK
  <2> QED BY <2>1 DEF RunsOK
<1>9. OneRunEach'
  <2>1. \A i \in DOMAIN runs' : runs'[i].request = runs[i].request
    BY <1>4, <1>5
  <2> QED BY <1>5, <2>1 DEF IInv, OneRunEach
<1> QED BY <1>7, <1>8, <1>9 DEF IInv

LEMMA MachineKeeps == ASSUME IInv, MachineChanges PROVE IInv'
<1>1. UNCHANGED <<form, jobs, runs, defaults, located, confirmed>>
  BY DEF MachineChanges
<1>2. /\ works' \subseteq Parts /\ catalog' \in {"unread", "offered", "missing"}
      /\ changes' \in 0 .. MaxChanges
  BY NewRunAssumption DEF MachineChanges, IInv, TypeOK
<1>3. TypeOK'
  BY <1>1, <1>2 DEF IInv, TypeOK
<1>4. JobsOK' /\ RunsOK' /\ OneRunEach'
  BY <1>1 DEF IInv, JobsOK, RunsOK, OneRunEach
<1> QED BY <1>3, <1>4 DEF IInv

LEMMA InitHolds == Init => IInv
<1> SUFFICES ASSUME Init PROVE IInv
  OBVIOUS
<1>1. form \in Form /\ form.busy = 0
  BY FreshForms, DraftFacts DEF Init
<1>2. /\ jobs = <<>> /\ runs = <<>> /\ Len(jobs) = 0 /\ DOMAIN jobs = {} /\ DOMAIN runs = {}
      /\ jobs \in Seq(AnyJob) /\ runs \in Seq(AnyRun)
  BY DEF Init
<1>3. TypeOK
  BY <1>1, <1>2, DraftFacts, NewRunAssumption DEF Init, TypeOK
<1> QED BY <1>2, <1>3 DEF IInv, JobsOK, RunsOK, OneRunEach

LEMMA NextKeeps == IInv /\ [Next]_vars => IInv'
<1> SUFFICES ASSUME IInv, [Next]_vars PROVE IInv'
  OBVIOUS
<1>1. CASE UNCHANGED vars
  BY <1>1 DEF vars, IInv, TypeOK, JobsOK, RunsOK, OneRunEach
<1>2. CASE Next
  BY <1>2, FormSteps, Requests, CheckKeeps, LocateKeeps, CreateKeeps, WorkKeeps, MachineKeeps
     DEF Next
<1> QED BY <1>1, <1>2

-----------------------------------------------------------------------------
(* Theorems.                                                               *)

\* The inductive invariant: types, what a request and a run may say, and one run
\* for each identity.
THEOREM NewRunInvariant == Spec => []IInv
BY InitHolds, NextKeeps, PTL DEF Spec

\* Every run of a search is one the user confirmed, once: the creation looks its
\* request up in the transaction that would create the run.
THEOREM RunsStayConfirmed == Spec => []RunsAreConfirmed
<1>1. IInv => RunsAreConfirmed
  BY DEF IInv, RunsOK, RunOK, OneRunEach, RunsAreConfirmed, Searches, Confirmation
<1> QED BY <1>1, NewRunInvariant, PTL

\* It searches an area of its own location, whatever the form showed: the server
\* locates the draft again and compares the area.
THEOREM RunsStaySound == Spec => []RunsAreSound
<1>1. IInv => RunsAreSound
  BY DEF IInv, RunsOK, RunOK, RunsAreSound, Searches
<1> QED BY <1>1, NewRunInvariant, PTL
=============================================================================
