------------------------------- MODULE NewRun -------------------------------
(***************************************************************************)
(* How a run comes to be: the New Run form, whose answers may arrive after *)
(* the draft they were asked for; the server, which checks readiness and   *)
(* locates the search area again before it creates a run; and the request  *)
(* to reassess one business, which creates a run without a form.           *)
(***************************************************************************)
EXTENDS Naturals, Sequences, FiniteSets

CONSTANTS
    Locations,      \* what the user may type
    Areas,          \* the search areas of the world
    AreasOf,        \* [location -> the areas the geocoder answers with]
    MaxPosts,       \* requests made of the server
    MaxChanges      \* changes of the machine

ASSUME NewRunAssumption ==
    /\ AreasOf \in [Locations -> SUBSET Areas]
    /\ {MaxPosts, MaxChanges} \subseteq Nat

VARIABLES
    form,       \* the New Run form: draft, preflight, area, request, busy, made
    jobs,       \* the server's work on each request, in the order they came
    runs,       \* prospecting_runs, in the order they were created
    defaults,   \* the target count the next form starts with
    located,    \* geocoding_cache: the locations it holds
    works,      \* what of the machine works: local parts, the CLI, its model
    catalog,    \* what the cached catalog says of that model
    changes,
    confirmed   \* every confirmation the user made: request, draft and area

vars == <<form, jobs, runs, defaults, located, works, catalog, changes, confirmed>>
server == <<jobs, runs, defaults, located, catalog>>
machine == <<works, changes>>

-----------------------------------------------------------------------------
(* The draft.                                                              *)

(* A search asks for at least five businesses; only a reassessment, which  *)
(* names its business, asks for one.                                       *)
Minimum == 5
Targets == {1, Minimum}
Drafts == [location : Locations, target : Targets]

(* Before the user has typed, no location is a valid one.                  *)
Empty == [location |-> "", target |-> Minimum]

IsDraft(draft) == draft.location \in Locations /\ draft.target >= Minimum

NoPreflight == [asked |-> Empty, areas |-> {}, ready |-> FALSE, shown |-> FALSE]

(* A fresh form: the last confirmed target, and nothing confirmed.         *)
Fresh(target) ==
    [draft |-> [Empty EXCEPT !.target = target], preflight |-> NoPreflight,
     area |-> "none", request |-> 0, busy |-> 0, made |-> 0]

(* The database, the browser and the disk; the CLI, there, recent enough   *)
(* and logged in; and the model of the draft, which the CLI offers.        *)
Parts == {"local", "cli", "model"}

Init ==
    /\ form = Fresh(Minimum)
    /\ jobs = <<>> /\ runs = <<>>
    /\ defaults = Minimum
    /\ located = {}
    /\ works = Parts
    /\ catalog = "unread"
    /\ changes = 0
    /\ confirmed = {}

-----------------------------------------------------------------------------
(* The form. One request of it is on its way at a time: `busy` is its job. *)

(* Each opening of the sheet is a new form; what the old one waited for    *)
(* goes on at the server.                                                  *)
Open ==
    /\ form' = Fresh(defaults)
    /\ UNCHANGED <<server, machine, confirmed>>

(* Any edit takes the preflight back, and the request with it; a request   *)
(* that is under way is not called back.                                   *)
Edit ==
    /\ \E draft \in Drafts \ {form.draft} :
         form' = [Fresh(defaults) EXCEPT !.draft = draft, !.busy = form.busy]
    /\ UNCHANGED <<server, machine, confirmed>>

Job(kind, draft, area, request) ==
    [kind |-> kind, draft |-> draft, area |-> area, request |-> request,
     step |-> "check", ready |-> FALSE, areas |-> {}, run |-> 0]

Posts(job) ==
    /\ Len(jobs) < MaxPosts
    /\ jobs' = Append(jobs, job)

CheckPreflight ==
    /\ form.busy = 0 /\ ~form.preflight.shown /\ form.made = 0
    /\ form.draft # Empty
    /\ Posts(Job("preflight", form.draft, "none", 0))
    /\ form' = [form EXCEPT !.busy = Len(jobs) + 1]
    /\ UNCHANGED <<runs, defaults, located, catalog, machine, confirmed>>

(* The answer is shown whatever the draft has become: only one area is     *)
(* selected for the user. Confirming has an identity from here on.         *)
ShowPreflight ==
    /\ form.busy # 0
    /\ LET job == jobs[form.busy] IN
         /\ job.kind = "preflight" /\ job.step = "answered"
         /\ form' = [form EXCEPT
              !.busy = 0, !.request = form.busy,
              !.preflight = [asked |-> job.draft, areas |-> job.areas,
                             ready |-> job.ready, shown |-> TRUE],
              !.area = IF Cardinality(job.areas) = 1
                         THEN CHOOSE area \in job.areas : TRUE ELSE "none"]
    /\ UNCHANGED <<server, machine, confirmed>>

(* Nothing is shown of a request that was refused or whose answer is lost; *)
(* the form keeps what it has, and may ask again.                          *)
ShowError ==
    /\ form.busy # 0
    /\ form' = [form EXCEPT !.busy = 0]
    /\ UNCHANGED <<server, machine, confirmed>>

SelectArea ==
    /\ form.preflight.shown
    /\ \E area \in form.preflight.areas : form' = [form EXCEPT !.area = area]
    /\ UNCHANGED <<server, machine, confirmed>>

(* The draft of now is sent, with the area of the preflight that is shown. *)
CreateRun ==
    /\ form.busy = 0 /\ form.made = 0
    /\ form.preflight.ready /\ form.area # "none" /\ form.request # 0
    /\ Posts(Job("create", form.draft, form.area, form.request))
    /\ form' = [form EXCEPT !.busy = Len(jobs) + 1]
    /\ confirmed' = confirmed \cup
         {[request |-> form.request, draft |-> form.draft, area |-> form.area]}
    /\ UNCHANGED <<runs, defaults, located, catalog, machine>>

ShowRun ==
    /\ form.busy # 0
    /\ jobs[form.busy].kind = "create" /\ jobs[form.busy].step = "answered"
    /\ form' = [form EXCEPT !.busy = 0, !.made = jobs[form.busy].run]
    /\ UNCHANGED <<server, machine, confirmed>>

-----------------------------------------------------------------------------
(* The server.                                                             *)

(* A refused job is answered with an error.                                *)
Answers(j, job) == jobs' = [jobs EXCEPT ![j] = job]
Refuses(j) == Answers(j, [jobs[j] EXCEPT !.step = "refused"])

IsLive(run) == run.state \in {"Pending", "Running"}

(* Before its checks a reassessment looks for a live run of the business.  *)
Admits(job) ==
    job.kind = "reassess" =>
        ~\E r \in DOMAIN runs : runs[r].kind = "reassess" /\ IsLive(runs[r])

DependenciesReady == "local" \in works
RuntimeReady == "cli" \in works

(* What the CLI lists; for a list that cannot be read the built-in one     *)
(* stands in.                                                              *)
Listed == IF RuntimeReady THEN {"model" \in works} ELSE BOOLEAN

(* Whether the catalog offers the model: either list is kept for five      *)
(* minutes, whatever happens to the CLI.                                   *)
Offers == IF catalog = "unread" THEN Listed ELSE {catalog = "offered"}

(* The machine is probed for as long as the CLI takes to answer; the job   *)
(* goes on with what was found. A reassessment looks at the CLI alone.     *)
Check(j) ==
    /\ jobs[j].step = "check"
    /\ IF ~Admits(jobs[j])
         THEN Refuses(j) /\ UNCHANGED catalog
         ELSE IF jobs[j].kind = "reassess"
         THEN /\ Answers(j, [jobs[j] EXCEPT !.step = "create", !.ready = RuntimeReady])
              /\ UNCHANGED catalog
         ELSE \E offered \in Offers :
              /\ Answers(j, [jobs[j] EXCEPT !.step = "locate",
                   !.ready = DependenciesReady /\ RuntimeReady /\ offered])
              /\ catalog' = IF offered THEN "offered" ELSE "missing"
    /\ UNCHANGED <<form, runs, defaults, located, machine, confirmed>>

Interpreted(draft) == AreasOf[draft.location]

(* A failed cache is only a slower one.                                    *)
Caches(location) == located' \in {located, located \cup {location}}

(* The draft is decoded, and its location looked up: in the cache, or by a *)
(* request that may fail.                                                  *)
Locate(j) ==
    /\ jobs[j].step = "locate"
    /\ \/ /\ ~IsDraft(jobs[j].draft) \/ jobs[j].draft.location \notin located
          /\ Refuses(j)
          /\ UNCHANGED located
       \/ /\ IsDraft(jobs[j].draft)
          /\ LET areas == Interpreted(jobs[j].draft) IN
             Answers(j, [jobs[j] EXCEPT
               !.areas = areas, !.ready = @ /\ areas # {},
               !.step = IF jobs[j].kind = "preflight" THEN "answered" ELSE "create"])
          /\ Caches(jobs[j].draft.location)
    /\ UNCHANGED <<form, runs, defaults, catalog, machine, confirmed>>

(* Faulty: the area the form sends is taken at its word.                   *)
MayCreateAnywhere(job) == job.ready

(* A run is created for a ready brief whose area is one of its own; the    *)
(* form's preflight is not believed.                                       *)
MayCreate(job) == job.ready /\ (job.kind = "create" => job.area \in job.areas)

RunOf(job) ==
    [kind |-> job.kind, request |-> job.request, draft |-> job.draft,
     area |-> job.area, state |-> "Pending"]

(* Faulty: every request creates a run.                                    *)
SameRequestNever(job) == {}

(* The run that the same request created before.                           *)
SameRequest(job) == {r \in DOMAIN runs : runs[r].request = job.request}

(* One transaction: the run of an earlier copy of the request is the       *)
(* answer; a new run also becomes the next form's default.                 *)
Create(j) ==
    /\ jobs[j].step = "create"
    /\ LET job == jobs[j] IN
       \/ /\ ~MayCreate(job)
          /\ Refuses(j)
          /\ UNCHANGED <<runs, defaults>>
       \/ /\ MayCreate(job) /\ SameRequest(job) # {}
          /\ \E r \in SameRequest(job) :
               Answers(j, [job EXCEPT !.step = "answered", !.run = r])
          /\ UNCHANGED <<runs, defaults>>
       \/ /\ MayCreate(job) /\ SameRequest(job) = {}
          /\ runs' = Append(runs, RunOf(job))
          /\ Answers(j, [job EXCEPT !.step = "answered", !.run = Len(runs) + 1])
          /\ defaults' = job.draft.target
    /\ UNCHANGED <<form, located, catalog, machine, confirmed>>

(* A business asks for no more than itself, where it was found.            *)
SourceBrief == [location |-> CHOOSE location \in Locations : TRUE, target |-> 1]

(* The reviewer asks to have a business assessed again. Its run takes the  *)
(* place and the settings of the run that found it, and an identity of its *)
(* own: asking twice is two requests.                                      *)
Reassess ==
    /\ Posts(Job("reassess", SourceBrief, "source", MaxPosts + Len(jobs) + 1))
    /\ UNCHANGED <<form, runs, defaults, located, catalog, machine, confirmed>>

(* The worker takes a run up, and settles it.                              *)
Work ==
    /\ \E r \in DOMAIN runs :
         /\ IsLive(runs[r])
         /\ runs' = [runs EXCEPT ![r].state =
              IF @ = "Pending" THEN "Running" ELSE "Completed"]
    /\ UNCHANGED <<form, jobs, defaults, located, catalog, machine, confirmed>>

(* A part of the machine breaks or is mended; a catalog ages.              *)
MachineChanges ==
    /\ changes < MaxChanges
    /\ changes' = changes + 1
    /\ \/ /\ \E part \in Parts :
              works' = IF part \in works THEN works \ {part} ELSE works \cup {part}
          /\ UNCHANGED catalog
       \/ catalog' = "unread" /\ UNCHANGED works
    /\ UNCHANGED <<form, jobs, runs, defaults, located, confirmed>>

Next ==
    \/ Open \/ Edit \/ CheckPreflight \/ ShowPreflight \/ ShowError
    \/ SelectArea \/ CreateRun \/ ShowRun
    \/ \E j \in DOMAIN jobs : Check(j) \/ Locate(j) \/ Create(j)
    \/ Reassess \/ Work \/ MachineChanges

Spec == Init /\ [][Next]_vars

-----------------------------------------------------------------------------
(* Properties.                                                             *)

Searches == {r \in DOMAIN runs : runs[r].kind = "create"}

(* Every run of a search is one the user confirmed, with that draft and    *)
(* that area, and however often a confirmation is repeated because its     *)
(* answer was lost, it is one run.                                         *)
RunsAreConfirmed ==
    /\ \A r \in Searches :
         [request |-> runs[r].request, draft |-> runs[r].draft,
          area |-> runs[r].area] \in confirmed
    /\ \A r, s \in DOMAIN runs : runs[r].request = runs[s].request => r = s

(* A run searches an area of its own location and asks for enough, also    *)
(* when the form showed the preflight of an earlier draft beside the draft *)
(* that it sent.                                                           *)
RunsAreSound ==
    \A r \in Searches :
        /\ IsDraft(runs[r].draft)
        /\ runs[r].area \in AreasOf[runs[r].draft.location]
=============================================================================
