---------------------------- MODULE RunLifecycle ----------------------------
(***************************************************************************)
(* What a run promises its user, whatever the worker, its retries and its  *)
(* restarts do: it is opened with one job, works while it is live, waits   *)
(* for the jobs in hand when asked to stop, keeps every finished job, and  *)
(* ends once, for good.  RunExecution shows that the task rows keep it.    *)
(***************************************************************************)
CONSTANT Run

VARIABLES
    phase,      \* [run -> where it stands]
    outcome,    \* [run -> what its user is told at its end]
    jobs,       \* [run -> the jobs it was given so far]
    busy,       \* [run -> those in hand]
    finished    \* [run -> those finished]

vars == <<phase, outcome, jobs, busy, finished>>

Open == {"Live", "Pausing", "Paused", "Cancelling"}
Ended == {"Completed", "Cancelled"}

Init ==
    /\ phase = [r \in Run |-> "Absent"]
    /\ outcome = [r \in Run |-> "None"]
    /\ jobs = [r \in Run |-> {}]
    /\ busy = [r \in Run |-> {}]
    /\ finished = [r \in Run |-> {}]

\* An open run is told nothing yet.
Outcomes(p) ==
    CASE p = "Completed" -> {"Target Reached", "Search Exhausted", "Reassessment Complete",
                             "Completed with Warnings", "Infrastructure Failed"}
      [] p = "Cancelled" -> {"Cancelled with Partial Results"}
      [] OTHER           -> {"None"}

Turns(r, phases) == phase'[r] \in phases /\ outcome'[r] \in Outcomes(phase'[r])

SameJobs(r) == jobs'[r] = jobs[r]
SameWork(r) == SameJobs(r) /\ busy'[r] = busy[r] /\ finished'[r] = finished[r]

Stays(r) == phase'[r] = phase[r] /\ outcome'[r] = outcome[r] /\ SameWork(r)

-----------------------------------------------------------------------------
(* The user.                                                               *)

Starts(r) ==
    /\ phase[r] = "Absent" /\ Turns(r, {"Live"})
    /\ \E j \in jobs'[r] : jobs'[r] = {j}
    /\ busy'[r] = {} /\ finished'[r] = {}

\* A run that is asked to stop does so at once if it has nothing in hand.
Stops(r, stopping, stopped) ==
    /\ phase[r] \in Open
    /\ Turns(r, {IF busy[r] = {} THEN stopped ELSE stopping})
    /\ SameWork(r)

Pauses(r) == Stops(r, "Pausing", "Paused")
Cancels(r) == Stops(r, "Cancelling", "Cancelled")

Resumes(r) == phase[r] \in Open /\ Turns(r, {"Live"}) /\ SameWork(r)

-----------------------------------------------------------------------------
(* The worker.                                                             *)

\* Only a live run is worked on anew, one job at a time, none of them twice
\* at once and none that is finished.
Takes(r) ==
    /\ phase[r] = "Live" /\ Turns(r, {"Live"})
    /\ \E j \in jobs[r] \ (busy[r] \cup finished[r]) : busy'[r] = busy[r] \cup {j}
    /\ SameJobs(r) /\ finished'[r] = finished[r]

\* A run goes on as it is, or stops: a cancelled one only as cancelled.  It
\* waits only for jobs in hand, and has none once it has stopped.
GoesOn(r) ==
    /\ Turns(r, IF phase[r] = "Cancelling" THEN {"Cancelling", "Cancelled"}
                ELSE {phase[r], "Paused"} \cup Ended)
    /\ phase'[r] \in {"Pausing", "Cancelling"} => busy'[r] # {}
    /\ phase'[r] \in {"Paused"} \cup Ended => busy'[r] = {}

\* Only a finished job gives the run further ones, and not when cancelled.
Finishes(r) ==
    /\ phase[r] \in Open /\ GoesOn(r)
    /\ \E j \in busy[r] : busy'[r] = busy[r] \ {j} /\ finished'[r] = finished[r] \cup {j}
    /\ jobs[r] \subseteq jobs'[r]
    /\ phase[r] = "Cancelling" => SameJobs(r)

\* Jobs that failed or were abandoned are put down, to be taken again or not.
PutsDown(r) ==
    /\ phase[r] \in Open /\ GoesOn(r)
    /\ busy'[r] \subseteq busy[r]
    /\ SameJobs(r) /\ finished'[r] = finished[r]

\* Recovery moves every run at once.
Next ==
    \A r \in Run :
        \/ Stays(r) \/ Starts(r) \/ Pauses(r) \/ Cancels(r) \/ Resumes(r)
        \/ Takes(r) \/ Finishes(r) \/ PutsDown(r)

Spec == Init /\ [][Next]_vars
=============================================================================
