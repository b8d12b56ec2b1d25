----------------------------- MODULE ReviewDesk -----------------------------
(***************************************************************************)
(* The desk where candidates are reviewed: a browser page that works on    *)
(* copies of the queue and of the candidates it has opened, and the        *)
(* database in which the worker scores the same businesses again, and the  *)
(* user suppresses, lifts and deletes them.                                *)
(***************************************************************************)
EXTENDS Naturals, Sequences

CONSTANTS
    Businesses,
    Statuses,       \* what a review may say, besides Unreviewed
    Filters,        \* the statuses the page is asked to list, besides All
    MaxScores,      \* scores the worker writes
    MaxRequests,    \* requests the desk makes that change something
    MaxReadings     \* readings it makes besides

ASSUME DeskAssumption ==
    /\ "Unreviewed" \notin Statuses /\ "Rejected" \in Statuses
    /\ Filters \subseteq Statuses \cup {"Unreviewed"}
    /\ {MaxScores, MaxRequests, MaxReadings} \subseteq Nat

VARIABLES
    scores,     \* candidate_scores, in the order they were written
    reviews,    \* candidate_reviews: [score -> its review]
    suppressed, \* the businesses of suppression_entries
    list,       \* the queue as the page shows it
    filter,     \* the status the page lists
    openId,     \* the candidate the page has open, if it lists it
    rejecting,  \* the note of a rejection is being written beside it
    cache,      \* the page's copies of reviews: [score -> review], or Unread
    failed,     \* the candidates whose last reading failed
    reading,    \* [score -> the reading of it that is under way]
    request,    \* the requests, in the order they were made, till they are over
    busy,       \* the page waits for one
    requests, readings

database == <<scores, reviews, suppressed>>
page == <<list, filter, openId, rejecting>>
copies == <<cache, failed, reading>>
asking == <<request, busy, requests>>
vars == <<database, page, copies, asking, readings>>

-----------------------------------------------------------------------------
(* The database.                                                           *)

(* A note is modelled by the business it was written about, and the time a *)
(* review was written at by how many were written of its score before.     *)
NoNotes == "empty"
Unreviewed == [status |-> "Unreviewed", notes |-> NoNotes, at |-> 0]

(* No row, no copy; and of a reading: none is under way, or not yet served.*)
NoReview == [Unreviewed EXCEPT !.status = "none"]
Unread == [Unreviewed EXCEPT !.status = "unread"]
Idle == [Unreviewed EXCEPT !.status = "idle"]
Sent == [Unreviewed EXCEPT !.status = "sent"]

(* What is read of a score without a review.                               *)
ReviewOf(s) == IF reviews[s] = NoReview THEN Unreviewed ELSE reviews[s]

ScoresOf(b) == {s \in DOMAIN scores : scores[s].business = b /\ scores[s].kept}
Kept == {s \in DOMAIN scores : scores[s].kept}

(* A business keeps every score it has had; the last one counts.           *)
IsCurrent(s) == \A t \in ScoresOf(scores[s].business) : t <= s

(* What every reading of candidates asks for.                              *)
Candidates ==
    {s \in Kept : /\ scores[s].qualified
                  /\ scores[s].business \notin suppressed
                  /\ IsCurrent(s)}

(* The queue is cut off after 500, which is more than is modelled.         *)
Queue == {[score |-> s, status |-> ReviewOf(s).status] : s \in Candidates}

(* An export reads for itself, by status, whatever the page shows.         *)
Exported(statuses) == {s \in Candidates : ReviewOf(s).status \in statuses}

(* The overview counts without asking whether a score is still the last.   *)
Summarised == {s \in Kept : scores[s].qualified /\ scores[s].business \notin suppressed}

NoRequest == [kind |-> "none"]

Init ==
    /\ scores = <<>> /\ reviews = <<>>
    /\ suppressed = {}
    /\ list = {} /\ filter = "All" /\ openId = 0 /\ rejecting = FALSE
    /\ cache = [s \in 1 .. MaxScores |-> Unread]
    /\ failed = {}
    /\ reading = [s \in 1 .. MaxScores |-> Idle]
    /\ request = [i \in 1 .. MaxRequests |-> NoRequest]
    /\ busy = FALSE
    /\ requests = 0 /\ readings = 0

(* Faulty: those of the score before it, reviewed or not.                 *)
PreviousNotes(b) ==
    LET reviewed == {s \in ScoresOf(b) : IsCurrent(s) /\ reviews[s] # NoReview} IN
    IF reviewed = {} THEN NoNotes ELSE reviews[CHOOSE s \in reviewed : TRUE].notes

(* The notes of the last review of the business.                           *)
CarriedNotes(b) ==
    LET reviewed == {s \in ScoresOf(b) : reviews[s] # NoReview} IN
    IF reviewed = {} THEN NoNotes
    ELSE reviews[CHOOSE s \in reviewed : \A t \in reviewed : t <= s].notes

(* The worker scores a business: the reader decides again, the notes stay. *)
(* A business that was suppressed while it was assessed is not qualified;  *)
(* one that was deleted while suppressed is not assessed again.            *)
Score(b) ==
    /\ Len(scores) < MaxScores
    /\ b \in suppressed => ScoresOf(b) # {}
    /\ \E earned \in BOOLEAN :
         scores' = Append(scores,
           [business |-> b, earned |-> earned,
            qualified |-> earned /\ b \notin suppressed, kept |-> TRUE])
    /\ reviews' = Append(reviews,
         IF CarriedNotes(b) = NoNotes THEN NoReview
         ELSE [Unreviewed EXCEPT !.notes = CarriedNotes(b)])
    /\ UNCHANGED <<suppressed, page, copies, asking, readings>>

Qualify(b, worthy) ==
    scores' = [s \in DOMAIN scores |->
                 IF s \in ScoresOf(b)
                   THEN [scores[s] EXCEPT !.qualified = s \in worthy]
                   ELSE scores[s]]

(* Faulty: the entry goes, and the scores stay as the suppression left     *)
(* them.                                                                   *)
LiftEntry(b) ==
    /\ b \in suppressed
    /\ suppressed' = suppressed \ {b}
    /\ UNCHANGED <<scores, reviews, page, copies, asking, readings>>

(* From the settings, in another page: what the scores are worth is        *)
(* computed again.                                                         *)
Lift(b) ==
    /\ b \in suppressed
    /\ suppressed' = suppressed \ {b}
    /\ Qualify(b, {s \in ScoresOf(b) : scores[s].earned})
    /\ UNCHANGED <<reviews, page, copies, asking, readings>>

-----------------------------------------------------------------------------
(* What the page shows.                                                    *)

Visible == {c.score : c \in {d \in list : filter \in {"All", d.status}}}
Open == IF openId \in Visible THEN openId ELSE 0

(* The bar with the decisions is there for what is open, and offers them   *)
(* when a copy is there; the panel with the notes as well, if the last     *)
(* reading did not fail.                                                   *)
Bar == Open # 0 /\ cache[Open] # Unread
Panel == Bar /\ Open \notin failed

(* The bar is that of one candidate: a rejection begun beside it goes when *)
(* another one is open, or none.                                           *)
BarStays == rejecting' = (rejecting /\ Open' = Open)

(* The page is loaded, or the router refreshes it. A page that came by a   *)
(* link to a candidate opens it, unfiltered, each time the queue is read.  *)
Refresh ==
    /\ list' = Queue
    /\ \/ UNCHANGED <<filter, openId>>
       \/ openId' \in Candidates /\ filter' = "All"
    /\ BarStays
    /\ UNCHANGED <<database, copies, asking, readings>>

SelectFilter ==
    /\ Open = 0
    /\ filter' \in (Filters \cup {"All"}) \ {filter}
    /\ UNCHANGED <<database, list, openId, copies, asking, readings>>
    /\ BarStays

Shows(s) ==
    /\ openId' = s
    /\ UNCHANGED <<database, list, filter, copies, asking, readings>>
    /\ BarStays

OpenRow == Open = 0 /\ \E s \in Visible : Shows(s)

(* The next or the previous candidate, not while busy.                     *)
Step == ~busy /\ Open # 0 /\ \E s \in Visible \ {Open} : Shows(s)

(* The panel may be closed at any time.                                    *)
Close == Open # 0 /\ Shows(0)

(* The note of a rejection is opened and shut, not while busy; a decision  *)
(* leaves it where it is.                                                  *)
ToggleRejecting ==
    /\ ~busy /\ Bar
    /\ rejecting' = ~rejecting
    /\ UNCHANGED <<database, list, filter, openId, copies, asking, readings>>

(* The copy of the open candidate is read: at first, when it is old, when  *)
(* the window is looked at again, or because the user retries, which drops *)
(* a reading that is under way beside a copy.                              *)
Reads(s) == reading' = [reading EXCEPT ![s] = Sent]

Read ==
    /\ readings < MaxReadings /\ Open # 0
    /\ reading[Open] = Idle \/ (Open \in failed /\ cache[Open] # Unread)
    /\ readings' = readings + 1
    /\ Reads(Open)
    /\ UNCHANGED <<database, page, cache, failed, asking>>

(* A candidate that is no longer in the queue is not found.                *)
ServeReading(s) ==
    /\ reading[s] = Sent
    /\ reading' = [reading EXCEPT ![s] = IF s \in Candidates THEN ReviewOf(s) ELSE Unread]
    /\ UNCHANGED <<database, page, cache, failed, asking, readings>>

(* The next candidate, when one of these requests was to go on to one.     *)
Goes(over) ==
    LET going == {i \in over : request[i].next # request[i].score} IN
    IF going = {} THEN UNCHANGED openId ELSE \E i \in going : openId' = request[i].next

(* The requests that wait for the reading of a score: one that is dropped  *)
(* for a new one hands its waiting requests over to it.                    *)
Awaiting(s) == {i \in DOMAIN request : request[i].kind = "reading" /\ request[i].of = s}

(* These are over. The page is not busy any more, whatever else it asked.  *)
Over(over) ==
    /\ request' = [i \in DOMAIN request |-> IF i \in over THEN NoRequest ELSE request[i]]
    /\ busy' = (busy /\ over = {})

(* Not to be found is an error, and so is an answer that does not come in  *)
(* time; the copy stays beside the error. What was saved is done now.      *)
ReadingEnds(s) ==
    /\ reading[s] # Idle
    /\ reading' = [reading EXCEPT ![s] = Idle]
    /\ \/ /\ reading[s] \notin {Sent, Unread}
          /\ cache' = [cache EXCEPT ![s] = reading[s]]
          /\ failed' = failed \ {s}
       \/ /\ failed' = failed \cup {s}
          /\ UNCHANGED cache
    /\ Goes(Awaiting(s)) /\ Over(Awaiting(s)) /\ UNCHANGED <<list, filter>> /\ BarStays
    /\ UNCHANGED <<database, requests, readings>>

-----------------------------------------------------------------------------
(* What the page asks for. Every request is about the open candidate.      *)

Ask(asked) ==
    /\ requests < MaxRequests
    /\ requests' = requests + 1
    /\ request' = [request EXCEPT ![requests + 1] = asked]
    /\ busy' = TRUE
    /\ UNCHANGED <<database, page, copies, readings>>

(* The write replaces every column: the notes of the copy are sent along.  *)
Decide(status) ==
    \E next \in {Open} \cup Visible :
        Ask([kind |-> "decision", score |-> Open, next |-> next,
             review |-> [status |-> status, notes |-> cache[Open].notes]])

(* The bar is there whenever a copy is, also beside an error; it does not  *)
(* offer to take back what is not decided.                                 *)
QuickDecision ==
    /\ ~busy /\ Bar
    /\ \E status \in Statuses \cup {"Unreviewed"} :
         /\ [score |-> Open, status |-> "Unreviewed"] \in list => status # "Unreviewed"
         /\ Decide(status)

(* The key that ends the note of a rejection does not ask whether the page *)
(* is busy: another request may be under way, of this candidate or not.    *)
RejectWithNote == rejecting /\ Bar /\ Decide("Rejected")

(* The form sends the status of the copy along, and the notes of the copy  *)
(* or what was typed. It is not keyed on its candidate: that may have been *)
(* typed beside another one.                                               *)
SaveNotes ==
    /\ ~busy /\ Panel
    /\ \E notes \in {cache[Open].notes} \cup {scores[s].business : s \in Kept} :
         Ask([kind |-> "notes", score |-> Open, next |-> Open,
              review |-> [status |-> cache[Open].status, notes |-> notes]])

Suppress ==
    /\ ~busy /\ Panel
    /\ Ask([kind |-> "suppress", score |-> Open, next |-> 0])

Delete ==
    /\ ~busy /\ Panel
    /\ Ask([kind |-> "delete", score |-> Open, next |-> 0])

(* A correction is kept beside what the machine found, and read by nobody  *)
(* here.                                                                   *)
Correct ==
    /\ ~busy /\ Panel
    /\ Ask([kind |-> "correction", score |-> Open, next |-> Open])

Reassess ==
    /\ ~busy /\ Panel
    /\ Ask([kind |-> "reassess", score |-> Open, next |-> Open])

(* What is asked of an old score is done to it.                            *)
ServeReview(s, review) ==
    /\ reviews' = [reviews EXCEPT ![s] =
                     [status |-> review.status, notes |-> review.notes, at |-> @.at + 1]]
    /\ UNCHANGED <<scores, suppressed>>

(* No score of a suppressed business is qualified.                         *)
ServeSuppress(b) ==
    /\ suppressed' = suppressed \cup {b}
    /\ Qualify(b, {})
    /\ UNCHANGED reviews

ServeDelete(b) ==
    /\ scores' = [s \in DOMAIN scores |->
                    [scores[s] EXCEPT !.kept = @ /\ scores[s].business # b]]
    /\ UNCHANGED <<reviews, suppressed>>

(* The server does what was asked; a score that is gone is an error. A run *)
(* of a reassessment is created elsewhere.                                 *)
Serves(asked) ==
    LET s == asked.score
        b == scores[s].business IN
    /\ s \in Kept
    /\ \/ asked.kind \in {"decision", "notes"} /\ ServeReview(s, asked.review)
       \/ asked.kind = "suppress" /\ ServeSuppress(b)
       \/ asked.kind = "delete" /\ ServeDelete(b)
       \/ asked.kind \in {"correction", "reassess"} /\ UNCHANGED database

Asked(i) == request[i].kind \notin {"none", "reading"}

(* Faulty: a reading that is under way will do.                            *)
ReloadsJoining(s) == IF reading[s] # Idle THEN UNCHANGED reading ELSE Reads(s)

(* What is read after a change: the candidate that is open by now. A       *)
(* reading of it that is under way is dropped for a new one, unless it is  *)
(* the first.                                                              *)
Reloads(s) ==
    IF cache[s] = Unread /\ reading[s] # Idle THEN UNCHANGED reading ELSE Reads(s)

(* Done, and it is over when what the page shows is read again: not before *)
(* that, if something is open, and not after a deletion or a reassessment. *)
(* What the review to be read was by then, a bystander notes in `from'.    *)
Saved(i) ==
    /\ Asked(i) /\ Serves(request[i])
    /\ IF Open # 0 /\ request[i].kind \notin {"delete", "reassess"}
         THEN /\ Reloads(Open)
              /\ request' = [request EXCEPT ![i] =
                               [kind |-> "reading", of |-> Open, from |-> reviews'[Open].at,
                                score |-> @.score, next |-> @.next]]
              /\ UNCHANGED <<page, busy>>
         ELSE /\ Goes({i}) /\ Over({i}) /\ UNCHANGED <<list, filter>> /\ BarStays
              /\ UNCHANGED reading
    /\ UNCHANGED <<cache, failed, requests, readings>>

(* Refused, or the answer is lost, whether or not it was done. The page    *)
(* stays as it is, but for an error it shows if there was an answer.       *)
NotSaved(i) ==
    /\ Asked(i)
    /\ Serves(request[i]) \/ UNCHANGED database
    /\ Over({i})
    /\ UNCHANGED <<page, copies, requests, readings>>

Next ==
    \/ \E b \in Businesses : Score(b) \/ Lift(b)
    \/ Refresh \/ SelectFilter \/ OpenRow \/ Step \/ Close \/ ToggleRejecting \/ Read
    \/ \E s \in DOMAIN scores : ServeReading(s) \/ ReadingEnds(s)
    \/ QuickDecision \/ RejectWithNote \/ SaveNotes
    \/ Suppress \/ Delete \/ Correct \/ Reassess
    \/ \E i \in DOMAIN request : Saved(i) \/ NotSaved(i)

Spec == Init /\ [][Next]_vars

-----------------------------------------------------------------------------
(* Properties.                                                             *)

(* The queue, the export and the worth of a score agree: whatever was      *)
(* suppressed, lifted, scored again and deleted in between, each shows of  *)
(* every business that is not suppressed its last score, if it earned its  *)
(* place, and the overview misses none of them.                            *)
QueueIsEarned ==
    LET due == {s \in Kept : /\ scores[s].earned /\ IsCurrent(s)
                             /\ scores[s].business \notin suppressed} IN
    /\ {c.score : c \in Queue} = due
    /\ Exported({"Unreviewed"} \cup Statuses) = due
    /\ due \subseteq Summarised

NotesOf(b) ==
    LET current == {s \in ScoresOf(b) : IsCurrent(s)} IN
    IF current = {} THEN NoNotes ELSE reviews[CHOOSE s \in current : TRUE].notes

TakenBack(s) ==
    \E t \in ScoresOf(scores[s].business) :
        t > s /\ reviews[t] # NoReview /\ reviews[t].notes = NoNotes

(* A new score takes over the notes of the one before it; and notes that a *)
(* page which was behind wrote to an older score are not lost either,      *)
(* unless a later one was reviewed without any.                            *)
NotesTravel ==
    [][\A b \in Businesses :
         ~(ScoresOf(b)' \subseteq ScoresOf(b)) =>
           /\ NotesOf(b) \in {NoNotes, NotesOf(b)'}
           /\ NotesOf(b)' = NoNotes =>
                \A s \in ScoresOf(b) : reviews[s].notes = NoNotes \/ TakenBack(s)]_vars

(* What the page shows when a change is over is not older than the change, *)
(* and what is stored unless that was changed again by then: also when an  *)
(* older reading was under way, and when the note of a rejection was sent  *)
(* beside another request. (A reading that fails leaves the older copy.)   *)
SavedIsSeen ==
    [][\A i \in DOMAIN request :
         (request[i].kind = "reading" /\ request'[i].kind = "none" /\ request[i].of \notin failed') =>
           /\ cache'[request[i].of].at >= request[i].from
           /\ \/ cache'[request[i].of] = ReviewOf(request[i].of)
              \/ ReviewOf(request[i].of).at > request[i].from]_vars
=============================================================================
