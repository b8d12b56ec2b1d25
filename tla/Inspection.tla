----------------------------- MODULE Inspection -----------------------------
(***************************************************************************)
(* The inspection of one business's website: a task that is attempted      *)
(* again after a failure, a crash or a lost lease; each attempt drives a   *)
(* browser behind a proxy of its own, writes its screenshots to one        *)
(* directory per task, and stores its evidence once per task.              *)
(*                                                                         *)
(* Interrupting an attempt does not stop its browser: the promise it waits *)
(* for takes no signal, so the abandoned attempt goes on beside the next.  *)
(***************************************************************************)
EXTENDS Naturals, Sequences, FiniteSets

CONSTANTS
    Attempts,       \* how often the task may be tried: 1..Attempts
    MaxTunnels,     \* tunnels the pages ask for in all, below MAX_REQUESTS
    MaxCrashes      \* how often the worker may die

ASSUME InspectionAssumption ==
    /\ Attempts \in Nat \ {0}
    /\ {MaxTunnels, MaxCrashes} \subseteq Nat

VARIABLES
    website,    \* the confirmed website of the business, as the policy sees it
    work,       \* [attempt -> the state of its browser session]
    owner,      \* the attempt that holds the task's lease, 0 for none
    started,    \* attempts begun so far
    files,      \* the task's artifact directory: [path -> picture], none is <<>>
    row,        \* the stored inspection
    business,   \* the run business's status
    next,       \* the stage the task's checkpoint asked for
    crashes,
    asked       \* tunnels asked for so far

vars == <<website, work, owner, started, files, row, business, next, crashes,
          asked>>
session == <<website, owner, started, row, business, next, crashes, asked>>

-----------------------------------------------------------------------------
(* The network policy.                                                     *)

(* A lookup fails, or answers with addresses that are public or reserved.  *)
Addresses == {"public", "reserved"}
Failed == {"lookup failed"}
Answers == {Failed} \cup SUBSET Addresses

Websites == {"none", "malformed", "credentialed", "localName", "host"}

(* Why the policy refuses a URL, given what its host resolves to; "" is an *)
(* approval. One reserved address among several refuses them all.          *)
Refusal(url, answer) ==
    CASE url = "malformed"    -> "unsafe-protocol"
      [] url = "credentialed" -> "credentials-in-url"
      [] url = "localName"    -> "local-hostname"
      [] answer \in {Failed, {}} -> "unresolvable-host"
      [] "reserved" \in answer -> "private-address"
      [] OTHER -> ""

-----------------------------------------------------------------------------
(* The session of one attempt.                                             *)

Viewports == {"Desktop", "Mobile"}
(* Faulty: the file is named for the page's place alone.                   *)
PathOfSequence(viewport, sequence) == <<sequence, "Desktop">>

(* A screenshot is named for the page's place and its viewport.            *)
Path(viewport, sequence) == <<sequence, viewport>>
Paths == {Path(v, s) : v \in Viewports, s \in 0 .. 3}

(* A block names what was missed: a page, an event of the page, the site.  *)
Block(code, at) == [code |-> code, at |-> at]

NoRow == [status |-> "none", by |-> 0, pages |-> {}, blocks |-> {}]

Idle == [pc |-> "idle", browser |-> FALSE, proxy |-> FALSE, contexts |-> {},
         lookups |-> 0, tunnels |-> 0, pages |-> <<>>, blocks |-> {},
         status |-> "none"]

Closed == {"idle", "commit", "checkpoint", "done", "failed", "dropped"}

Init ==
    /\ website \in Websites
    /\ work = [a \in 1 .. Attempts |-> Idle]
    /\ owner = 0 /\ started = 0 /\ crashes = 0 /\ asked = 0
    /\ files = [p \in Paths |-> <<>>]
    /\ row = NoRow
    /\ business = "Corroborated"
    /\ next = "none"

(* What an attempt knew is gone with it; what it left open is not.         *)
Over(state, pc) ==
    [state EXCEPT !.pc = pc, !.pages = <<>>, !.blocks = {}]

(* The attempt goes on to `pc` with the other fields of its session new.   *)
Goes(a, state) == work' = [work EXCEPT ![a] = state]

(* The worker claims the task and loads its target: a business without a   *)
(* confirmed website has nothing to inspect.                               *)
Begin(a) ==
    /\ owner = 0 /\ next = "none" /\ a = started + 1
    /\ Goes(a, IF website = "none"
                 THEN [Idle EXCEPT !.pc = "commit", !.status = "NoWebsite"]
                 ELSE [Idle EXCEPT !.pc = "validate"])
    /\ owner' = a /\ started' = a
    /\ UNCHANGED <<website, files, row, business, next, crashes, asked>>

(* The URL is resolved before a browser is started: a refused one is a     *)
(* finished inspection, not a failure.                                     *)
Validate(a) ==
    /\ work[a].pc = "validate"
    /\ \E answer \in Answers :
         LET code == Refusal(website, answer) IN
         Goes(a, IF code = "" THEN [work[a] EXCEPT !.pc = "launch"]
                 ELSE IF owner # a THEN Over(work[a], "dropped")
                 ELSE [work[a] EXCEPT !.pc = "commit", !.status = "Blocked",
                                      !.blocks = {Block(code, "site")}])
    /\ UNCHANGED <<session, files>>

(* A failed attempt gives the task back; whether it is tried again is the  *)
(* run's business (RunExecution).                                          *)
FailsWith(a, state) ==
    /\ Goes(a, Over(state, "failed"))
    /\ owner' = IF owner = a THEN 0 ELSE owner

(* The browser starts, or does not: contention is transient, a missing     *)
(* executable is not, and neither leaves anything behind.                  *)
Launch(a) ==
    /\ work[a].pc = "launch"
    /\ \/ /\ Goes(a, [work[a] EXCEPT !.pc = "proxy", !.browser = TRUE])
          /\ UNCHANGED owner
       \/ FailsWith(a, work[a])
    /\ UNCHANGED <<website, started, files, row, business, next, crashes, asked>>

(* Faulty: the browser is forgotten when the proxy does not start.         *)
StartProxyAlone(a) ==
    /\ work[a].pc = "proxy"
    /\ \/ /\ Goes(a, [work[a] EXCEPT !.pc = "desktop", !.proxy = TRUE])
          /\ UNCHANGED owner
       \/ FailsWith(a, work[a])
    /\ UNCHANGED <<website, started, files, row, business, next, crashes, asked>>

(* The proxy listens on a port of its own, or the browser is closed again. *)
StartProxy(a) ==
    /\ work[a].pc = "proxy"
    /\ \/ /\ Goes(a, [work[a] EXCEPT !.pc = "desktop", !.proxy = TRUE])
          /\ UNCHANGED owner
       \/ FailsWith(a, [work[a] EXCEPT !.browser = FALSE])
    /\ UNCHANGED <<website, started, files, row, business, next, crashes, asked>>

-----------------------------------------------------------------------------
(* Capturing a page.                                                       *)

(* A visit that shows nothing (no response, an access barrier, a captcha,  *)
(* an error of the page, the policy or the screenshot) leaves a block.     *)
Missed(viewport, sequence) == Block("not-captured", Path(viewport, sequence))

(* The picture an attempt leaves in a file: up to three screenshots over   *)
(* each other, until one depicts the page.                                 *)
Picture(a, viewport, sequence) == <<a, viewport, sequence>>

Evidence(a, viewport, sequence) ==
    [viewport |-> viewport, path |-> Path(viewport, sequence),
     picture |-> Picture(a, viewport, sequence)]

(* A visit either yields evidence and a picture, or a block. What follows  *)
(* it is `after`, the session with the context opened or closed. A picture *)
(* that a stopped visit took before a later screenshot failed is left out: *)
(* no evidence describes it.                                               *)
Captures(a, viewport, sequence, after) ==
    /\ Goes(a, [after EXCEPT !.pages = Append(@, Evidence(a, viewport, sequence))])
    /\ files' = [files EXCEPT ![Path(viewport, sequence)] =
                    Picture(a, viewport, sequence)]

IsStopped(a, viewport, sequence, after) ==
    /\ Goes(a, [after EXCEPT !.blocks = @ \cup {Missed(viewport, sequence)}])
    /\ UNCHANGED files

(* The links of a page: to itself, to another site, with and without a     *)
(* word of enquiry or booking. Only the same site's other pages count.     *)
Links == {"sameDocument", "otherSite", "plain", "enquiry"}
HasRelevant(links) == "enquiry" \in links

(* A viewport is a context of its own, with the policy applied to it.      *)
Opened(state, viewport) == [state EXCEPT !.contexts = {viewport}]

(* The home page on a desktop screen. Without it the inspection is         *)
(* blocked; with it, a link to an enquiry or booking page is looked for.   *)
VisitDesktop(a) ==
    /\ work[a].pc = "desktop"
    /\ LET opened == Opened(work[a], "Desktop") IN
       \/ IsStopped(a, "Desktop", 0,
            [opened EXCEPT !.pc = "closeProxy", !.status = "Blocked"])
       \/ \E links \in SUBSET Links :
            Captures(a, "Desktop", 0,
              IF HasRelevant(links)
                THEN [opened EXCEPT !.pc = "desktopPage"]
                ELSE [opened EXCEPT !.pc = "closeProxy", !.status = "Partial",
                        !.blocks = @ \cup {Block("relevant-page-not-found", "site")}])
    /\ UNCHANGED session

(* The relevant page in the same context, which is closed whatever comes.  *)
VisitDesktopPage(a) ==
    /\ work[a].pc = "desktopPage"
    /\ LET after == [work[a] EXCEPT !.pc = "mobile", !.contexts = {}]
           sequence == Len(work[a].pages)
       IN \/ Captures(a, "Desktop", sequence, after)
          \/ IsStopped(a, "Desktop", sequence, after)
    /\ UNCHANGED session

(* Complete is four pages and no block so far; anything less is partial.   *)
Judged(pages, blocks) ==
    IF pages = 4 /\ blocks = {} THEN "Complete" ELSE "Partial"

(* The home page on a mobile screen, in a context of its own.              *)
VisitMobile(a) ==
    /\ work[a].pc = "mobile"
    /\ LET opened == Opened(work[a], "Mobile") IN
       \/ IsStopped(a, "Mobile", 0,
            [opened EXCEPT !.pc = "closeProxy", !.status = "Partial"])
       \/ Captures(a, "Mobile", 0, [opened EXCEPT !.pc = "mobilePage"])
    /\ UNCHANGED session

(* With the relevant page on a mobile screen the visits are over.          *)
VisitMobilePage(a) ==
    /\ work[a].pc = "mobilePage"
    /\ LET after == [work[a] EXCEPT !.pc = "closeProxy", !.contexts = {}]
           sequence == Len(work[a].pages)
       IN \/ Captures(a, "Mobile", sequence,
               [after EXCEPT !.status = Judged(sequence + 1, after.blocks)])
          \/ IsStopped(a, "Mobile", sequence, [after EXCEPT !.status = "Partial"])
    /\ UNCHANGED session

Browsing == {"desktop", "desktopPage", "mobile", "mobilePage",
             "closeProxy", "closingProxy", "closeBrowser"}

(* The browser itself may fail: a context that does not open or close      *)
(* fails the attempt, through the same cleanup.                            *)
BrowserFails(a) ==
    /\ work[a].pc \in {"desktop", "desktopPage", "mobile", "mobilePage"}
    /\ Goes(a, [work[a] EXCEPT !.pc = "closeProxy", !.status = "failed"])
    /\ UNCHANGED <<session, files>>

(* A page may open a socket, a popup or a download, or ask for a refused   *)
(* address, whose lookup may outlast the page's context: a block, in the   *)
(* list the result will hold, even when its status has been decided.       *)
PageEvent(a) ==
    /\ work[a].browser /\ work[a].pc \in Browsing \ {"desktop"}
    /\ Goes(a, [work[a] EXCEPT !.blocks = @ \cup {Block("page-event", "event")}])
    /\ UNCHANGED <<session, files>>

-----------------------------------------------------------------------------
(* The pinned proxy: `lookups` tunnels wait for an address, `tunnels` are  *)
(* connected and in the set of sockets that closing destroys. A plain HTTP *)
(* request, the proxy's other half, is left out: closing ends the          *)
(* browser's connection to it and does not wait, and what it has sent to   *)
(* the site may outlive the proxy by that request's own idle timeout.      *)

(* The browser asks for a tunnel, which waits for its address.             *)
AskTunnel(a) ==
    /\ work[a].proxy /\ work[a].contexts # {} /\ work[a].pc # "closingProxy"
    /\ asked < MaxTunnels /\ asked' = asked + 1
    /\ Goes(a, [work[a] EXCEPT !.lookups = @ + 1])
    /\ UNCHANGED <<website, owner, started, files, row, business, next, crashes>>

(* The address arrives: a public one is connected to by number, even when  *)
(* the proxy began to close meanwhile; anything else ends the socket.      *)
TunnelResolved(a) ==
    /\ work[a].lookups > 0
    /\ \E answer \in Answers :
         Goes(a, [work[a] EXCEPT
            !.lookups = @ - 1,
            !.tunnels = IF Refusal("host", answer) = "" THEN @ + 1 ELSE @])
    /\ UNCHANGED <<session, files>>

(* Either end closes a tunnel: the site, the browser, or the idle timeout. *)
TunnelEnds(a) ==
    /\ work[a].tunnels > 0
    /\ Goes(a, [work[a] EXCEPT !.tunnels = @ - 1])
    /\ UNCHANGED <<session, files>>

(* Closing destroys the sockets it knows; the ones that still wait for an  *)
(* address are in no set, and keep the server open until they end.         *)
CloseProxy(a) ==
    /\ work[a].pc = "closeProxy"
    /\ Goes(a, [work[a] EXCEPT !.pc = "closingProxy", !.tunnels = 0])
    /\ UNCHANGED <<session, files>>

(* Faulty: the server also waits for the contexts that use it, which only  *)
(* closing the browser ends.                                               *)
ProxyClosedUnused(a) ==
    /\ work[a].pc = "closingProxy"
    /\ work[a].lookups = 0 /\ work[a].tunnels = 0 /\ work[a].contexts = {}
    /\ Goes(a, [work[a] EXCEPT !.pc = "closeBrowser", !.proxy = FALSE])
    /\ UNCHANGED <<session, files>>

ProxyClosed(a) ==
    /\ work[a].pc = "closingProxy"
    /\ work[a].lookups = 0 /\ work[a].tunnels = 0
    /\ Goes(a, [work[a] EXCEPT !.pc = "closeBrowser", !.proxy = FALSE])
    /\ UNCHANGED <<session, files>>

(* The browser goes last, with every context it still has; when it cannot  *)
(* be told to, because it is gone already, the attempt fails with it. One  *)
(* that was interrupted has nobody left to hear its result.                *)
CloseBrowser(a) ==
    /\ work[a].pc = "closeBrowser"
    /\ LET shut == [work[a] EXCEPT !.browser = FALSE, !.contexts = {}] IN
       \/ FailsWith(a, shut)
       \/ /\ shut.status # "failed"
          /\ Goes(a, IF owner = a THEN [shut EXCEPT !.pc = "commit"]
                                 ELSE Over(shut, "dropped"))
          /\ UNCHANGED owner
    /\ UNCHANGED <<website, started, files, row, business, next, crashes, asked>>

-----------------------------------------------------------------------------
(* The task around it.                                                     *)

BusinessStatus ==
    [Complete |-> "Inspected", Partial |-> "InspectionPartial",
     Blocked |-> "InspectionBlocked", NoWebsite |-> "NoWebsite"]

Stored(a) ==
    [status |-> work[a].status, by |-> a,
     pages |-> {work[a].pages[i] : i \in DOMAIN work[a].pages},
     blocks |-> work[a].blocks]

(* The evidence is stored once per task: an attempt that finds a stored    *)
(* inspection keeps it, although it has just taken its pictures again.     *)
Commit(a) ==
    /\ work[a].pc = "commit" /\ owner = a
    /\ Goes(a, Over(work[a], "checkpoint"))
    /\ IF row # NoRow
         THEN UNCHANGED <<row, business>>
         ELSE /\ row' = Stored(a)
              /\ business' = BusinessStatus[work[a].status]
    /\ UNCHANGED <<website, owner, started, files, next, crashes, asked>>

(* An absent website is confirmed by a search before it is assessed.       *)
Successor(status) ==
    IF status = "NoWebsite" THEN "ConfirmAbsentWebsite" ELSE "AssessWebsiteOpportunity"

Checkpoint(a) ==
    /\ work[a].pc = "checkpoint" /\ owner = a
    /\ Goes(a, Over(work[a], "done"))
    /\ next' = Successor(work[a].status)
    /\ owner' = 0
    /\ UNCHANGED <<website, started, files, row, business, crashes, asked>>

(* A lease that cannot be renewed interrupts the attempt: between steps it *)
(* stops there, while it waits for the browser it only stops listening.    *)
LoseLease(a) ==
    /\ owner = a
    /\ owner' = 0
    /\ Goes(a, IF work[a].pc \in {"commit", "checkpoint"}
                 THEN Over(work[a], "dropped") ELSE work[a])
    /\ UNCHANGED <<website, started, files, row, business, next, crashes, asked>>

(* The worker dies, and its browsers and proxies with it.                  *)
Crash ==
    /\ crashes < MaxCrashes /\ \E a \in 1 .. Attempts : work[a].pc # "idle"
    /\ crashes' = crashes + 1
    /\ owner' = 0
    /\ work' = [a \in 1 .. Attempts |->
                  IF work[a].pc \in {"idle", "done", "failed", "dropped"}
                    THEN work[a] ELSE [Idle EXCEPT !.pc = "dropped"]]
    /\ UNCHANGED <<website, started, files, row, business, next, asked>>

Finished ==
    /\ \A a \in 1 .. Attempts :
         work[a].pc \in {"idle", "done", "failed", "dropped"}
    /\ next # "none" \/ started = Attempts
    /\ UNCHANGED vars

Step(a) ==
    \/ Validate(a) \/ Launch(a) \/ StartProxy(a)
    \/ VisitDesktop(a) \/ VisitDesktopPage(a) \/ VisitMobile(a)
    \/ VisitMobilePage(a)
    \/ CloseProxy(a) \/ ProxyClosed(a) \/ CloseBrowser(a)
    \/ Commit(a) \/ Checkpoint(a)

Tunnels(a) == AskTunnel(a) \/ TunnelResolved(a) \/ TunnelEnds(a)

Next ==
    \/ \E a \in 1 .. Attempts :
         \/ Begin(a) \/ Step(a) \/ Tunnels(a)
         \/ BrowserFails(a) \/ PageEvent(a) \/ LoseLease(a)
    \/ Crash
    \/ Finished

(* Every call on the browser has a timeout, and every lookup an answer;    *)
(* that a tunnel ends is the idle timeout of the browser or of the site.   *)
Fairness ==
    \A a \in 1 .. Attempts :
        /\ WF_vars(Step(a))
        /\ WF_vars(TunnelResolved(a))
        /\ WF_vars(TunnelEnds(a))

Spec == Init /\ [][Next]_vars /\ Fairness

-----------------------------------------------------------------------------
(* Properties.                                                             *)

(* Whatever becomes of an attempt (refused, failed half-way, interrupted,  *)
(* complete), it leaves no browser, no proxy and no tunnel running.        *)
NothingIsLeftOpen ==
    \A a \in 1 .. Attempts :
        work[a].pc \in Closed =>
            /\ ~work[a].browser /\ ~work[a].proxy
            /\ work[a].tunnels = 0 /\ work[a].lookups = 0

(* What was not seen is explained: a blocked inspection shows no page and  *)
(* says why, and each of the four visits missing from a partial one has a  *)
(* block of its own viewport, or there was no page to go on to.            *)
LimitsAreExplained ==
    /\ row.status = "Complete" =>
         Cardinality({p.path : p \in row.pages}) = 4
    /\ row.status = "Blocked" => row.pages = {} /\ row.blocks # {}
    /\ row.status = "Partial" =>
         /\ \E p \in row.pages : p.path = Path("Desktop", 0)
         /\ \A v \in Viewports :
              \/ Cardinality({p \in row.pages : p.viewport = v}) = 2
              \/ \E b \in row.blocks :
                   \/ b.code = "relevant-page-not-found"
                   \/ b.at \in Paths /\ b.at[2] = v

(* The reviewer is shown a stored picture whose file is still the one the  *)
(* row describes (its size is compared), and nothing otherwise.            *)
IsServed(page) == files[page.path] = page.picture

(* While one attempt has been made, each stored page is beside the picture *)
(* that was taken of it, in a file no other page was written to.           *)
EvidenceIsOwn ==
    started <= 1 => \A p \in row.pages : IsServed(p)

EvidenceIsHonest == LimitsAreExplained /\ EvidenceIsOwn

(* Every attempt comes to an end: the pages and the proxy are bounded.     *)
InspectionEnds ==
    \A a \in 1 .. Attempts :
        (work[a].pc # "idle") ~>
            (work[a].pc \in {"done", "failed", "dropped"})
=============================================================================
