-------------------------- MODULE InspectionProofs --------------------------
(***************************************************************************)
(* Proofs about Inspection, for any number of attempts, tunnels and        *)
(* crashes: no attempt leaves its browser, its proxy or a tunnel running,  *)
(* and a stored inspection explains what it misses and shows the pictures  *)
(* that were taken for it.                                                 *)
(***************************************************************************)
EXTENDS Inspection, FiniteSetTheorems, SequenceTheorems, TLAPS

-----------------------------------------------------------------------------
(* The inductive invariant.                                                *)

Attempt == 1 .. Attempts
Pictures == Attempt \X Viewports \X (0 .. 3)
Pages == [viewport : Viewports, path : Paths, picture : Pictures]
Codes == {"not-captured", "page-event", "relevant-page-not-found", "unsafe-protocol",
          "credentials-in-url", "local-hostname", "unresolvable-host", "private-address"}
Blocks == [code : Codes, at : {"site", "event"} \cup Paths]
Verdict == {"Complete", "Partial", "Blocked", "NoWebsite"}

Session == [pc : {"validate", "launch", "proxy"} \cup Browsing \cup Closed,
            browser : BOOLEAN, proxy : BOOLEAN, contexts : SUBSET Viewports,
            lookups : Nat, tunnels : Nat, pages : Seq(Pages), blocks : SUBSET Blocks,
            status : {"none", "failed"} \cup Verdict]

TypeOK ==
    /\ website \in Websites
    /\ work \in [Attempt -> Session]
    /\ owner \in 0 .. Attempts /\ started \in 0 .. Attempts
    /\ files \in [Paths -> {<<>>} \cup Pictures]
    /\ row \in [status : {"none"} \cup Verdict, by : 0 .. Attempts,
                pages : SUBSET Pages, blocks : SUBSET Blocks]
    /\ business \in {"Corroborated"} \cup {BusinessStatus[status] : status \in Verdict}
    /\ next \in {"none", "ConfirmAbsentWebsite", "AssessWebsiteOpportunity"}
    /\ crashes \in 0 .. MaxCrashes /\ asked \in 0 .. MaxTunnels

\* What a session has open, by where it is.
OpenOK(s) ==
    /\ ~s.proxy => s.lookups = 0 /\ s.tunnels = 0
    /\ s.pc \in Closed \cup {"validate", "launch"} =>
         ~s.browser /\ ~s.proxy /\ s.contexts = {}
    /\ s.pc \in {"proxy", "closeBrowser"} => ~s.proxy
    /\ s.pc \in {"proxy", "desktop", "mobile"} => s.contexts = {}

\* What an inspection with this status shows and misses.
Shown(pages) == {pages[i] : i \in DOMAIN pages}
Explained(status, pages, blocks) ==
    /\ status = "Complete" => Cardinality({p.path : p \in pages}) = 4
    /\ status = "Blocked" => pages = {} /\ blocks # {}
    /\ status = "Partial" =>
         /\ \E p \in pages : p.path = Path("Desktop", 0)
         /\ \A v \in Viewports :
              \/ Cardinality({p \in pages : p.viewport = v}) = 2
              \/ \E b \in blocks :
                   \/ b.code = "relevant-page-not-found"
                   \/ b.at \in Paths /\ b.at[2] = v

\* What a session has seen, by where it is: with D and M for its desktop and
\* mobile pages.
SeenOK(a, s) ==
    LET D(i) == Evidence(a, "Desktop", i)
        M(i) == Evidence(a, "Mobile", i)
    IN
    /\ s.pc \in {"idle", "validate", "launch", "proxy", "desktop"} =>
         s.pages = <<>> /\ s.blocks = {}
    /\ s.pc \in {"checkpoint", "done", "failed", "dropped"} => s.pages = <<>>
    /\ s.pc = "desktopPage" => s.pages = <<D(0)>>
    /\ s.pc = "mobile" =>
         \/ s.pages = <<D(0), D(1)>>
         \/ s.pages = <<D(0)>> /\ Missed("Desktop", 1) \in s.blocks
    /\ s.pc = "mobilePage" =>
         \/ s.pages = <<D(0), D(1), M(0)>>
         \/ s.pages = <<D(0), M(0)>> /\ Missed("Desktop", 1) \in s.blocks
    /\ s.pc \in {"closeProxy", "closingProxy", "closeBrowser", "commit"} =>
         \/ s.pc # "commit" /\ s.status = "failed"
         \/ s.status \in Verdict /\ Explained(s.status, Shown(s.pages), s.blocks)
    /\ s.pc = "checkpoint" => s.status \in Verdict

\* An attempt that has not begun has done nothing, and stored nothing.
BegunOK ==
    /\ \A a \in Attempt : a > started => work[a].pc = "idle"
    /\ row # NoRow => started > 0

\* Until a second attempt begins, every picture is where it was put, and an
\* attempt that has stored its evidence takes no further one.
OwnOK ==
    started <= 1 =>
        /\ \A a \in Attempt : \A p \in Shown(work[a].pages) : IsServed(p)
        /\ \A p \in row.pages : IsServed(p)
        /\ row # NoRow =>
             \A a \in Attempt : work[a].pc \in {"idle", "checkpoint", "done", "dropped"}

SessionsOK == \A a \in Attempt : OpenOK(work[a]) /\ SeenOK(a, work[a])

IInv == /\ TypeOK /\ SessionsOK /\ BegunOK /\ OwnOK
        /\ Explained(row.status, row.pages, row.blocks)

-----------------------------------------------------------------------------
(* Paths, pictures and blocks.                                             *)

LEMMA PathFacts ==
    ASSUME NEW a \in Attempt, NEW v \in Viewports, NEW i \in 0 .. 3
    PROVE  /\ Path(v, i) \in Paths /\ Path(v, i) = <<i, v>>
           /\ Picture(a, v, i) \in Pictures
           /\ Evidence(a, v, i) \in Pages /\ Evidence(a, v, i).viewport = v
           /\ Evidence(a, v, i).path = Path(v, i)
           /\ Evidence(a, v, i).picture = Picture(a, v, i)
           /\ Missed(v, i) \in Blocks /\ Missed(v, i).at = Path(v, i)
           /\ Missed(v, i).at[2] = v
<1>1. Path(v, i) \in Paths /\ Path(v, i) = <<i, v>> /\ Path(v, i)[2] = v
  BY DEF Path, Paths
<1>2. Picture(a, v, i) \in Pictures
  BY DEF Picture, Pictures
<1>3. /\ Evidence(a, v, i) \in Pages /\ Evidence(a, v, i).viewport = v
      /\ Evidence(a, v, i).path = Path(v, i)
      /\ Evidence(a, v, i).picture = Picture(a, v, i)
  BY <1>1, <1>2 DEF Evidence, Pages
<1>4. Missed(v, i) \in Blocks /\ Missed(v, i).at = Path(v, i)
  BY <1>1 DEF Missed, Block, Blocks, Codes
<1> QED BY <1>1, <1>2, <1>3, <1>4

LEMMA ShownFacts ==
    /\ Shown(<<>>) = {}
    /\ \A w : Shown(<<w>>) = {w}
    /\ \A w, x : Shown(<<w, x>>) = {w, x}
    /\ \A w, x, y : Shown(<<w, x, y>>) = {w, x, y}
    /\ \A w, x, y, z : Shown(<<w, x, y, z>>) = {w, x, y, z}
BY DEF Shown

LEMMA AppendIs ==
    ASSUME NEW S, NEW s \in Seq(S), NEW t \in Seq(S), NEW e \in S, Len(t) = Len(s) + 1,
           \A i \in 1 .. Len(s) : s[i] = t[i], t[Len(t)] = e
    PROVE  Append(s, e) = t
<1> DEFINE u == Append(s, e)
<1>1. /\ u \in Seq(S) /\ Len(u) = Len(s) + 1
      /\ \A i \in 1 .. Len(s) : u[i] = s[i]
      /\ u[Len(s) + 1] = e
  BY AppendProperties
<1>2. Len(s) \in Nat
  OBVIOUS
<1> HIDE DEF u
<1>3. \A i \in 1 .. Len(u) : u[i] = t[i]
  BY <1>1, <1>2
<1>4. u = t
  BY <1>1, <1>3, SeqEqual
<1> QED BY <1>4 DEF u

LEMMA AppendFacts ==
    ASSUME NEW S, NEW w \in S, NEW x \in S, NEW y \in S
    PROVE  /\ Append(<<>>, w) = <<w>>
           /\ Append(<<w>>, x) = <<w, x>>
           /\ Append(<<w, x>>, y) = <<w, x, y>>
<1>1. Append(<<>>, w) = <<w>>
  OBVIOUS
<1>2. Append(<<w>>, x) = <<w, x>>
  <2> DEFINE s == <<w>>
             t == <<w, x>>
  <2>1. /\ s \in Seq(S) /\ t \in Seq(S) /\ Len(t) = Len(s) + 1
        /\ \A i \in 1 .. Len(s) : s[i] = t[i]
        /\ t[Len(t)] = x
    OBVIOUS
  <2> HIDE DEF s, t
  <2>2. Append(s, x) = t
    BY <2>1, AppendIs
  <2> QED BY <2>2 DEF s, t
<1>3. Append(<<w, x>>, y) = <<w, x, y>>
  <2> DEFINE s == <<w, x>>
             t == <<w, x, y>>
  <2>1. /\ s \in Seq(S) /\ t \in Seq(S) /\ Len(t) = Len(s) + 1
        /\ \A i \in 1 .. Len(s) : s[i] = t[i]
        /\ t[Len(t)] = y
    OBVIOUS
  <2> HIDE DEF s, t
  <2>2. Append(s, y) = t
    BY <2>1, AppendIs
  <2> QED BY <2>2 DEF s, t
<1> QED BY <1>1, <1>2, <1>3

LEMMA AppendFour ==
    \A S : \A w, x, y, z \in S : Append(<<w, x, y>>, z) = <<w, x, y, z>>
<1> SUFFICES ASSUME NEW S, NEW w \in S, NEW x \in S, NEW y \in S, NEW z \in S
             PROVE  Append(<<w, x, y>>, z) = <<w, x, y, z>>
  OBVIOUS
<1> DEFINE s == <<w, x, y>>
           t == <<w, x, y, z>>
<1>1. /\ s \in Seq(S) /\ t \in Seq(S) /\ Len(t) = Len(s) + 1
      /\ \A i \in 1 .. Len(s) : s[i] = t[i]
      /\ t[Len(t)] = z
  OBVIOUS
<1> HIDE DEF s, t
<1>2. Append(s, z) = t
  BY <1>1, AppendIs
<1> QED BY <1>2 DEF s, t

LEMMA PairHasTwo == \A x, y : x # y => Cardinality({x, y}) = 2
<1> SUFFICES ASSUME NEW x, NEW y, x # y PROVE Cardinality({x, y}) = 2
  OBVIOUS
<1>1. IsFiniteSet({x}) /\ Cardinality({x}) = 1
  BY FS_Singleton
<1>2. Cardinality({x} \cup {y}) = 1 + 1
  BY <1>1, FS_AddElement
<1>3. {x} \cup {y} = {x, y}
  OBVIOUS
<1> QED BY <1>2, <1>3

LEMMA FourAreFour ==
    \A w, x, y, z : w \notin {x, y, z} /\ x \notin {y, z} /\ y # z
                      => Cardinality({w, x, y, z}) = 4
<1> SUFFICES ASSUME NEW w, NEW x, NEW y, NEW z,
                    w \notin {x, y, z}, x \notin {y, z}, y # z
             PROVE  Cardinality({w, x, y, z}) = 4
  OBVIOUS
<1>1. IsFiniteSet({z}) /\ Cardinality({z}) = 1
  BY FS_Singleton
<1>2. IsFiniteSet({z} \cup {y}) /\ Cardinality({z} \cup {y}) = 1 + 1
  BY <1>1, FS_AddElement
<1>3. /\ IsFiniteSet({z} \cup {y} \cup {x})
      /\ Cardinality({z} \cup {y} \cup {x}) = 1 + 1 + 1
  BY <1>2, FS_AddElement
<1>4. Cardinality({z} \cup {y} \cup {x} \cup {w}) = 1 + 1 + 1 + 1
  BY <1>3, FS_AddElement
<1>5. {z} \cup {y} \cup {x} \cup {w} = {w, x, y, z}
  OBVIOUS
<1> QED BY <1>4, <1>5

-----------------------------------------------------------------------------
(* What explains an inspection.                                            *)

LEMMA ExplanationsLast ==
    ASSUME NEW status, NEW pages, NEW blocks, NEW b, Explained(status, pages, blocks)
    PROVE  Explained(status, pages, blocks \cup {b})
BY DEF Explained

\* No page, and a reason.
LEMMA BlockedIsExplained ==
    ASSUME NEW blocks, blocks # {}
    PROVE  Explained("Blocked", Shown(<<>>), blocks)
BY ShownFacts DEF Explained

\* The home page, and no link to go on to.
LEMMA HomeIsExplained ==
    ASSUME NEW a \in Attempt, NEW blocks, Block("relevant-page-not-found", "site") \in blocks
    PROVE  Explained("Partial", Shown(<<Evidence(a, "Desktop", 0)>>), blocks)
BY ShownFacts, PathFacts DEF Explained, Viewports, Block

\* The pages of a viewport are two, or one of them is missed.
Accounted(v, pages, blocks) ==
    \/ Cardinality({p \in pages : p.viewport = v}) = 2
    \/ \E i \in 0 .. 3 : Missed(v, i) \in blocks

LEMMA PartialIsExplained ==
    ASSUME NEW pages, NEW blocks,
           \E p \in pages : p.path = Path("Desktop", 0),
           Accounted("Desktop", pages, blocks), Accounted("Mobile", pages, blocks),
           Attempt # {}
    PROVE  Explained("Partial", pages, blocks)
<1>1. ASSUME NEW v \in Viewports, Accounted(v, pages, blocks)
      PROVE  \/ Cardinality({p \in pages : p.viewport = v}) = 2
             \/ \E b \in blocks : b.at \in Paths /\ b.at[2] = v
  BY <1>1, PathFacts DEF Accounted
<1> QED BY <1>1 DEF Explained, Viewports

\* The first two pages of a visit on a desktop, and of one on a mobile screen.
LEMMA PagesAreAccounted ==
    ASSUME NEW a \in Attempt, NEW blocks, NEW i \in 1 .. 3
    PROVE  LET D(n) == Evidence(a, "Desktop", n)
               M(n) == Evidence(a, "Mobile", n)
           IN  /\ Accounted("Desktop", Shown(<<D(0), D(1)>>), blocks)
               /\ Accounted("Desktop", Shown(<<D(0), D(1), M(0)>>), blocks)
               /\ Accounted("Desktop", Shown(<<D(0), D(1), M(0), M(i)>>), blocks)
               /\ Accounted("Mobile", Shown(<<D(0), M(0), M(i)>>), blocks)
               /\ Accounted("Mobile", Shown(<<D(0), D(1), M(0), M(i)>>), blocks)
<1> DEFINE D(n) == Evidence(a, "Desktop", n)
           M(n) == Evidence(a, "Mobile", n)
<1>1. \A n \in 0 .. 3 : /\ D(n).viewport = "Desktop" /\ D(n).path = <<n, "Desktop">>
                        /\ M(n).viewport = "Mobile" /\ M(n).path = <<n, "Mobile">>
  BY PathFacts DEF Viewports
<1>2. D(0) # D(1) /\ M(0) # M(i)
  BY <1>1
<1> HIDE DEF D, M
<1>3. /\ {p \in {D(0), D(1)} : p.viewport = "Desktop"} = {D(0), D(1)}
      /\ {p \in {D(0), D(1), M(0)} : p.viewport = "Desktop"} = {D(0), D(1)}
      /\ {p \in {D(0), D(1), M(0), M(i)} : p.viewport = "Desktop"} = {D(0), D(1)}
      /\ {p \in {D(0), M(0), M(i)} : p.viewport = "Mobile"} = {M(0), M(i)}
      /\ {p \in {D(0), D(1), M(0), M(i)} : p.viewport = "Mobile"} = {M(0), M(i)}
  BY <1>1
<1>4. Cardinality({D(0), D(1)}) = 2 /\ Cardinality({M(0), M(i)}) = 2
  BY <1>2, PairHasTwo
<1>5. /\ Accounted("Desktop", Shown(<<D(0), D(1)>>), blocks)
      /\ Accounted("Desktop", Shown(<<D(0), D(1), M(0)>>), blocks)
      /\ Accounted("Desktop", Shown(<<D(0), D(1), M(0), M(i)>>), blocks)
      /\ Accounted("Mobile", Shown(<<D(0), M(0), M(i)>>), blocks)
      /\ Accounted("Mobile", Shown(<<D(0), D(1), M(0), M(i)>>), blocks)
  <2>1. /\ Shown(<<D(0), D(1)>>) = {D(0), D(1)}
        /\ Shown(<<D(0), D(1), M(0)>>) = {D(0), D(1), M(0)}
        /\ Shown(<<D(0), D(1), M(0), M(i)>>) = {D(0), D(1), M(0), M(i)}
        /\ Shown(<<D(0), M(0), M(i)>>) = {D(0), M(0), M(i)}
    BY ShownFacts
  <2> QED BY <1>3, <1>4, <2>1, Zenon DEF Accounted
<1> QED BY <1>5 DEF D, M

\* All four.
LEMMA CompleteIsExplained ==
    ASSUME NEW a \in Attempt, NEW blocks
    PROVE  Explained("Complete", Shown(<<Evidence(a, "Desktop", 0), Evidence(a, "Desktop", 1),
                                         Evidence(a, "Mobile", 0), Evidence(a, "Mobile", 3)>>),
                     blocks)
<1> DEFINE D(n) == Evidence(a, "Desktop", n)
           M(n) == Evidence(a, "Mobile", n)
<1>1. /\ D(0).path = <<0, "Desktop">> /\ D(1).path = <<1, "Desktop">>
      /\ M(0).path = <<0, "Mobile">> /\ M(3).path = <<3, "Mobile">>
  BY PathFacts DEF Viewports
<1> HIDE DEF D, M
<1>2. {p.path : p \in {D(0), D(1), M(0), M(3)}}
        = {<<0, "Desktop">>, <<1, "Desktop">>, <<0, "Mobile">>, <<3, "Mobile">>}
  BY <1>1
<1>3. Cardinality({<<0, "Desktop">>, <<1, "Desktop">>, <<0, "Mobile">>, <<3, "Mobile">>}) = 4
  <2>1. /\ <<0, "Desktop">> \notin {<<1, "Desktop">>, <<0, "Mobile">>, <<3, "Mobile">>}
        /\ <<1, "Desktop">> \notin {<<0, "Mobile">>, <<3, "Mobile">>}
        /\ <<0, "Mobile">> # <<3, "Mobile">>
    OBVIOUS
  <2> QED BY <2>1, FourAreFour, Zenon
<1>4. Explained("Complete", Shown(<<D(0), D(1), M(0), M(3)>>), blocks)
  <2>1. Shown(<<D(0), D(1), M(0), M(3)>>) = {D(0), D(1), M(0), M(3)}
    BY ShownFacts
  <2>2. Cardinality({p.path : p \in Shown(<<D(0), D(1), M(0), M(3)>>)}) = 4
    BY <1>2, <1>3, <2>1, Zenon
  <2> QED BY <2>2 DEF Explained
<1> QED BY <1>4 DEF D, M

-----------------------------------------------------------------------------
(* Sessions.  What each operation makes of one.                            *)

SessionOK(a, s) == s \in Session /\ OpenOK(s) /\ SeenOK(a, s)

LEMMA BlockFacts ==
    /\ Block("page-event", "event") \in Blocks
    /\ Block("relevant-page-not-found", "site") \in Blocks
    /\ \A url \in Websites \ {"none"}, answer \in Answers :
         Refusal(url, answer) # "" => Block(Refusal(url, answer), "site") \in Blocks
BY DEF Block, Blocks, Codes, Refusal

LEMMA NewSessions ==
    ASSUME NEW a \in Attempt
    PROVE  /\ SessionOK(a, Idle)
           /\ SessionOK(a, [Idle EXCEPT !.pc = "validate"])
           /\ SessionOK(a, [Idle EXCEPT !.pc = "dropped"])
           /\ SessionOK(a, [Idle EXCEPT !.pc = "commit", !.status = "NoWebsite"])
<1>1. ASSUME NEW s \in Session, ~s.browser, ~s.proxy, s.contexts = {}, s.lookups = 0,
             s.tunnels = 0, s.pages = <<>>, s.blocks = {},
             \/ s.pc \in {"idle", "validate", "dropped"}
             \/ s.pc = "commit" /\ s.status = "NoWebsite"
      PROVE  SessionOK(a, s)
  <2>1. OpenOK(s)
    BY <1>1 DEF OpenOK
  <2>2. s.pc = "commit" => Explained(s.status, Shown(s.pages), s.blocks)
    BY <1>1 DEF Explained
  <2>3. SeenOK(a, s)
    BY <1>1, <2>2 DEF SeenOK, Verdict
  <2> QED BY <1>1, <2>1, <2>3 DEF SessionOK
<1>2. Idle \in Session
  <2>1. <<>> \in Seq(Pages) /\ {} \in SUBSET Blocks /\ {} \in SUBSET Viewports
    OBVIOUS
  <2> QED BY <2>1 DEF Idle, Session, Closed
<1>3. [Idle EXCEPT !.pc = "validate"] \in Session
  BY <1>2 DEF Session
<1>4. [Idle EXCEPT !.pc = "dropped"] \in Session
  BY <1>2 DEF Session, Closed
<1>5. [Idle EXCEPT !.pc = "commit", !.status = "NoWebsite"] \in Session
  BY <1>2 DEF Session, Closed, Verdict
<1>6. SessionOK(a, Idle)
  BY <1>1, <1>2 DEF Idle
<1>7. SessionOK(a, [Idle EXCEPT !.pc = "validate"])
  BY <1>1, <1>3 DEF Idle
<1>8. SessionOK(a, [Idle EXCEPT !.pc = "dropped"])
  BY <1>1, <1>4 DEF Idle
<1>9. SessionOK(a, [Idle EXCEPT !.pc = "commit", !.status = "NoWebsite"])
  BY <1>1, <1>5 DEF Idle
<1> QED BY <1>6, <1>7, <1>8, <1>9

\* An attempt that is over knows nothing any more.
LEMMA OverSessions ==
    ASSUME NEW a \in Attempt, NEW s, SessionOK(a, s),
           NEW pc \in {"failed", "dropped", "checkpoint", "done"},
           ~s.browser, ~s.proxy, s.contexts = {},
           pc = "checkpoint" => s.status \in Verdict
    PROVE  SessionOK(a, Over(s, pc))
<1> DEFINE new == Over(s, pc)
<1>1. new \in Session
  <2>1. pc \in Closed /\ <<>> \in Seq(Pages) /\ {} \in SUBSET Blocks
    BY DEF Closed
  <2> QED BY <2>1 DEF SessionOK, Over, Session
<1>2. /\ new.pc = pc /\ new.pages = <<>> /\ new.blocks = {} /\ new.status = s.status
      /\ new.browser = s.browser /\ new.proxy = s.proxy /\ new.contexts = s.contexts
      /\ new.lookups = s.lookups /\ new.tunnels = s.tunnels
  BY DEF SessionOK, Over, Session
<1> HIDE DEF new
<1>3. OpenOK(new) /\ SeenOK(a, new)
  BY <1>2 DEF SessionOK, OpenOK, SeenOK
<1> QED BY <1>1, <1>3 DEF SessionOK, new

\* Before the browser, and while it and its proxy start.
LEMMA StartingSessions ==
    ASSUME NEW a \in Attempt, NEW s, SessionOK(a, s)
    PROVE  /\ s.pc = "validate" => SessionOK(a, [s EXCEPT !.pc = "launch"])
           /\ \A b \in Blocks : s.pc = "validate" =>
                SessionOK(a, [s EXCEPT !.pc = "commit", !.status = "Blocked", !.blocks = {b}])
           /\ s.pc = "launch" => SessionOK(a, [s EXCEPT !.pc = "proxy", !.browser = TRUE])
           /\ s.pc = "proxy" => SessionOK(a, [s EXCEPT !.pc = "desktop", !.proxy = TRUE])
<1> USE DEF SessionOK, Session, Closed, Browsing, Verdict, OpenOK, SeenOK
<1>1. s.pc = "validate" => SessionOK(a, [s EXCEPT !.pc = "launch"])
  OBVIOUS
<1>2. ASSUME NEW b \in Blocks, s.pc = "validate"
      PROVE  SessionOK(a, [s EXCEPT !.pc = "commit", !.status = "Blocked", !.blocks = {b}])
  <2>1. Explained("Blocked", Shown(<<>>), {b})
    BY BlockedIsExplained
  <2> QED BY <1>2, <2>1
<1>3. s.pc = "launch" => SessionOK(a, [s EXCEPT !.pc = "proxy", !.browser = TRUE])
  OBVIOUS
<1>4. s.pc = "proxy" => SessionOK(a, [s EXCEPT !.pc = "desktop", !.proxy = TRUE])
  OBVIOUS
<1> QED BY <1>1, <1>2, <1>3, <1>4

\* The proxy and the browser at work, closing and closed.
LEMMA ServingSessions ==
    ASSUME NEW a \in Attempt, NEW s, SessionOK(a, s)
    PROVE  /\ s.proxy => SessionOK(a, [s EXCEPT !.lookups = @ + 1])
           /\ \A n \in {0, 1} : s.lookups > 0 =>
                SessionOK(a, [s EXCEPT !.lookups = @ - 1, !.tunnels = @ + n])
           /\ s.tunnels > 0 => SessionOK(a, [s EXCEPT !.tunnels = @ - 1])
           /\ s.pc = "closeProxy" =>
                SessionOK(a, [s EXCEPT !.pc = "closingProxy", !.tunnels = 0])
           /\ s.pc = "closingProxy" /\ s.lookups = 0 /\ s.tunnels = 0 =>
                SessionOK(a, [s EXCEPT !.pc = "closeBrowser", !.proxy = FALSE])
           /\ s.pc \in {"desktop", "desktopPage", "mobile", "mobilePage"} =>
                SessionOK(a, [s EXCEPT !.pc = "closeProxy", !.status = "failed"])
<1> USE DEF SessionOK, Session, Closed, Browsing, Verdict, OpenOK, SeenOK
<1>1. s.proxy => SessionOK(a, [s EXCEPT !.lookups = @ + 1])
  OBVIOUS
<1>2. ASSUME NEW n \in {0, 1}, s.lookups > 0
      PROVE  SessionOK(a, [s EXCEPT !.lookups = @ - 1, !.tunnels = @ + n])
  <2> DEFINE new == [s EXCEPT !.lookups = @ - 1, !.tunnels = @ + n]
  <2>1. s.lookups - 1 \in Nat /\ s.tunnels + n \in Nat
    BY <1>2
  <2>2. /\ new \in Session /\ new.lookups = s.lookups - 1 /\ new.tunnels = s.tunnels + n
        /\ new.pc = s.pc /\ new.browser = s.browser /\ new.proxy = s.proxy
        /\ new.contexts = s.contexts /\ new.pages = s.pages /\ new.blocks = s.blocks
        /\ new.status = s.status
    BY <2>1
  <2> HIDE DEF new
  <2>3. OpenOK(new) /\ SeenOK(a, new)
    BY <1>2, <2>2
  <2>4. SessionOK(a, new)
    BY <2>2, <2>3
  <2> QED BY <2>4 DEF new
<1>3. s.tunnels > 0 => SessionOK(a, [s EXCEPT !.tunnels = @ - 1])
  OBVIOUS
<1>4. s.pc = "closeProxy" => SessionOK(a, [s EXCEPT !.pc = "closingProxy", !.tunnels = 0])
  OBVIOUS
<1>5. s.pc = "closingProxy" /\ s.lookups = 0 /\ s.tunnels = 0 =>
        SessionOK(a, [s EXCEPT !.pc = "closeBrowser", !.proxy = FALSE])
  OBVIOUS
<1>6. s.pc \in {"desktop", "desktopPage", "mobile", "mobilePage"} =>
        SessionOK(a, [s EXCEPT !.pc = "closeProxy", !.status = "failed"])
  OBVIOUS
<1> QED BY <1>1, <1>2, <1>3, <1>4, <1>5, <1>6

-----------------------------------------------------------------------------
(* Visits.  The session after one, shown a page or stopped.                *)

\* The session with a page more, and with a block more.
WithPage(s, page) == [s EXCEPT !.pages = Append(@, page)]
WithBlock(s, block) == [s EXCEPT !.blocks = @ \cup {block}]

LEMMA WithFacts ==
    ASSUME NEW s \in Session, NEW page \in Pages, NEW block \in Blocks
    PROVE  /\ WithPage(s, page) \in Session
           /\ WithPage(s, page).pages = Append(s.pages, page)
           /\ WithBlock(s, block) \in Session
           /\ WithBlock(s, block).blocks = s.blocks \cup {block}
           /\ WithBlock(s, block).pages = s.pages
           /\ WithPage(s, page).blocks = s.blocks
           /\ \A t \in {WithPage(s, page), WithBlock(s, block)} :
                /\ t.pc = s.pc /\ t.browser = s.browser /\ t.proxy = s.proxy
                /\ t.contexts = s.contexts /\ t.lookups = s.lookups
                /\ t.tunnels = s.tunnels /\ t.status = s.status
<1>1. Append(s.pages, page) \in Seq(Pages) /\ s.blocks \cup {block} \in SUBSET Blocks
  BY AppendProperties DEF Session
<1>2. /\ WithPage(s, page) \in Session /\ WithPage(s, page).pages = Append(s.pages, page)
      /\ WithPage(s, page).blocks = s.blocks
  BY <1>1 DEF WithPage, Session
<1>3. /\ WithBlock(s, block) \in Session
      /\ WithBlock(s, block).blocks = s.blocks \cup {block}
      /\ WithBlock(s, block).pages = s.pages
  BY <1>1 DEF WithBlock, Session
<1>4. /\ WithPage(s, page).pc = s.pc /\ WithPage(s, page).browser = s.browser
      /\ WithPage(s, page).proxy = s.proxy /\ WithPage(s, page).contexts = s.contexts
      /\ WithPage(s, page).lookups = s.lookups /\ WithPage(s, page).tunnels = s.tunnels
      /\ WithPage(s, page).status = s.status
  BY DEF WithPage, Session
<1>5. /\ WithBlock(s, block).pc = s.pc /\ WithBlock(s, block).browser = s.browser
      /\ WithBlock(s, block).proxy = s.proxy /\ WithBlock(s, block).contexts = s.contexts
      /\ WithBlock(s, block).lookups = s.lookups /\ WithBlock(s, block).tunnels = s.tunnels
      /\ WithBlock(s, block).status = s.status
  BY DEF WithBlock, Session
<1> QED BY <1>2, <1>3, <1>4, <1>5

\* A session at a visit, or past the last, has what it should have open.
LEMMA BrowsingIsOpen ==
    ASSUME NEW s, NEW t, OpenOK(s), t.proxy = s.proxy, t.lookups = s.lookups,
           t.tunnels = s.tunnels,
           \/ t.pc \in {"desktopPage", "mobilePage", "closeProxy"}
           \/ t.pc = "mobile" /\ t.contexts = {}
    PROVE  OpenOK(t)
BY DEF OpenOK, Closed

LEMMA DesktopSessions ==
    ASSUME NEW a \in Attempt, NEW s, SessionOK(a, s), s.pc = "desktop"
    PROVE  LET opened == Opened(s, "Desktop")
               home == Evidence(a, "Desktop", 0)
               none == Block("relevant-page-not-found", "site")
           IN  /\ SessionOK(a, WithBlock([opened EXCEPT !.pc = "closeProxy", !.status = "Blocked"],
                                         Missed("Desktop", 0)))
               /\ SessionOK(a, WithPage([opened EXCEPT !.pc = "desktopPage"], home))
               /\ SessionOK(a, WithPage([opened EXCEPT !.pc = "closeProxy", !.status = "Partial",
                                                       !.blocks = @ \cup {none}], home))
<1> DEFINE opened == Opened(s, "Desktop")
           home == Evidence(a, "Desktop", 0)
           none == Block("relevant-page-not-found", "site")
           missed == Missed("Desktop", 0)
<1>1. /\ home \in Pages /\ missed \in Blocks /\ none \in Blocks
      /\ "Desktop" \in Viewports
  <2>1. "Desktop" \in Viewports /\ 0 \in 0 .. 3
    BY DEF Viewports
  <2> QED BY <2>1, PathFacts, BlockFacts
<1>2. s \in Session /\ OpenOK(s) /\ s.pages = <<>> /\ s.blocks = {}
  BY DEF SessionOK, SeenOK
<1>3. SessionOK(a, WithBlock([opened EXCEPT !.pc = "closeProxy", !.status = "Blocked"], missed))
  <2> DEFINE t == [opened EXCEPT !.pc = "closeProxy", !.status = "Blocked"]
             new == WithBlock(t, missed)
  <2>1. /\ t \in Session /\ t.pc = "closeProxy" /\ t.status = "Blocked" /\ t.pages = <<>>
        /\ t.proxy = s.proxy /\ t.lookups = s.lookups /\ t.tunnels = s.tunnels
    BY <1>1, <1>2 DEF Opened, Session, Browsing, Verdict
  <2> HIDE DEF t
  <2>2. /\ new \in Session /\ new.pc = "closeProxy" /\ new.status = "Blocked"
        /\ new.pages = <<>> /\ missed \in new.blocks
        /\ new.proxy = s.proxy /\ new.lookups = s.lookups /\ new.tunnels = s.tunnels
    BY <1>1, <2>1, WithFacts
  <2> HIDE DEF new
  <2>3. OpenOK(new)
    BY <1>2, <2>2, BrowsingIsOpen
  <2>4. Explained(new.status, Shown(new.pages), new.blocks)
    BY <2>2, BlockedIsExplained
  <2>5. SeenOK(a, new)
    BY <2>2, <2>4 DEF SeenOK, Verdict
  <2> QED BY <2>2, <2>3, <2>5 DEF SessionOK, new, t
<1>4. SessionOK(a, WithPage([opened EXCEPT !.pc = "desktopPage"], home))
  <2> DEFINE t == [opened EXCEPT !.pc = "desktopPage"]
             new == WithPage(t, home)
  <2>1. /\ t \in Session /\ t.pc = "desktopPage" /\ t.pages = <<>>
        /\ t.proxy = s.proxy /\ t.lookups = s.lookups /\ t.tunnels = s.tunnels
    BY <1>1, <1>2 DEF Opened, Session, Browsing
  <2> HIDE DEF t
  <2>2. /\ new \in Session /\ new.pc = "desktopPage" /\ new.pages = <<home>>
        /\ new.proxy = s.proxy /\ new.lookups = s.lookups /\ new.tunnels = s.tunnels
    BY <1>1, <2>1, WithFacts, AppendFacts
  <2> HIDE DEF new
  <2>3. OpenOK(new)
    BY <1>2, <2>2, BrowsingIsOpen
  <2>4. SeenOK(a, new)
    BY <2>2 DEF SeenOK
  <2> QED BY <2>2, <2>3, <2>4 DEF SessionOK, new, t
<1>5. SessionOK(a, WithPage([opened EXCEPT !.pc = "closeProxy", !.status = "Partial",
                                           !.blocks = @ \cup {none}], home))
  <2> DEFINE t == [opened EXCEPT !.pc = "closeProxy", !.status = "Partial",
                                 !.blocks = @ \cup {none}]
             new == WithPage(t, home)
  <2>1. /\ t \in Session /\ t.pc = "closeProxy" /\ t.status = "Partial" /\ t.pages = <<>>
        /\ none \in t.blocks
        /\ t.proxy = s.proxy /\ t.lookups = s.lookups /\ t.tunnels = s.tunnels
    BY <1>1, <1>2 DEF Opened, Session, Browsing, Verdict
  <2> HIDE DEF t
  <2>2. /\ new \in Session /\ new.pc = "closeProxy" /\ new.status = "Partial"
        /\ new.pages = <<home>> /\ none \in new.blocks
        /\ new.proxy = s.proxy /\ new.lookups = s.lookups /\ new.tunnels = s.tunnels
    BY <1>1, <2>1, WithFacts, AppendFacts
  <2> HIDE DEF new
  <2>3. OpenOK(new)
    BY <1>2, <2>2, BrowsingIsOpen
  <2>4. Explained(new.status, Shown(new.pages), new.blocks)
    BY <2>2, HomeIsExplained
  <2>5. SeenOK(a, new)
    BY <2>2, <2>4 DEF SeenOK, Verdict
  <2> QED BY <2>2, <2>3, <2>5 DEF SessionOK, new, t
<1> QED BY <1>3, <1>4, <1>5

LEMMA DesktopPageSessions ==
    ASSUME NEW a \in Attempt, NEW s, SessionOK(a, s), s.pc = "desktopPage"
    PROVE  LET after == [s EXCEPT !.pc = "mobile", !.contexts = {}]
           IN  /\ Len(s.pages) = 1
               /\ SessionOK(a, WithPage(after, Evidence(a, "Desktop", 1)))
               /\ SessionOK(a, WithBlock(after, Missed("Desktop", 1)))
<1> DEFINE after == [s EXCEPT !.pc = "mobile", !.contexts = {}]
           home == Evidence(a, "Desktop", 0)
           page == Evidence(a, "Desktop", 1)
           missed == Missed("Desktop", 1)
<1>1. home \in Pages /\ page \in Pages /\ missed \in Blocks
  <2>1. "Desktop" \in Viewports /\ {0, 1} \subseteq 0 .. 3
    BY DEF Viewports
  <2> QED BY <2>1, PathFacts
<1>2. s \in Session /\ OpenOK(s) /\ s.pages = <<home>>
  BY DEF SessionOK, SeenOK
<1>3. /\ after \in Session /\ after.pc = "mobile" /\ after.contexts = {}
      /\ after.pages = s.pages
      /\ after.proxy = s.proxy /\ after.lookups = s.lookups /\ after.tunnels = s.tunnels
  BY <1>2 DEF Session, Browsing
<1> HIDE DEF after, home, page, missed
<1>4. SessionOK(a, WithPage(after, page))
  <2> DEFINE new == WithPage(after, page)
  <2>1. /\ new \in Session /\ new.pc = "mobile" /\ new.contexts = {}
        /\ new.pages = Append(s.pages, page)
        /\ new.proxy = s.proxy /\ new.lookups = s.lookups /\ new.tunnels = s.tunnels
    BY <1>1, <1>3, WithFacts
  <2> HIDE DEF new
  <2>2. Append(<<home>>, page) = <<home, page>>
    BY <1>1, AppendFacts, Zenon
  <2>3. OpenOK(new) /\ SeenOK(a, new)
    BY <1>2, <2>1, <2>2, BrowsingIsOpen DEF SeenOK, home, page
  <2> QED BY <2>1, <2>3 DEF SessionOK, new
<1>5. SessionOK(a, WithBlock(after, missed))
  <2> DEFINE new == WithBlock(after, missed)
  <2>1. /\ new \in Session /\ new.pc = "mobile" /\ new.contexts = {}
        /\ new.pages = <<home>> /\ missed \in new.blocks
        /\ new.proxy = s.proxy /\ new.lookups = s.lookups /\ new.tunnels = s.tunnels
    BY <1>1, <1>2, <1>3, WithFacts
  <2> HIDE DEF new
  <2>2. OpenOK(new) /\ SeenOK(a, new)
    BY <1>2, <2>1, BrowsingIsOpen DEF SeenOK, home, missed
  <2> QED BY <2>1, <2>2 DEF SessionOK, new
<1>6. Len(s.pages) = 1
  BY <1>2
<1> QED BY <1>4, <1>5, <1>6 DEF after, page, missed

LEMMA MobileSessions ==
    ASSUME NEW a \in Attempt, NEW s, SessionOK(a, s), s.pc = "mobile"
    PROVE  LET opened == Opened(s, "Mobile")
           IN  /\ SessionOK(a, WithPage([opened EXCEPT !.pc = "mobilePage"],
                                        Evidence(a, "Mobile", 0)))
               /\ SessionOK(a, WithBlock([opened EXCEPT !.pc = "closeProxy", !.status = "Partial"],
                                         Missed("Mobile", 0)))
<1> DEFINE D(n) == Evidence(a, "Desktop", n)
           M(n) == Evidence(a, "Mobile", n)
           opened == Opened(s, "Mobile")
           missed == Missed("Mobile", 0)
           skipped == Missed("Desktop", 1)
<1>1. /\ D(0) \in Pages /\ D(1) \in Pages /\ M(0) \in Pages
      /\ D(0).path = Path("Desktop", 0)
      /\ missed \in Blocks /\ "Mobile" \in Viewports
  <2>1. {"Desktop", "Mobile"} \subseteq Viewports /\ {0, 1} \subseteq 0 .. 3
    BY DEF Viewports
  <2> QED BY <2>1, PathFacts
<1>2. /\ s \in Session /\ OpenOK(s)
      /\ \/ s.pages = <<D(0), D(1)>>
         \/ s.pages = <<D(0)>> /\ skipped \in s.blocks
  <2>1. s \in Session /\ OpenOK(s) /\ SeenOK(a, s)
    BY DEF SessionOK
  <2>2. \/ s.pages = <<D(0), D(1)>>
        \/ s.pages = <<D(0)>> /\ skipped \in s.blocks
    BY <2>1, Zenon DEF SeenOK
  <2> QED BY <2>1, <2>2
<1> HIDE DEF D, M
<1>3. SessionOK(a, WithPage([opened EXCEPT !.pc = "mobilePage"], M(0)))
  <2> DEFINE t == [opened EXCEPT !.pc = "mobilePage"]
             new == WithPage(t, M(0))
  <2>1. /\ t \in Session /\ t.pc = "mobilePage" /\ t.pages = s.pages /\ t.blocks = s.blocks
        /\ t.proxy = s.proxy /\ t.lookups = s.lookups /\ t.tunnels = s.tunnels
    BY <1>1, <1>2 DEF Opened, Session, Browsing
  <2> HIDE DEF t
  <2>2. /\ new \in Session /\ new.pc = "mobilePage" /\ new.pages = Append(s.pages, M(0))
        /\ new.blocks = s.blocks
        /\ new.proxy = s.proxy /\ new.lookups = s.lookups /\ new.tunnels = s.tunnels
    BY <1>1, <2>1, WithFacts
  <2> HIDE DEF new
  <2>3. /\ Append(<<D(0), D(1)>>, M(0)) = <<D(0), D(1), M(0)>>
        /\ Append(<<D(0)>>, M(0)) = <<D(0), M(0)>>
    BY <1>1, AppendFacts, Zenon
  <2>4. \/ new.pages = <<D(0), D(1), M(0)>>
        \/ new.pages = <<D(0), M(0)>> /\ skipped \in new.blocks
    BY <1>2, <2>2, <2>3
  <2>5. OpenOK(new) /\ SeenOK(a, new)
    BY <1>2, <2>2, <2>4, BrowsingIsOpen DEF SeenOK, D, M
  <2> QED BY <2>2, <2>5 DEF SessionOK, new, t
<1>4. SessionOK(a, WithBlock([opened EXCEPT !.pc = "closeProxy", !.status = "Partial"], missed))
  <2> DEFINE t == [opened EXCEPT !.pc = "closeProxy", !.status = "Partial"]
             new == WithBlock(t, missed)
  <2>1. /\ t \in Session /\ t.pc = "closeProxy" /\ t.status = "Partial"
        /\ t.pages = s.pages /\ t.blocks = s.blocks
        /\ t.proxy = s.proxy /\ t.lookups = s.lookups /\ t.tunnels = s.tunnels
    BY <1>1, <1>2 DEF Opened, Session, Browsing, Verdict
  <2> HIDE DEF t
  <2>2. /\ new \in Session /\ new.pc = "closeProxy" /\ new.status = "Partial"
        /\ new.pages = s.pages /\ new.blocks = s.blocks \cup {missed}
        /\ new.proxy = s.proxy /\ new.lookups = s.lookups /\ new.tunnels = s.tunnels
    BY <1>1, <2>1, WithFacts
  <2> HIDE DEF new
  <2>3. Accounted("Mobile", Shown(new.pages), new.blocks)
    BY <2>2 DEF Accounted
  <2>4. Accounted("Desktop", Shown(new.pages), new.blocks)
    <3>1. CASE s.pages = <<D(0), D(1)>>
      <4>1. Accounted("Desktop", Shown(<<D(0), D(1)>>), new.blocks)
        <5>1. 1 \in 1 .. 3
          OBVIOUS
        <5> QED BY <5>1, PagesAreAccounted DEF D
      <4> QED BY <2>2, <3>1, <4>1
    <3>2. CASE skipped \in s.blocks
      BY <2>2, <3>2 DEF Accounted
    <3> QED BY <1>2, <3>1, <3>2
  <2>5. \E p \in Shown(new.pages) : p.path = Path("Desktop", 0)
    <3>1. Shown(<<D(0), D(1)>>) = {D(0), D(1)} /\ Shown(<<D(0)>>) = {D(0)}
      BY ShownFacts
    <3>2. D(0) \in Shown(new.pages)
      BY <1>2, <2>2, <3>1
    <3> QED BY <1>1, <3>2
  <2>6. Explained("Partial", Shown(new.pages), new.blocks)
    BY <2>3, <2>4, <2>5, PartialIsExplained
  <2>7. OpenOK(new) /\ SeenOK(a, new)
    BY <1>2, <2>2, <2>6, BrowsingIsOpen DEF SeenOK, Verdict
  <2> QED BY <2>2, <2>7 DEF SessionOK, new, t
<1> QED BY <1>3, <1>4 DEF D, M

LEMMA MobilePageSessions ==
    ASSUME NEW a \in Attempt, NEW s, SessionOK(a, s), s.pc = "mobilePage"
    PROVE  LET after == [s EXCEPT !.pc = "closeProxy", !.contexts = {}]
               n == Len(s.pages)
           IN  /\ n \in {2, 3}
               /\ SessionOK(a, WithPage([after EXCEPT !.status = Judged(n + 1, after.blocks)],
                                        Evidence(a, "Mobile", n)))
               /\ SessionOK(a, WithBlock([after EXCEPT !.status = "Partial"],
                                         Missed("Mobile", n)))
<1> DEFINE D(i) == Evidence(a, "Desktop", i)
           M(i) == Evidence(a, "Mobile", i)
           after == [s EXCEPT !.pc = "closeProxy", !.contexts = {}]
           n == Len(s.pages)
           skipped == Missed("Desktop", 1)
<1>1. /\ \A i \in 0 .. 3 : /\ D(i) \in Pages /\ M(i) \in Pages
                           /\ Missed("Mobile", i) \in Blocks
      /\ D(0).path = Path("Desktop", 0)
  <2>1. {"Desktop", "Mobile"} \subseteq Viewports /\ 0 \in 0 .. 3
    BY DEF Viewports
  <2> QED BY <2>1, PathFacts
<1>2. /\ s \in Session /\ OpenOK(s)
      /\ \/ s.pages = <<D(0), D(1), M(0)>>
         \/ s.pages = <<D(0), M(0)>> /\ skipped \in s.blocks
  <2>1. s \in Session /\ OpenOK(s) /\ SeenOK(a, s)
    BY DEF SessionOK
  <2>2. \/ s.pages = <<D(0), D(1), M(0)>>
        \/ s.pages = <<D(0), M(0)>> /\ skipped \in s.blocks
    BY <2>1, Zenon DEF SeenOK
  <2> QED BY <2>1, <2>2
<1> HIDE DEF D, M
<1>3. /\ n \in {2, 3} /\ n \in 1 .. 3 /\ n \in 0 .. 3
      /\ s.pages = <<D(0), D(1), M(0)>> => n = 3
      /\ s.pages = <<D(0), M(0)>> => n = 2
  <2>1. s.pages = <<D(0), D(1), M(0)>> => n = 3
    OBVIOUS
  <2>2. s.pages = <<D(0), M(0)>> => n = 2
    OBVIOUS
  <2> HIDE DEF n
  <2> QED BY <1>2, <2>1, <2>2
<1>4. /\ after \in Session /\ after.pc = "closeProxy" /\ after.pages = s.pages
      /\ after.blocks = s.blocks
      /\ after.proxy = s.proxy /\ after.lookups = s.lookups /\ after.tunnels = s.tunnels
  BY <1>2 DEF Session, Browsing
<1> HIDE DEF after, n
<1>5. SessionOK(a, WithPage([after EXCEPT !.status = Judged(n + 1, after.blocks)], M(n)))
  <2> DEFINE verdict == Judged(n + 1, after.blocks)
             t == [after EXCEPT !.status = verdict]
             new == WithPage(t, M(n))
  <2>1. verdict \in {"Complete", "Partial"} /\ (verdict = "Complete" => n = 3 /\ s.blocks = {})
    BY <1>3, <1>4 DEF Judged
  <2> HIDE DEF verdict
  <2>2. /\ t \in Session /\ t.pc = "closeProxy" /\ t.status = verdict
        /\ t.pages = s.pages /\ t.blocks = s.blocks
        /\ t.proxy = s.proxy /\ t.lookups = s.lookups /\ t.tunnels = s.tunnels
    BY <1>4, <2>1 DEF Session, Verdict
  <2> HIDE DEF t
  <2>3. /\ new \in Session /\ new.pc = "closeProxy" /\ new.status = verdict
        /\ new.pages = Append(s.pages, M(n)) /\ new.blocks = s.blocks
        /\ new.proxy = s.proxy /\ new.lookups = s.lookups /\ new.tunnels = s.tunnels
    <3>1. M(n) \in Pages
      BY <1>1, <1>3
    <3>2. \E b : b \in Blocks
      BY BlockFacts
    <3> QED BY <2>2, <3>1, <3>2, WithFacts
  <2> HIDE DEF new
  <2>4. \/ new.pages = <<D(0), D(1), M(0), M(n)>> /\ n = 3
        \/ new.pages = <<D(0), M(0), M(n)>> /\ n = 2 /\ skipped \in s.blocks
    <3>1. D(0) \in Pages /\ D(1) \in Pages /\ M(0) \in Pages /\ M(n) \in Pages
      BY <1>1, <1>3
    <3>2. Append(<<D(0), D(1), M(0)>>, M(n)) = <<D(0), D(1), M(0), M(n)>>
      BY <3>1, AppendFour, Zenon
    <3>3. Append(<<D(0), M(0)>>, M(n)) = <<D(0), M(0), M(n)>>
      BY <3>1, AppendFacts, ZenonT(30)
    <3> QED BY <1>2, <1>3, <2>3, <3>2, <3>3
  <2>5. Explained(verdict, Shown(new.pages), new.blocks)
    <3>1. CASE verdict = "Complete"
      <4>1. new.pages = <<D(0), D(1), M(0), M(3)>>
        BY <2>1, <2>4, <3>1
      <4>2. Explained("Complete", Shown(<<D(0), D(1), M(0), M(3)>>), new.blocks)
        BY CompleteIsExplained DEF D, M
      <4> QED BY <3>1, <4>1, <4>2
    <3>2. CASE verdict = "Partial"
      <4>1. /\ Accounted("Desktop", Shown(<<D(0), D(1), M(0), M(n)>>), new.blocks)
            /\ Accounted("Mobile", Shown(<<D(0), M(0), M(n)>>), new.blocks)
            /\ Accounted("Mobile", Shown(<<D(0), D(1), M(0), M(n)>>), new.blocks)
        BY <1>3, PagesAreAccounted DEF D, M
      <4>2. skipped \in new.blocks => Accounted("Desktop", Shown(new.pages), new.blocks)
        BY DEF Accounted
      <4>3. /\ Accounted("Desktop", Shown(new.pages), new.blocks)
            /\ Accounted("Mobile", Shown(new.pages), new.blocks)
        BY <2>3, <2>4, <4>1, <4>2
      <4>4. \E p \in Shown(new.pages) : p.path = Path("Desktop", 0)
        <5>1. /\ Shown(<<D(0), D(1), M(0), M(n)>>) = {D(0), D(1), M(0), M(n)}
              /\ Shown(<<D(0), M(0), M(n)>>) = {D(0), M(0), M(n)}
          BY ShownFacts
        <5>2. D(0) \in Shown(new.pages)
          BY <2>4, <5>1
        <5> QED BY <1>1, <5>2
      <4> QED BY <3>2, <4>3, <4>4, PartialIsExplained
    <3> QED BY <2>1, <3>1, <3>2
  <2>6. OpenOK(new) /\ SeenOK(a, new)
    BY <1>2, <2>1, <2>3, <2>5, BrowsingIsOpen DEF SeenOK, Verdict
  <2> QED BY <2>3, <2>6 DEF SessionOK, new, t, verdict
<1>6. SessionOK(a, WithBlock([after EXCEPT !.status = "Partial"], Missed("Mobile", n)))
  <2> DEFINE missed == Missed("Mobile", n)
             t == [after EXCEPT !.status = "Partial"]
             new == WithBlock(t, missed)
  <2>1. missed \in Blocks /\ D(0) \in Pages
    BY <1>1, <1>3
  <2>2. /\ t \in Session /\ t.pc = "closeProxy" /\ t.status = "Partial"
        /\ t.pages = s.pages /\ t.blocks = s.blocks
        /\ t.proxy = s.proxy /\ t.lookups = s.lookups /\ t.tunnels = s.tunnels
    BY <1>4 DEF Session, Verdict
  <2> HIDE DEF t
  <2>3. /\ new \in Session /\ new.pc = "closeProxy" /\ new.status = "Partial"
        /\ new.pages = s.pages /\ new.blocks = s.blocks \cup {missed}
        /\ new.proxy = s.proxy /\ new.lookups = s.lookups /\ new.tunnels = s.tunnels
    BY <2>1, <2>2, WithFacts
  <2> HIDE DEF new
  <2>4. Accounted("Mobile", Shown(new.pages), new.blocks)
    BY <1>3, <2>3 DEF Accounted
  <2>5. Accounted("Desktop", Shown(new.pages), new.blocks)
    <3>1. CASE s.pages = <<D(0), D(1), M(0)>>
      <4>1. Accounted("Desktop", Shown(<<D(0), D(1), M(0)>>), new.blocks)
        BY <1>3, PagesAreAccounted DEF D, M
      <4> QED BY <2>3, <3>1, <4>1
    <3>2. CASE skipped \in s.blocks
      BY <2>3, <3>2 DEF Accounted
    <3> QED BY <1>2, <3>1, <3>2
  <2>6. \E p \in Shown(new.pages) : p.path = Path("Desktop", 0)
    <3>1. /\ Shown(<<D(0), D(1), M(0)>>) = {D(0), D(1), M(0)}
          /\ Shown(<<D(0), M(0)>>) = {D(0), M(0)}
      BY ShownFacts
    <3>2. D(0) \in Shown(new.pages)
      BY <1>2, <2>3, <3>1
    <3> QED BY <1>1, <3>2
  <2>7. Explained("Partial", Shown(new.pages), new.blocks)
    BY <2>4, <2>5, <2>6, PartialIsExplained
  <2>8. OpenOK(new) /\ SeenOK(a, new)
    BY <1>2, <2>3, <2>7, BrowsingIsOpen DEF SeenOK, Verdict
  <2> QED BY <2>3, <2>8 DEF SessionOK, new, t, missed
<1>7. n \in {2, 3}
  BY <1>3
<1> QED BY <1>5, <1>6, <1>7 DEF after, n, M

-----------------------------------------------------------------------------
(* Events of a page, and the end of a browser.                             *)

LEMMA EventSessions ==
    ASSUME NEW a \in Attempt, NEW s, SessionOK(a, s), s.pc \in Browsing \ {"desktop"}
    PROVE  SessionOK(a, WithBlock(s, Block("page-event", "event")))
<1> DEFINE event == Block("page-event", "event")
           new == WithBlock(s, event)
<1>1. event \in Blocks /\ s \in Session /\ OpenOK(s) /\ SeenOK(a, s)
  BY BlockFacts DEF SessionOK
<1>2. \E p : p \in Pages
  <2>1. "Desktop" \in Viewports /\ 0 \in 0 .. 3
    BY DEF Viewports
  <2> QED BY <2>1, PathFacts
<1> HIDE DEF event
<1>3. /\ new \in Session /\ new.pc = s.pc /\ new.browser = s.browser
      /\ new.proxy = s.proxy /\ new.contexts = s.contexts /\ new.lookups = s.lookups
      /\ new.tunnels = s.tunnels /\ new.pages = s.pages /\ new.status = s.status
      /\ new.blocks = s.blocks \cup {event}
  BY <1>1, <1>2, WithFacts
<1> HIDE DEF new
<1>4. OpenOK(new)
  BY <1>1, <1>3 DEF OpenOK
<1>5. Explained(s.status, Shown(s.pages), s.blocks)
        => Explained(new.status, Shown(new.pages), new.blocks)
  <2>1. ASSUME Explained(s.status, Shown(s.pages), s.blocks)
        PROVE  Explained(s.status, Shown(s.pages), s.blocks \cup {event})
    BY <2>1, ExplanationsLast
  <2> QED BY <1>3, <2>1
<1>6. s.pc \notin {"idle", "validate", "launch", "proxy", "desktop"}
  BY DEF Browsing
<1>7. SeenOK(a, new)
  BY <1>1, <1>3, <1>5, <1>6, Zenon DEF SeenOK
<1> QED BY <1>3, <1>4, <1>7 DEF SessionOK, new, event

\* The browser goes with its contexts, and a browser without a proxy at once.
LEMMA ShutSessions ==
    ASSUME NEW a \in Attempt, NEW s, SessionOK(a, s)
    PROVE  /\ s.pc = "proxy" =>
                SessionOK(a, Over([s EXCEPT !.browser = FALSE], "failed"))
           /\ s.pc = "launch" => SessionOK(a, Over(s, "failed"))
           /\ s.pc = "validate" => SessionOK(a, Over(s, "dropped"))
           /\ s.pc \in {"commit", "checkpoint"} => SessionOK(a, Over(s, "dropped"))
           /\ s.pc = "commit" => SessionOK(a, Over(s, "checkpoint"))
           /\ s.pc = "checkpoint" => SessionOK(a, Over(s, "done"))
           /\ s.pc = "closeBrowser" =>
                LET shut == [s EXCEPT !.browser = FALSE, !.contexts = {}] IN
                /\ \A pc \in {"failed", "dropped"} : SessionOK(a, Over(shut, pc))
                /\ s.status # "failed" => SessionOK(a, [shut EXCEPT !.pc = "commit"])
<1>1. s \in Session /\ OpenOK(s) /\ SeenOK(a, s)
  BY DEF SessionOK
<1>2. CASE s.pc = "proxy"
  <2> DEFINE t == [s EXCEPT !.browser = FALSE]
  <2>1. /\ t \in Session /\ t.pc = s.pc /\ ~t.browser /\ t.proxy = s.proxy
        /\ t.contexts = s.contexts /\ t.lookups = s.lookups /\ t.tunnels = s.tunnels
        /\ t.pages = s.pages /\ t.blocks = s.blocks /\ t.status = s.status
    BY <1>1 DEF Session
  <2> HIDE DEF t
  <2>2. SessionOK(a, t) /\ ~t.proxy /\ t.contexts = {}
    BY <1>1, <1>2, <2>1 DEF SessionOK, OpenOK, SeenOK
  <2>3. SessionOK(a, Over(t, "failed"))
    BY <2>1, <2>2, OverSessions
  <2> QED BY <1>2, <2>3 DEF t
<1>3. CASE s.pc = "launch"
  <2>1. ~s.browser /\ ~s.proxy /\ s.contexts = {}
    BY <1>1, <1>3 DEF OpenOK
  <2> QED BY <1>3, <2>1, OverSessions
<1>4. CASE s.pc = "validate"
  <2>1. ~s.browser /\ ~s.proxy /\ s.contexts = {}
    BY <1>1, <1>4 DEF OpenOK
  <2> QED BY <1>4, <2>1, OverSessions
<1>5. CASE s.pc \in {"commit", "checkpoint"}
  <2>1. ~s.browser /\ ~s.proxy /\ s.contexts = {}
    BY <1>1, <1>5 DEF OpenOK, Closed
  <2>2. s.status \in Verdict
    BY <1>1, <1>5 DEF SeenOK
  <2> QED BY <1>5, <2>1, <2>2, OverSessions
<1>6. CASE s.pc = "closeBrowser"
  <2> DEFINE shut == [s EXCEPT !.browser = FALSE, !.contexts = {}]
             new == [shut EXCEPT !.pc = "commit"]
  <2>1. /\ shut \in Session /\ shut.pc = s.pc /\ ~shut.browser /\ shut.proxy = s.proxy
        /\ shut.contexts = {} /\ shut.lookups = s.lookups /\ shut.tunnels = s.tunnels
        /\ shut.pages = s.pages /\ shut.blocks = s.blocks /\ shut.status = s.status
    BY <1>1 DEF Session
  <2> HIDE DEF shut
  <2>2. SessionOK(a, shut) /\ ~shut.proxy
    BY <1>1, <1>6, <2>1 DEF SessionOK, OpenOK, SeenOK, Closed
  <2>3. \A pc \in {"failed", "dropped"} : SessionOK(a, Over(shut, pc))
    BY <2>1, <2>2, OverSessions
  <2>4. ASSUME s.status # "failed" PROVE SessionOK(a, new)
    <3>1. /\ new \in Session /\ new.pc = "commit" /\ ~new.browser /\ new.proxy = s.proxy
          /\ new.contexts = {} /\ new.lookups = s.lookups /\ new.tunnels = s.tunnels
          /\ new.pages = s.pages /\ new.blocks = s.blocks /\ new.status = s.status
      BY <2>1 DEF Session, Closed
    <3> HIDE DEF new
    <3>2. OpenOK(new)
      BY <1>1, <1>6, <3>1 DEF OpenOK
    <3>3. s.status \in Verdict /\ Explained(s.status, Shown(s.pages), s.blocks)
      BY <1>1, <1>6, <2>4 DEF SeenOK
    <3>4. SeenOK(a, new)
      BY <3>1, <3>3 DEF SeenOK
    <3> QED BY <3>1, <3>2, <3>4 DEF SessionOK
  <2> QED BY <1>6, <2>3, <2>4 DEF shut
<1> QED BY <1>2, <1>3, <1>4, <1>5, <1>6

-----------------------------------------------------------------------------
(* Steps.  One is quiet, when it takes no picture, or captures a page.     *)

Visits == {"desktop", "desktopPage", "mobile", "mobilePage"}
Ended == {"checkpoint", "done", "dropped"}

\* An attempt goes on and shows no new page.
Quiet(a) ==
    \E s : /\ SessionOK(a, s) /\ Goes(a, s)
           /\ work[a].pc = "idle" => s.pc = "idle"
           /\ work[a].pc \in Ended => s.pc \in Ended
           /\ Shown(s.pages) \subseteq Shown(work[a].pages)

\* An attempt puts the picture of a page where none of its pages is.
Captured(a) ==
    \E s : \E v \in Viewports, i \in 0 .. 3 :
        /\ SessionOK(a, s) /\ Goes(a, s)
        /\ work[a].pc \in Visits
        /\ s.pages = Append(work[a].pages, Evidence(a, v, i))
        /\ files' = [files EXCEPT ![Path(v, i)] = Picture(a, v, i)]
        /\ \A p \in Shown(work[a].pages) : p.path # Path(v, i)

LEMMA GoesFacts ==
    ASSUME work \in [Attempt -> Session], NEW a \in Attempt, NEW s \in Session, Goes(a, s)
    PROVE  /\ work' \in [Attempt -> Session] /\ work'[a] = s
           /\ \A b \in Attempt \ {a} : work'[b] = work[b]
BY DEF Goes

LEMMA MovedSessions ==
    ASSUME IInv, NEW a \in Attempt, Quiet(a) \/ Captured(a)
    PROVE  work' \in [Attempt -> Session] /\ SessionsOK'
<1>1. PICK s : SessionOK(a, s) /\ Goes(a, s)
  BY DEF Quiet, Captured
<1>2. /\ work' \in [Attempt -> Session] /\ work'[a] = s
      /\ \A b \in Attempt \ {a} : work'[b] = work[b]
  BY <1>1, GoesFacts DEF IInv, TypeOK, SessionOK
<1>3. \A b \in Attempt : OpenOK(work'[b]) /\ SeenOK(b, work'[b])
  BY <1>1, <1>2, Zenon DEF IInv, SessionsOK, SessionOK
<1> QED BY <1>2, <1>3 DEF SessionsOK

LEMMA SessionsAreOK ==
    ASSUME IInv, NEW a \in Attempt
    PROVE  SessionOK(a, work[a])
BY DEF IInv, TypeOK, SessionsOK, SessionOK

\* Steps before the pages and after them.
LEMMA QuietSteps ==
    ASSUME IInv, NEW a \in Attempt,
           \/ Launch(a) \/ StartProxy(a) \/ BrowserFails(a) \/ CloseProxy(a) \/ ProxyClosed(a)
           \/ AskTunnel(a) \/ TunnelEnds(a)
    PROVE  Quiet(a)
<1> DEFINE s == work[a]
<1>1. SessionOK(a, s) /\ s \in Session
  BY SessionsAreOK DEF SessionOK
<1>2. ASSUME NEW t, SessionOK(a, t), Goes(a, t), s.pc # "idle",
             s.pc \in Ended => t.pc \in Ended, t.pages \in {s.pages, <<>>}
      PROVE  Quiet(a)
  <2>1. Shown(t.pages) \subseteq Shown(work[a].pages)
    BY <1>2, ShownFacts
  <2> QED BY <1>2, <2>1 DEF Quiet
<1> HIDE DEF s
<1>3. CASE Launch(a)
  <2>1. CASE Goes(a, [s EXCEPT !.pc = "proxy", !.browser = TRUE])
    <3> DEFINE t == [s EXCEPT !.pc = "proxy", !.browser = TRUE]
    <3>1. s.pc = "launch" /\ t.pages = s.pages
      BY <1>1, <1>3 DEF Launch, s, Session
    <3>2. SessionOK(a, t)
      BY <1>1, <3>1, StartingSessions
    <3> QED BY <1>2, <2>1, <3>1, <3>2 DEF Ended
  <2>2. CASE FailsWith(a, s)
    <3> DEFINE t == Over(s, "failed")
    <3>1. s.pc = "launch" /\ t.pages = <<>> /\ Goes(a, t)
      BY <1>1, <1>3, <2>2 DEF Launch, s, Session, Over, FailsWith
    <3>2. SessionOK(a, t)
      BY <1>1, <3>1, ShutSessions
    <3> QED BY <1>2, <3>1, <3>2 DEF Ended
  <2> QED BY <1>3, <2>1, <2>2 DEF Launch, s
<1>4. CASE StartProxy(a)
  <2>1. CASE Goes(a, [s EXCEPT !.pc = "desktop", !.proxy = TRUE])
    <3> DEFINE t == [s EXCEPT !.pc = "desktop", !.proxy = TRUE]
    <3>1. s.pc = "proxy" /\ t.pages = s.pages
      BY <1>1, <1>4 DEF StartProxy, s, Session
    <3>2. SessionOK(a, t)
      BY <1>1, <3>1, StartingSessions
    <3> QED BY <1>2, <2>1, <3>1, <3>2 DEF Ended
  <2>2. CASE FailsWith(a, [s EXCEPT !.browser = FALSE])
    <3> DEFINE t == Over([s EXCEPT !.browser = FALSE], "failed")
    <3>1. s.pc = "proxy" /\ t.pages = <<>> /\ Goes(a, t)
      BY <1>1, <1>4, <2>2 DEF StartProxy, s, Session, Over, FailsWith
    <3>2. SessionOK(a, t)
      BY <1>1, <3>1, ShutSessions
    <3> QED BY <1>2, <3>1, <3>2 DEF Ended
  <2> QED BY <1>4, <2>1, <2>2 DEF StartProxy, s
<1>5. CASE BrowserFails(a)
  <2> DEFINE t == [s EXCEPT !.pc = "closeProxy", !.status = "failed"]
  <2>1. s.pc \in Visits /\ t.pages = s.pages /\ Goes(a, t)
    BY <1>1, <1>5 DEF BrowserFails, s, Session, Visits
  <2>2. SessionOK(a, t)
    BY <1>1, <2>1, ServingSessions DEF Visits
  <2> QED BY <1>2, <2>1, <2>2 DEF Ended, Visits
<1>6. CASE CloseProxy(a)
  <2> DEFINE t == [s EXCEPT !.pc = "closingProxy", !.tunnels = 0]
  <2>1. s.pc = "closeProxy" /\ t.pages = s.pages /\ Goes(a, t)
    BY <1>1, <1>6 DEF CloseProxy, s, Session
  <2>2. SessionOK(a, t)
    BY <1>1, <2>1, ServingSessions
  <2> QED BY <1>2, <2>1, <2>2 DEF Ended
<1>7. CASE ProxyClosed(a)
  <2> DEFINE t == [s EXCEPT !.pc = "closeBrowser", !.proxy = FALSE]
  <2>1. /\ s.pc = "closingProxy" /\ s.lookups = 0 /\ s.tunnels = 0
        /\ t.pages = s.pages /\ Goes(a, t)
    BY <1>1, <1>7 DEF ProxyClosed, s, Session
  <2>2. SessionOK(a, t)
    BY <1>1, <2>1, ServingSessions
  <2> QED BY <1>2, <2>1, <2>2 DEF Ended
<1>8. CASE AskTunnel(a)
  <2> DEFINE t == [s EXCEPT !.lookups = @ + 1]
  <2>1. s.proxy /\ t.pages = s.pages /\ t.pc = s.pc /\ Goes(a, t)
    BY <1>1, <1>8 DEF AskTunnel, s, Session
  <2>2. SessionOK(a, t)
    BY <1>1, <2>1, ServingSessions
  <2>3. s.pc # "idle"
    BY <1>1, <2>1 DEF SessionOK, OpenOK, Closed
  <2> QED BY <1>2, <2>1, <2>2, <2>3
<1>9. CASE TunnelEnds(a)
  <2> DEFINE t == [s EXCEPT !.tunnels = @ - 1]
  <2>1. s.tunnels > 0 /\ t.pages = s.pages /\ t.pc = s.pc /\ Goes(a, t)
    BY <1>1, <1>9 DEF TunnelEnds, s, Session
  <2>2. SessionOK(a, t)
    BY <1>1, <2>1, ServingSessions
  <2>3. s.pc # "idle"
    BY <1>1, <2>1 DEF SessionOK, OpenOK, Closed
  <2> QED BY <1>2, <2>1, <2>2, <2>3
<1> QED BY <1>3, <1>4, <1>5, <1>6, <1>7, <1>8, <1>9

LEMMA OtherQuietSteps ==
    ASSUME IInv, NEW a \in Attempt,
           \/ Validate(a) \/ TunnelResolved(a) \/ PageEvent(a) \/ CloseBrowser(a)
           \/ LoseLease(a) \/ Commit(a) \/ Checkpoint(a)
    PROVE  Quiet(a)
<1> DEFINE s == work[a]
<1>1. SessionOK(a, s) /\ s \in Session /\ website \in Websites
  BY SessionsAreOK DEF SessionOK, IInv, TypeOK
<1>2. ASSUME NEW t, SessionOK(a, t), Goes(a, t), s.pc = "idle" => t.pc = "idle",
             s.pc \in Ended => t.pc \in Ended, t.pages \in {s.pages, <<>>}
      PROVE  Quiet(a)
  <2>1. Shown(t.pages) \subseteq Shown(work[a].pages)
    BY <1>2, ShownFacts
  <2> QED BY <1>2, <2>1 DEF Quiet
<1>3. \A pc : Over(s, pc).pages = <<>> /\ Over(s, pc).pc = pc
  BY <1>1 DEF Over, Session
<1> HIDE DEF s
<1>4. CASE Validate(a)
  <2>1. PICK answer \in Answers :
          LET code == Refusal(website, answer) IN
          Goes(a, IF code = "" THEN [s EXCEPT !.pc = "launch"]
                  ELSE IF owner # a THEN Over(s, "dropped")
                  ELSE [s EXCEPT !.pc = "commit", !.status = "Blocked",
                                 !.blocks = {Block(code, "site")}])
    BY <1>4 DEF Validate, s
  <2> DEFINE code == Refusal(website, answer)
  <2>2. s.pc = "validate"
    BY <1>4 DEF Validate, s
  <2>3. CASE code = ""
    <3> DEFINE t == [s EXCEPT !.pc = "launch"]
    <3>1. t.pages = s.pages /\ Goes(a, t)
      BY <1>1, <2>1, <2>3 DEF Session
    <3>2. SessionOK(a, t)
      BY <1>1, <2>2, StartingSessions
    <3> QED BY <1>2, <2>2, <3>1, <3>2 DEF Ended
  <2>4. CASE code # "" /\ owner # a
    <3> DEFINE t == Over(s, "dropped")
    <3>1. Goes(a, t)
      BY <2>1, <2>4
    <3>2. SessionOK(a, t)
      BY <1>1, <2>2, ShutSessions
    <3> QED BY <1>2, <1>3, <2>2, <3>1, <3>2 DEF Ended
  <2>5. CASE code # "" /\ owner = a
    <3> DEFINE b == Block(code, "site")
               t == [s EXCEPT !.pc = "commit", !.status = "Blocked", !.blocks = {b}]
    <3>1. Goes(a, t) /\ t.pages = s.pages
      BY <1>1, <2>1, <2>5 DEF Session
    <3>2. website # "none" => b \in Blocks
      BY <1>1, <2>5, BlockFacts
    <3>3. website = "none" => b \in Blocks
      BY <2>5 DEF Refusal, Block, Blocks, Codes
    <3>4. SessionOK(a, t)
      BY <1>1, <2>2, <3>2, <3>3, StartingSessions
    <3> QED BY <1>2, <2>2, <3>1, <3>4 DEF Ended
  <2> QED BY <2>3, <2>4, <2>5
<1>5. CASE TunnelResolved(a)
  <2>1. PICK answer \in Answers :
          Goes(a, [s EXCEPT !.lookups = @ - 1,
                     !.tunnels = IF Refusal("host", answer) = "" THEN @ + 1 ELSE @])
    BY <1>5 DEF TunnelResolved, s
  <2> DEFINE n == IF Refusal("host", answer) = "" THEN 1 ELSE 0
             t == [s EXCEPT !.lookups = @ - 1, !.tunnels = @ + n]
  <2>2. s.lookups > 0 /\ s.tunnels \in Nat /\ n \in {0, 1}
    BY <1>1, <1>5 DEF TunnelResolved, s, Session
  <2>3. Goes(a, t)
    <3>1. CASE Refusal("host", answer) = ""
      <4>1. n = 1
        BY <3>1
      <4> QED BY <2>1, <3>1, <4>1
    <3>2. CASE Refusal("host", answer) # ""
      <4>1. n = 0
        BY <3>2
      <4> HIDE DEF n
      <4>2. s.tunnels + n = s.tunnels
        BY <2>2, <4>1
      <4> QED BY <2>1, <3>2, <4>2
    <3> QED BY <3>1, <3>2
  <2> HIDE DEF n
  <2>4. t.pages = s.pages /\ t.pc = s.pc
    BY <1>1 DEF Session
  <2>5. SessionOK(a, t)
    BY <1>1, <2>2, ServingSessions
  <2> QED BY <1>2, <2>3, <2>4, <2>5
<1>6. CASE PageEvent(a)
  <2> DEFINE t == WithBlock(s, Block("page-event", "event"))
  <2>1. /\ s.pc \in Browsing \ {"desktop"} /\ Goes(a, t)
        /\ t.pages = s.pages /\ t.pc = s.pc
    BY <1>1, <1>6 DEF PageEvent, s, WithBlock, Session
  <2>2. SessionOK(a, t)
    BY <1>1, <2>1, EventSessions
  <2> QED BY <1>2, <2>1, <2>2
<1>7. CASE CloseBrowser(a)
  <2> DEFINE shut == [s EXCEPT !.browser = FALSE, !.contexts = {}]
  <2>1. s.pc = "closeBrowser" /\ shut.status = s.status /\ shut.pages = s.pages
    BY <1>1, <1>7 DEF CloseBrowser, s, Session
  <2>2. \A pc : Over(shut, pc).pages = <<>>
    BY <1>1 DEF Over, Session
  <2>3. [shut EXCEPT !.pc = "commit"].pages = s.pages
    BY <1>1 DEF Session
  <2>4. \/ Goes(a, Over(shut, "failed")) \/ Goes(a, Over(shut, "dropped"))
        \/ s.status # "failed" /\ Goes(a, [shut EXCEPT !.pc = "commit"])
    BY <1>7, <2>1 DEF CloseBrowser, s, FailsWith
  <2>5. /\ \A pc \in {"failed", "dropped"} : SessionOK(a, Over(shut, pc))
        /\ s.status # "failed" => SessionOK(a, [shut EXCEPT !.pc = "commit"])
    BY <1>1, <2>1, ShutSessions
  <2> HIDE DEF shut
  <2>6. \E t : SessionOK(a, t) /\ Goes(a, t) /\ t.pages \in {s.pages, <<>>}
    BY <2>2, <2>3, <2>4, <2>5
  <2> QED BY <1>2, <2>1, <2>6 DEF Ended
<1>8. CASE LoseLease(a)
  <2>1. CASE s.pc \in {"commit", "checkpoint"}
    <3> DEFINE t == Over(s, "dropped")
    <3>1. Goes(a, t)
      BY <1>8, <2>1 DEF LoseLease, s
    <3>2. SessionOK(a, t)
      BY <1>1, <2>1, ShutSessions
    <3> QED BY <1>2, <1>3, <2>1, <3>1, <3>2 DEF Ended
  <2>2. CASE s.pc \notin {"commit", "checkpoint"}
    <3>1. Goes(a, s)
      BY <1>8, <2>2 DEF LoseLease, s
    <3> QED BY <1>1, <1>2, <3>1
  <2> QED BY <2>1, <2>2
<1>9. CASE Commit(a)
  <2> DEFINE t == Over(s, "checkpoint")
  <2>1. s.pc = "commit" /\ Goes(a, t)
    BY <1>9 DEF Commit, s
  <2>2. SessionOK(a, t)
    BY <1>1, <2>1, ShutSessions
  <2> QED BY <1>2, <1>3, <2>1, <2>2 DEF Ended
<1>10. CASE Checkpoint(a)
  <2> DEFINE t == Over(s, "done")
  <2>1. s.pc = "checkpoint" /\ Goes(a, t)
    BY <1>10 DEF Checkpoint, s
  <2>2. SessionOK(a, t)
    BY <1>1, <2>1, ShutSessions
  <2> QED BY <1>2, <1>3, <2>1, <2>2 DEF Ended
<1> QED BY <1>4, <1>5, <1>6, <1>7, <1>8, <1>9, <1>10

\* A visit takes the picture of a new page, or none.
LEMMA VisitSteps ==
    ASSUME IInv, NEW a \in Attempt,
           VisitDesktop(a) \/ VisitDesktopPage(a) \/ VisitMobile(a) \/ VisitMobilePage(a)
    PROVE  Captured(a) \/ (Quiet(a) /\ UNCHANGED files)
<1> DEFINE s == work[a]
           D(i) == Evidence(a, "Desktop", i)
           M(i) == Evidence(a, "Mobile", i)
<1>1. SessionOK(a, s) /\ s \in Session /\ SeenOK(a, s)
  BY SessionsAreOK DEF SessionOK
<1>2. /\ {"Desktop", "Mobile"} \subseteq Viewports /\ {0, 1} \subseteq 0 .. 3
      /\ \A i \in 0 .. 3 : D(i).path = Path("Desktop", i) /\ M(i).path = Path("Mobile", i)
      /\ \A i \in 0 .. 3 : Path("Desktop", i) # Path("Mobile", i)
      /\ \A i \in 1 .. 3 : /\ Path("Desktop", i) # Path("Desktop", 0)
                           /\ Path("Mobile", i) # Path("Mobile", 0)
                           /\ Path("Mobile", 0) # Path("Desktop", i)
      /\ \A i \in 2 .. 3 : Path("Mobile", i) \notin {Path("Desktop", 0), Path("Desktop", 1)}
  <2>1. {"Desktop", "Mobile"} \subseteq Viewports /\ {0, 1} \subseteq 0 .. 3
    BY DEF Viewports
  <2>2. \A i \in 0 .. 3 : D(i).path = Path("Desktop", i) /\ M(i).path = Path("Mobile", i)
    BY <2>1, PathFacts
  <2> QED BY <2>1, <2>2 DEF Path
<1>3. ASSUME NEW t, NEW v \in Viewports, NEW i \in 0 .. 3, s.pc \in Visits, t \in Session,
             t.pages = s.pages, SessionOK(a, WithPage(t, Evidence(a, v, i))),
             Captures(a, v, i, t), \A p \in Shown(s.pages) : p.path # Path(v, i)
      PROVE  Captured(a)
  <2> DEFINE new == WithPage(t, Evidence(a, v, i))
  <2>1. Goes(a, new) /\ files' = [files EXCEPT ![Path(v, i)] = Picture(a, v, i)]
    BY <1>3 DEF Captures, WithPage
  <2>2. new.pages = Append(s.pages, Evidence(a, v, i))
    BY <1>3 DEF WithPage, Session
  <2> HIDE DEF new
  <2>3. SessionOK(a, new)
    BY <1>3 DEF new
  <2>4. \A p \in Shown(work[a].pages) : p.path # Path(v, i)
    BY <1>3
  <2> QED BY <1>3, <2>1, <2>2, <2>3, <2>4, Zenon DEF Captured
<1>4. ASSUME NEW t, NEW v \in Viewports, NEW i \in 0 .. 3, s.pc \in Visits, t \in Session,
             t.pages = s.pages, SessionOK(a, WithBlock(t, Missed(v, i))), IsStopped(a, v, i, t)
      PROVE  Quiet(a) /\ UNCHANGED files
  <2> DEFINE new == WithBlock(t, Missed(v, i))
  <2>1. Goes(a, new) /\ UNCHANGED files
    BY <1>4 DEF IsStopped, WithBlock
  <2>2. new.pages = s.pages
    BY <1>4 DEF WithBlock, Session
  <2> HIDE DEF new
  <2>3. SessionOK(a, new) /\ s.pc # "idle" /\ s.pc \notin Ended
    BY <1>4 DEF new, Visits, Ended
  <2> QED BY <2>1, <2>2, <2>3 DEF Quiet
<1> HIDE DEF s
<1>5. CASE VisitDesktop(a)
  <2> DEFINE opened == Opened(s, "Desktop")
             none == Block("relevant-page-not-found", "site")
             stopped == [opened EXCEPT !.pc = "closeProxy", !.status = "Blocked"]
             on == [opened EXCEPT !.pc = "desktopPage"]
             alone == [opened EXCEPT !.pc = "closeProxy", !.status = "Partial",
                                     !.blocks = @ \cup {none}]
  <2>1. s.pc = "desktop"
    BY <1>5 DEF VisitDesktop, s
  <2>2. /\ stopped \in Session /\ stopped.pages = s.pages /\ on \in Session
        /\ on.pages = s.pages
    BY <1>1, <1>2 DEF Opened, Session, Browsing, Verdict
  <2>3. alone \in Session /\ alone.pages = s.pages
    <3>1. none \in Blocks
      BY BlockFacts
    <3> HIDE DEF none
    <3> QED BY <1>1, <1>2, <3>1 DEF Opened, Session, Browsing, Verdict
  <2>4. /\ SessionOK(a, WithBlock(stopped, Missed("Desktop", 0)))
        /\ SessionOK(a, WithPage(on, Evidence(a, "Desktop", 0)))
        /\ SessionOK(a, WithPage(alone, Evidence(a, "Desktop", 0)))
    BY <1>1, <2>1, DesktopSessions
  <2>5. \/ IsStopped(a, "Desktop", 0, stopped)
        \/ Captures(a, "Desktop", 0, on)
        \/ Captures(a, "Desktop", 0, alone)
    BY <1>5 DEF VisitDesktop, s
  <2>6. \A p \in Shown(s.pages) : p.path # Path("Desktop", 0)
    BY <1>1, <2>1, ShownFacts DEF SeenOK
  <2> HIDE DEF stopped, on, alone
  <2>7. IsStopped(a, "Desktop", 0, stopped) => Quiet(a) /\ UNCHANGED files
    BY <1>4, <1>2, <2>1, <2>2, <2>3, <2>4, <2>6 DEF Visits
  <2>8. Captures(a, "Desktop", 0, on) => Captured(a)
    BY <1>3, <1>2, <2>1, <2>2, <2>3, <2>4, <2>6 DEF Visits
  <2>9. Captures(a, "Desktop", 0, alone) => Captured(a)
    BY <1>3, <1>2, <2>1, <2>2, <2>3, <2>4, <2>6 DEF Visits
  <2> QED BY <2>5, <2>7, <2>8, <2>9
<1>6. CASE VisitDesktopPage(a)
  <2> DEFINE after == [s EXCEPT !.pc = "mobile", !.contexts = {}]
  <2>1. s.pc = "desktopPage"
    BY <1>6 DEF VisitDesktopPage, s
  <2>2. /\ Len(s.pages) = 1
        /\ SessionOK(a, WithPage(after, Evidence(a, "Desktop", 1)))
        /\ SessionOK(a, WithBlock(after, Missed("Desktop", 1)))
    BY <1>1, <2>1, DesktopPageSessions
  <2>3. after \in Session /\ after.pages = s.pages
    BY <1>1 DEF Session, Browsing
  <2>4. Captures(a, "Desktop", 1, after) \/ IsStopped(a, "Desktop", 1, after)
    BY <1>6, <2>2 DEF VisitDesktopPage, s
  <2>5. \A p \in Shown(s.pages) : p.path # Path("Desktop", 1)
    <3>1. s.pages = <<D(0)>>
      BY <1>1, <2>1 DEF SeenOK
    <3> HIDE DEF D
    <3>2. Shown(s.pages) = {D(0)}
      BY <3>1, ShownFacts
    <3> QED BY <1>2, <3>2
  <2> HIDE DEF after
  <2>6. IsStopped(a, "Desktop", 1, after) => Quiet(a) /\ UNCHANGED files
    BY <1>4, <1>2, <2>1, <2>2, <2>3, <2>5 DEF Visits
  <2>7. Captures(a, "Desktop", 1, after) => Captured(a)
    BY <1>3, <1>2, <2>1, <2>2, <2>3, <2>5 DEF Visits
  <2> QED BY <2>4, <2>6, <2>7
<1>7. CASE VisitMobile(a)
  <2> DEFINE opened == Opened(s, "Mobile")
             stopped == [opened EXCEPT !.pc = "closeProxy", !.status = "Partial"]
             on == [opened EXCEPT !.pc = "mobilePage"]
  <2>1. s.pc = "mobile"
    BY <1>7 DEF VisitMobile, s
  <2>2. /\ stopped \in Session /\ stopped.pages = s.pages /\ on \in Session
        /\ on.pages = s.pages
    BY <1>1, <1>2 DEF Opened, Session, Browsing, Verdict
  <2>3. /\ SessionOK(a, WithBlock(stopped, Missed("Mobile", 0)))
        /\ SessionOK(a, WithPage(on, Evidence(a, "Mobile", 0)))
    BY <1>1, <2>1, MobileSessions
  <2>4. IsStopped(a, "Mobile", 0, stopped) \/ Captures(a, "Mobile", 0, on)
    BY <1>7 DEF VisitMobile, s
  <2>5. \A p \in Shown(s.pages) : p.path # Path("Mobile", 0)
    <3>1. s.pages \in {<<D(0), D(1)>>, <<D(0)>>}
      BY <1>1, <2>1, Zenon DEF SeenOK
    <3> HIDE DEF D
    <3>2. Shown(s.pages) \subseteq {D(0), D(1)}
      BY <3>1, ShownFacts
    <3> QED BY <1>2, <3>2
  <2> HIDE DEF stopped, on
  <2>6. IsStopped(a, "Mobile", 0, stopped) => Quiet(a) /\ UNCHANGED files
    BY <1>4, <1>2, <2>1, <2>2, <2>3, <2>5 DEF Visits
  <2>7. Captures(a, "Mobile", 0, on) => Captured(a)
    BY <1>3, <1>2, <2>1, <2>2, <2>3, <2>5 DEF Visits
  <2> QED BY <2>4, <2>6, <2>7
<1>8. CASE VisitMobilePage(a)
  <2> DEFINE after == [s EXCEPT !.pc = "closeProxy", !.contexts = {}]
             n == Len(s.pages)
             judged == [after EXCEPT !.status = Judged(n + 1, after.blocks)]
             stopped == [after EXCEPT !.status = "Partial"]
  <2>1. s.pc = "mobilePage"
    BY <1>8 DEF VisitMobilePage, s
  <2>2. /\ n \in {2, 3}
        /\ SessionOK(a, WithPage(judged, Evidence(a, "Mobile", n)))
        /\ SessionOK(a, WithBlock(stopped, Missed("Mobile", n)))
    BY <1>1, <2>1, MobilePageSessions
  <2>3. /\ judged \in Session /\ judged.pages = s.pages
        /\ stopped \in Session /\ stopped.pages = s.pages
    <3>1. Judged(n + 1, after.blocks) \in Verdict
      BY DEF Judged, Verdict
    <3> QED BY <1>1, <3>1 DEF Session, Browsing, Verdict
  <2>4. Captures(a, "Mobile", n, judged) \/ IsStopped(a, "Mobile", n, stopped)
    BY <1>8 DEF VisitMobilePage, s
  <2> HIDE DEF judged, stopped, n
  <2>5. \A p \in Shown(s.pages) : p.path # Path("Mobile", n)
    <3>1. s.pages \in {<<D(0), D(1), M(0)>>, <<D(0), M(0)>>}
      BY <1>1, <2>1, Zenon DEF SeenOK
    <3> HIDE DEF D, M
    <3>2. Shown(s.pages) \subseteq {D(0), D(1), M(0)}
      BY <3>1, ShownFacts
    <3> QED BY <1>2, <2>2, <3>2
  <2>6. n \in 0 .. 3
    BY <2>2
  <2>7. IsStopped(a, "Mobile", n, stopped) => Quiet(a) /\ UNCHANGED files
    BY <1>4, <1>2, <2>1, <2>2, <2>3, <2>5, <2>6 DEF Visits
  <2>8. Captures(a, "Mobile", n, judged) => Captured(a)
    BY <1>3, <1>2, <2>1, <2>2, <2>3, <2>5, <2>6 DEF Visits
  <2> QED BY <2>4, <2>7, <2>8
<1> QED BY <1>5, <1>6, <1>7, <1>8

-----------------------------------------------------------------------------
(* The task.  What an operation of an attempt that has begun may change.   *)

Works(a) == Step(a) \/ Tunnels(a) \/ BrowserFails(a) \/ PageEvent(a) \/ LoseLease(a)

LEMMA WorksMoves ==
    ASSUME IInv, NEW a \in Attempt, Works(a)
    PROVE  Captured(a) \/ (Quiet(a) /\ UNCHANGED files)
<1>1. CASE VisitDesktop(a) \/ VisitDesktopPage(a) \/ VisitMobile(a) \/ VisitMobilePage(a)
  BY <1>1, VisitSteps
<1>2. CASE \/ Launch(a) \/ StartProxy(a) \/ BrowserFails(a) \/ CloseProxy(a)
           \/ ProxyClosed(a) \/ AskTunnel(a) \/ TunnelEnds(a)
  <2>1. UNCHANGED files
    BY <1>2 DEF Launch, StartProxy, BrowserFails, CloseProxy, ProxyClosed, AskTunnel,
                TunnelEnds
  <2> QED BY <1>2, <2>1, QuietSteps
<1>3. CASE \/ Validate(a) \/ TunnelResolved(a) \/ PageEvent(a) \/ CloseBrowser(a)
           \/ LoseLease(a) \/ Commit(a) \/ Checkpoint(a)
  <2>1. UNCHANGED files
    BY <1>3 DEF Validate, TunnelResolved, PageEvent, CloseBrowser, LoseLease, Commit,
                Checkpoint
  <2> QED BY <1>3, <2>1, OtherQuietSteps
<1> QED BY <1>1, <1>2, <1>3 DEF Works, Step, Tunnels

LEMMA WorksFrame ==
    ASSUME IInv, NEW a \in Attempt, Works(a)
    PROVE  /\ website' = website /\ started' = started /\ crashes' = crashes
           /\ owner' \in {owner, 0}
           /\ asked' \in {asked, asked + 1} /\ asked' \in 0 .. MaxTunnels
           /\ next' \in {"none", "ConfirmAbsentWebsite", "AssessWebsiteOpportunity"}
           /\ Commit(a) \/ (row' = row /\ business' = business)
<1> USE DEF IInv, TypeOK, session
<1>1. CASE Validate(a)
  BY <1>1 DEF Validate
<1>2. CASE Launch(a) \/ StartProxy(a)
  BY <1>2 DEF Launch, StartProxy, FailsWith
<1>3. CASE VisitDesktop(a) \/ VisitDesktopPage(a) \/ VisitMobile(a) \/ VisitMobilePage(a)
  BY <1>3 DEF VisitDesktop, VisitDesktopPage, VisitMobile, VisitMobilePage
<1>4. CASE CloseProxy(a) \/ ProxyClosed(a) \/ BrowserFails(a) \/ PageEvent(a)
  BY <1>4 DEF CloseProxy, ProxyClosed, BrowserFails, PageEvent
<1>5. CASE CloseBrowser(a)
  BY <1>5 DEF CloseBrowser, FailsWith
<1>6. CASE Commit(a)
  BY <1>6 DEF Commit
<1>7. CASE Checkpoint(a)
  BY <1>7 DEF Checkpoint, Successor
<1>8. CASE AskTunnel(a)
  BY <1>8, InspectionAssumption DEF AskTunnel
<1>9. CASE TunnelResolved(a) \/ TunnelEnds(a)
  BY <1>9 DEF TunnelResolved, TunnelEnds
<1>10. CASE LoseLease(a)
  BY <1>10 DEF LoseLease
<1> QED BY <1>1, <1>2, <1>3, <1>4, <1>5, <1>6, <1>7, <1>8, <1>9, <1>10, Zenon
        DEF Works, Step, Tunnels

\* What is stored is what the attempt has seen.
LEMMA CommitStores ==
    ASSUME IInv, NEW a \in Attempt, Commit(a)
    PROVE  /\ row' \in [status : {"none"} \cup Verdict, by : 0 .. Attempts,
                        pages : SUBSET Pages, blocks : SUBSET Blocks]
           /\ business' \in {"Corroborated"} \cup {BusinessStatus[status] : status \in Verdict}
           /\ Explained(row.status, row.pages, row.blocks)'
           /\ row' # NoRow => \/ row' = row
                              \/ row = NoRow /\ row'.pages = Shown(work[a].pages)
           /\ work[a].pc = "commit" /\ work'[a].pc = "checkpoint"
<1>1. /\ SessionOK(a, work[a]) /\ work[a] \in Session /\ work[a].pc = "commit"
      /\ SeenOK(a, work[a])
  BY SessionsAreOK DEF SessionOK, Commit
<1>2. work[a].status \in Verdict /\ Explained(work[a].status, Shown(work[a].pages), work[a].blocks)
  BY <1>1 DEF SeenOK
<1>3. work'[a].pc = "checkpoint"
  BY <1>1 DEF Commit, Goes, Over, IInv, TypeOK, Session
<1>4. CASE row # NoRow
  BY <1>1, <1>3, <1>4 DEF Commit, IInv, TypeOK
<1>5. CASE row = NoRow
  <2> DEFINE stored == Stored(a)
  <2>1. /\ stored.status = work[a].status /\ stored.by = a
        /\ stored.pages = Shown(work[a].pages) /\ stored.blocks = work[a].blocks
        /\ stored = [status |-> work[a].status, by |-> a, pages |-> Shown(work[a].pages),
                     blocks |-> work[a].blocks]
    BY DEF Stored, Shown
  <2>2. Shown(work[a].pages) \subseteq Pages /\ work[a].blocks \subseteq Blocks
    BY <1>1 DEF Shown, Session
  <2>3. a \in 0 .. Attempts
    BY InspectionAssumption DEF Attempt
  <2>4. stored \in [status : {"none"} \cup Verdict, by : 0 .. Attempts,
                    pages : SUBSET Pages, blocks : SUBSET Blocks]
    BY <1>2, <2>1, <2>2, <2>3
  <2>5. row' = stored /\ business' = BusinessStatus[work[a].status]
    BY <1>5 DEF Commit
  <2> HIDE DEF stored
  <2>6. Explained(row.status, row.pages, row.blocks)'
    <3>1. Explained(row'.status, row'.pages, row'.blocks)
      BY <1>2, <2>1, <2>5
    <3> QED BY <3>1 DEF Explained
  <2> QED BY <1>1, <1>2, <1>3, <1>5, <2>1, <2>4, <2>5, <2>6
<1> QED BY <1>4, <1>5

-----------------------------------------------------------------------------
(* Every step keeps the invariant.                                         *)

LEMMA WorksKeepTypes ==
    ASSUME IInv, NEW a \in Attempt, Works(a)
    PROVE  TypeOK'
<1>1. work' \in [Attempt -> Session]
  BY WorksMoves, MovedSessions
<1>2. files' \in [Paths -> {<<>>} \cup Pictures]
  <2>1. files \in [Paths -> {<<>>} \cup Pictures]
    BY DEF IInv, TypeOK
  <2>2. CASE UNCHANGED files
    BY <2>1, <2>2
  <2>3. CASE Captured(a)
    <3>1. PICK v \in Viewports, i \in 0 .. 3 :
            files' = [files EXCEPT ![Path(v, i)] = Picture(a, v, i)]
      BY <2>3 DEF Captured
    <3>2. Picture(a, v, i) \in Pictures
      BY PathFacts
    <3> QED BY <2>1, <3>1, <3>2
  <2> QED BY <2>2, <2>3, WorksMoves
<1>3. /\ row' \in [status : {"none"} \cup Verdict, by : 0 .. Attempts,
                   pages : SUBSET Pages, blocks : SUBSET Blocks]
      /\ business' \in {"Corroborated"} \cup {BusinessStatus[status] : status \in Verdict}
  BY WorksFrame, CommitStores DEF IInv, TypeOK
<1>4. /\ website' \in Websites /\ owner' \in 0 .. Attempts /\ started' \in 0 .. Attempts
      /\ next' \in {"none", "ConfirmAbsentWebsite", "AssessWebsiteOpportunity"}
      /\ crashes' \in 0 .. MaxCrashes /\ asked' \in 0 .. MaxTunnels
  <2>1. /\ website \in Websites /\ owner \in 0 .. Attempts /\ started \in 0 .. Attempts
        /\ crashes \in 0 .. MaxCrashes
    BY DEF IInv, TypeOK
  <2>2. 0 \in 0 .. Attempts
    BY InspectionAssumption
  <2> QED BY <2>1, <2>2, WorksFrame
<1> QED BY <1>1, <1>2, <1>3, <1>4 DEF TypeOK

LEMMA WorksKeepBegun ==
    ASSUME IInv, NEW a \in Attempt, Works(a)
    PROVE  BegunOK'
<1>1. PICK s : /\ SessionOK(a, s) /\ Goes(a, s)
               /\ work[a].pc = "idle" => s.pc = "idle"
  <2>1. CASE Captured(a)
    BY <2>1 DEF Captured, Visits
  <2>2. CASE Quiet(a)
    BY <2>2 DEF Quiet
  <2> QED BY <2>1, <2>2, WorksMoves
<1>2. work'[a] = s /\ \A b \in Attempt \ {a} : work'[b] = work[b]
  BY <1>1, GoesFacts DEF IInv, TypeOK, SessionOK
<1>3. /\ \A b \in Attempt : b > started => work[b].pc = "idle"
      /\ row # NoRow => started > 0
      /\ started' = started /\ started \in 0 .. Attempts
  BY WorksFrame DEF IInv, BegunOK, TypeOK
<1>4. \A b \in Attempt : b > started' => work'[b].pc = "idle"
  BY <1>1, <1>2, <1>3
<1>5. row' # NoRow => started' > 0
  <2>1. CASE row' = row
    BY <1>3, <2>1
  <2>2. CASE Commit(a)
    <3>1. work[a].pc = "commit"
      BY <2>2 DEF Commit
    <3> QED BY <1>3, <3>1 DEF Attempt
  <2> QED BY <2>1, <2>2, WorksFrame
<1> QED BY <1>4, <1>5 DEF BegunOK

\* While there is one attempt, the pictures are its own.
LEMMA WorksKeepOwn ==
    ASSUME IInv, NEW a \in Attempt, Works(a), started <= 1
    PROVE  /\ \A b \in Attempt : \A p \in Shown(work'[b].pages) : IsServed(p)'
           /\ \A p \in row'.pages : IsServed(p)'
           /\ row' # NoRow =>
                \A b \in Attempt : work'[b].pc \in {"idle", "checkpoint", "done", "dropped"}
<1>1. /\ \A b \in Attempt : \A p \in Shown(work[b].pages) : IsServed(p)
      /\ \A p \in row.pages : IsServed(p)
      /\ row # NoRow => \A b \in Attempt : work[b].pc \in {"idle"} \cup Ended
  BY DEF IInv, OwnOK, Ended
<1>2. \A b \in Attempt \ {a} : work[a].pc # "idle" => work[b].pc = "idle" /\ Shown(work[b].pages) = {}
  <2>1. ASSUME NEW b \in Attempt \ {a}, work[a].pc # "idle"
        PROVE  work[b].pc = "idle"
    <3>1. a <= started
      BY <2>1 DEF IInv, BegunOK, TypeOK, Attempt
    <3>2. b > started
      BY <2>1, <3>1 DEF IInv, TypeOK, Attempt
    <3> QED BY <3>2 DEF IInv, BegunOK
  <2>2. ASSUME NEW b \in Attempt, work[b].pc = "idle"
        PROVE  Shown(work[b].pages) = {}
    <3>1. work[b].pages = <<>>
      BY <2>2 DEF IInv, SessionsOK, SeenOK
    <3> QED BY <3>1, ShownFacts
  <2> QED BY <2>1, <2>2
<1>3. CASE Quiet(a) /\ UNCHANGED files
  <2>1. PICK s : /\ SessionOK(a, s) /\ Goes(a, s)
                 /\ work[a].pc = "idle" => s.pc = "idle"
                 /\ work[a].pc \in Ended => s.pc \in Ended
                 /\ Shown(s.pages) \subseteq Shown(work[a].pages)
    BY <1>3 DEF Quiet
  <2>2. work'[a] = s /\ \A b \in Attempt \ {a} : work'[b] = work[b]
    BY <2>1, GoesFacts DEF IInv, TypeOK, SessionOK
  <2>3. \A p : IsServed(p)' <=> IsServed(p)
    BY <1>3 DEF IsServed
  <2>4. \A b \in Attempt : \A p \in Shown(work'[b].pages) : IsServed(p)'
    BY <1>1, <2>1, <2>2, <2>3
  <2>5. CASE row' = row
    BY <1>1, <2>1, <2>2, <2>3, <2>4, <2>5 DEF Ended
  <2>6. CASE Commit(a)
    <3>1. /\ row' # NoRow => row' = row \/ row'.pages = Shown(work[a].pages)
          /\ work[a].pc = "commit" /\ work'[a].pc = "checkpoint"
      BY <2>6, CommitStores
    <3>2. row' = NoRow => row'.pages = {}
      BY DEF NoRow
    <3>3. \A p \in row'.pages : IsServed(p)'
      BY <1>1, <2>3, <3>1, <3>2
    <3>4. \A b \in Attempt : work'[b].pc \in {"idle", "checkpoint", "done", "dropped"}
      BY <1>2, <2>2, <3>1
    <3> QED BY <2>4, <3>3, <3>4
  <2> QED BY <2>5, <2>6, WorksFrame
<1>4. CASE Captured(a)
  <2>1. PICK s : \E v \in Viewports, i \in 0 .. 3 :
            /\ SessionOK(a, s) /\ Goes(a, s)
            /\ work[a].pc \in Visits
            /\ s.pages = Append(work[a].pages, Evidence(a, v, i))
            /\ files' = [files EXCEPT ![Path(v, i)] = Picture(a, v, i)]
            /\ \A p \in Shown(work[a].pages) : p.path # Path(v, i)
    BY <1>4 DEF Captured
  <2>2. PICK v \in Viewports, i \in 0 .. 3 :
            /\ SessionOK(a, s) /\ Goes(a, s)
            /\ work[a].pc \in Visits
            /\ s.pages = Append(work[a].pages, Evidence(a, v, i))
            /\ files' = [files EXCEPT ![Path(v, i)] = Picture(a, v, i)]
            /\ \A p \in Shown(work[a].pages) : p.path # Path(v, i)
    BY <2>1
  <2> DEFINE page == Evidence(a, v, i)
  <2>3. work'[a] = s /\ \A b \in Attempt \ {a} : work'[b] = work[b]
    BY <2>2, GoesFacts DEF IInv, TypeOK, SessionOK
  <2>4. row = NoRow /\ row' = row /\ row.pages = {}
    <3>1. row = NoRow
      BY <1>1, <2>2 DEF Visits, Ended
    <3>2. ~Commit(a)
      BY <2>2 DEF Commit, Visits
    <3> QED BY <3>1, <3>2, WorksFrame DEF NoRow
  <2>5. Shown(s.pages) \subseteq Shown(work[a].pages) \cup {page}
    <3>1. work[a].pages \in Seq(Pages) /\ page \in Pages
      BY PathFacts DEF IInv, TypeOK, Session
    <3> HIDE DEF page
    <3>2. ASSUME NEW q \in Shown(s.pages)
          PROVE  q \in Shown(work[a].pages) \cup {page}
      <4>1. PICK k \in DOMAIN s.pages : q = s.pages[k]
        BY <3>2 DEF Shown
      <4> DEFINE old == work[a].pages
      <4>2. /\ Len(s.pages) = Len(old) + 1 /\ s.pages \in Seq(Pages)
            /\ \A m \in 1 .. Len(old) : s.pages[m] = old[m]
            /\ s.pages[Len(old) + 1] = page
        BY <2>2, <3>1, AppendProperties DEF page
      <4>3. /\ Len(old) \in Nat /\ DOMAIN old = 1 .. Len(old)
            /\ DOMAIN s.pages = 1 .. (Len(old) + 1)
        BY <3>1, <4>2
      <4> HIDE DEF old
      <4>4. CASE k \in 1 .. Len(old)
        BY <4>1, <4>2, <4>3, <4>4 DEF Shown, old
      <4>5. CASE k = Len(old) + 1
        BY <4>1, <4>2, <4>5
      <4> QED BY <4>1, <4>3, <4>4, <4>5
    <3> QED BY <3>2
  <2>6. IsServed(page)' /\ \A p \in Shown(work[a].pages) : IsServed(p)'
    <3>1. /\ page.path = Path(v, i) /\ page.picture = Picture(a, v, i)
          /\ Path(v, i) \in Paths
      BY PathFacts
    <3>2. files \in [Paths -> {<<>>} \cup Pictures]
      BY DEF IInv, TypeOK
    <3> HIDE DEF page
    <3>3. IsServed(page)'
      BY <2>2, <3>1, <3>2 DEF IsServed
    <3>4. ASSUME NEW p \in Shown(work[a].pages) PROVE IsServed(p)'
      <4>1. p.path \in Paths /\ p.path # Path(v, i) /\ IsServed(p)
        <5>1. p \in Pages
          BY <3>4 DEF Shown, IInv, TypeOK, Session
        <5> QED BY <1>1, <2>2, <3>4, <5>1 DEF Pages
      <4> QED BY <2>2, <3>1, <3>2, <4>1 DEF IsServed
    <3> QED BY <3>3, <3>4
  <2> HIDE DEF page
  <2>7. \A b \in Attempt : \A p \in Shown(work'[b].pages) : IsServed(p)'
    BY <1>2, <2>2, <2>3, <2>5, <2>6 DEF Visits
  <2> QED BY <2>4, <2>7
<1> QED BY <1>3, <1>4, WorksMoves

LEMMA WorksKeep ==
    ASSUME IInv, NEW a \in Attempt, Works(a)
    PROVE  IInv'
<1>1. SessionsOK'
  BY WorksMoves, MovedSessions
<1>2. OwnOK'
  <2>1. started' = started
    BY WorksFrame
  <2>2. CASE started <= 1
    BY <2>2, WorksKeepOwn DEF OwnOK
  <2>3. CASE ~(started <= 1)
    BY <2>1, <2>3 DEF OwnOK
  <2> QED BY <2>2, <2>3
<1>3. Explained(row.status, row.pages, row.blocks)'
  <2>1. CASE row' = row
    BY <2>1 DEF IInv, Explained
  <2>2. CASE Commit(a)
    BY <2>2, CommitStores
  <2> QED BY <2>1, <2>2, WorksFrame
<1> QED BY <1>1, <1>2, <1>3, WorksKeepTypes, WorksKeepBegun DEF IInv

LEMMA BeginKeeps ==
    ASSUME IInv, NEW a \in Attempt, Begin(a)
    PROVE  IInv'
<1> USE DEF Begin
<1>1. PICK s : /\ SessionOK(a, s) /\ Goes(a, s) /\ s.pages = <<>>
  <2>1. \A t \in {[Idle EXCEPT !.pc = "commit", !.status = "NoWebsite"],
                  [Idle EXCEPT !.pc = "validate"]} :
          SessionOK(a, t) /\ t.pages = <<>>
    BY NewSessions DEF Idle
  <2> QED BY <2>1
<1>2. /\ work' \in [Attempt -> Session] /\ work'[a] = s
      /\ \A b \in Attempt \ {a} : work'[b] = work[b]
  BY <1>1, GoesFacts DEF IInv, TypeOK, SessionOK
<1>3. TypeOK'
  <2>1. a \in 0 .. Attempts
    BY InspectionAssumption DEF Attempt
  <2> QED BY <1>2, <2>1 DEF IInv, TypeOK
<1>4. SessionsOK'
  <2>1. \A b \in Attempt : OpenOK(work'[b]) /\ SeenOK(b, work'[b])
    BY <1>1, <1>2, Zenon DEF IInv, SessionsOK, SessionOK
  <2> QED BY <2>1 DEF SessionsOK
<1>5. BegunOK'
  <2>1. started \in Nat /\ started' = started + 1 /\ a = started + 1
    BY InspectionAssumption DEF IInv, TypeOK
  <2>2. \A b \in Attempt : b > started' => work'[b].pc = "idle"
    BY <1>2, <2>1 DEF IInv, BegunOK, Attempt
  <2> QED BY <2>1, <2>2 DEF BegunOK
<1>6. OwnOK'
  <2> SUFFICES ASSUME started' <= 1
               PROVE  /\ \A b \in Attempt : \A p \in Shown(work'[b].pages) : IsServed(p)'
                      /\ \A p \in row'.pages : IsServed(p)'
                      /\ row' = NoRow
    BY DEF OwnOK
  <2>1. started = 0 /\ started <= 1
    BY InspectionAssumption DEF IInv, TypeOK
  <2>2. row' = NoRow /\ row'.pages = {}
    BY <2>1 DEF IInv, BegunOK, NoRow
  <2>3. ASSUME NEW b \in Attempt, NEW p \in Shown(work'[b].pages) PROVE IsServed(p)'
    <3>1. CASE b = a
      BY <1>1, <1>2, <2>3, <3>1, ShownFacts
    <3>2. CASE b # a
      BY <1>2, <2>1, <2>3, <3>2 DEF IInv, OwnOK, IsServed
    <3> QED BY <3>1, <3>2
  <2> QED BY <2>2, <2>3
<1>7. Explained(row.status, row.pages, row.blocks)'
  BY DEF IInv, Explained
<1> QED BY <1>3, <1>4, <1>5, <1>6, <1>7 DEF IInv

LEMMA CrashKeeps ==
    ASSUME IInv, Crash
    PROVE  IInv'
<1> DEFINE gone == [Idle EXCEPT !.pc = "dropped"]
<1>1. \A b \in Attempt : SessionOK(b, gone) /\ gone.pages = <<>> /\ gone.pc = "dropped"
  BY NewSessions DEF Idle
<1> HIDE DEF gone
<1>2. \A b \in Attempt :
        work'[b] = IF work[b].pc \in {"idle", "done", "failed", "dropped"}
                     THEN work[b] ELSE gone
  BY DEF Crash, Attempt, gone
<1>3. \A b \in Attempt : work[b] \in Session /\ OpenOK(work[b]) /\ SeenOK(b, work[b])
  BY DEF IInv, TypeOK, SessionsOK
<1>4. \A b \in Attempt : work'[b] \in {work[b], gone}
  BY <1>2
<1>5. \A b \in Attempt : work'[b] \in Session /\ OpenOK(work'[b]) /\ SeenOK(b, work'[b])
  BY <1>1, <1>3, <1>4, Zenon DEF SessionOK
<1>6. work' \in [Attempt -> Session]
  <2>1. work' = [b \in Attempt |-> work'[b]]
    BY DEF Crash, Attempt
  <2> QED BY <1>5, <2>1
<1>7. TypeOK'
  <2>1. /\ crashes' \in 0 .. MaxCrashes /\ owner' \in 0 .. Attempts
        /\ UNCHANGED <<website, started, files, row, business, next, asked>>
    BY InspectionAssumption DEF Crash, IInv, TypeOK
  <2> QED BY <1>6, <2>1, Zenon DEF IInv, TypeOK
<1>8. BegunOK'
  BY <1>2 DEF Crash, IInv, BegunOK
<1>9. OwnOK'
  <2> SUFFICES ASSUME started <= 1
               PROVE  /\ \A b \in Attempt : \A p \in Shown(work'[b].pages) : IsServed(p)'
                      /\ \A p \in row'.pages : IsServed(p)'
                      /\ row' # NoRow => \A b \in Attempt :
                           work'[b].pc \in {"idle", "checkpoint", "done", "dropped"}
    BY DEF OwnOK, Crash
  <2>1. /\ \A b \in Attempt : \A p \in Shown(work[b].pages) : IsServed(p)
        /\ \A p \in row.pages : IsServed(p)
        /\ row # NoRow =>
             \A b \in Attempt : work[b].pc \in {"idle", "checkpoint", "done", "dropped"}
    BY DEF IInv, OwnOK
  <2>2. row' = row /\ \A p : IsServed(p)' <=> IsServed(p)
    BY DEF Crash, IsServed
  <2>3. \A b \in Attempt : Shown(work'[b].pages) \subseteq Shown(work[b].pages)
    BY <1>1, <1>4, ShownFacts
  <2> QED BY <1>1, <1>4, <2>1, <2>2, <2>3
<1>10. Explained(row.status, row.pages, row.blocks)'
  BY DEF Crash, IInv, Explained
<1>11. SessionsOK'
  BY <1>5 DEF SessionsOK
<1> QED BY <1>7, <1>8, <1>9, <1>10, <1>11 DEF IInv

LEMMA InitHolds == Init => IInv
<1> SUFFICES ASSUME Init PROVE IInv
  OBVIOUS
<1>1. /\ \A a \in Attempt : work[a] = Idle
      /\ \A a \in Attempt : SessionOK(a, Idle)
  BY NewSessions DEF Init, Attempt
<1>2. TypeOK
  <2>1. work \in [Attempt -> Session]
    BY <1>1 DEF Init, Attempt, SessionOK
  <2>2. /\ files \in [Paths -> {<<>>} \cup Pictures]
        /\ row \in [status : {"none"} \cup Verdict, by : 0 .. Attempts,
                    pages : SUBSET Pages, blocks : SUBSET Blocks]
    BY InspectionAssumption DEF Init, NoRow
  <2> QED BY <2>1, <2>2, InspectionAssumption DEF Init, TypeOK
<1>3. SessionsOK
  BY <1>1, Zenon DEF SessionsOK, SessionOK
<1>4. BegunOK
  <2>1. \A a \in Attempt : work[a].pc = "idle"
    BY <1>1 DEF Idle
  <2>2. row = NoRow
    BY DEF Init
  <2> QED BY <2>1, <2>2 DEF BegunOK
<1>5. OwnOK
  <2>1. Idle.pages = <<>> /\ row.pages = {} /\ row = NoRow
    BY DEF Idle, Init, NoRow
  <2> QED BY <1>1, <2>1, ShownFacts DEF OwnOK
<1>6. Explained(row.status, row.pages, row.blocks)
  BY DEF Init, NoRow, Explained
<1> QED BY <1>2, <1>3, <1>4, <1>5, <1>6 DEF IInv

LEMMA NextKeeps == IInv /\ [Next]_vars => IInv'
<1> SUFFICES ASSUME IInv, [Next]_vars PROVE IInv'
  OBVIOUS
<1>1. CASE \E a \in Attempt : Begin(a)
  BY <1>1, BeginKeeps
<1>2. CASE \E a \in Attempt : Works(a)
  BY <1>2, WorksKeep
<1>3. CASE Crash
  BY <1>3, CrashKeeps
<1>4. CASE UNCHANGED vars
  BY <1>4 DEF vars, IInv, TypeOK, SessionsOK, BegunOK, OwnOK, IsServed, Explained
<1>5. CASE Finished
  BY <1>4, <1>5 DEF Finished
<1> QED BY <1>1, <1>2, <1>3, <1>4, <1>5 DEF Next, Works, Attempt

-----------------------------------------------------------------------------
(* Theorems.                                                               *)

\* The inductive invariant: what a session has open and has seen by where it
\* is, and what an inspection shows (playwright-website-inspector.ts).
THEOREM InspectionInvariant == Spec => []IInv
BY InitHolds, NextKeeps, PTL DEF Spec

\* However many attempts there are and wherever one ends, its browser, its proxy
\* and its tunnels are closed: the finalizers of the inspector and of the pinned
\* proxy release what was acquired on every path.
THEOREM NothingStaysOpen == Spec => []NothingIsLeftOpen
<1>1. IInv => NothingIsLeftOpen
  BY DEF IInv, SessionsOK, OpenOK, NothingIsLeftOpen, Attempt
<1> QED BY <1>1, InspectionInvariant, PTL

\* A stored inspection explains what it does not show, and while one attempt has
\* been made it shows the pictures that were taken for it.
THEOREM EvidenceStaysHonest == Spec => []EvidenceIsHonest
<1>1. IInv => LimitsAreExplained
  BY DEF IInv, Explained, LimitsAreExplained
<1>2. IInv => EvidenceIsOwn
  BY DEF IInv, OwnOK, EvidenceIsOwn
<1> QED BY <1>1, <1>2, InspectionInvariant, PTL DEF EvidenceIsHonest
=============================================================================
