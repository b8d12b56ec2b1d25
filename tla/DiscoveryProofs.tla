-------------------------- MODULE DiscoveryProofs --------------------------
(***************************************************************************)
(* Proofs about Discovery, for any businesses, target, plan and number of  *)
(* attempts and crashes: the books of a search agree, a checkpoint covers  *)
(* its run, and no search is bought that cannot help. And about the calls  *)
(* of a runtime it is made of (RuntimeCall), for any set of calls, any     *)
(* pairs they are asked of and any limit on their output: a call that was  *)
(* cut short leaves no process behind.                                     *)
(***************************************************************************)
EXTENDS
    Discovery, RuntimeCall,
    FiniteSetTheorems, SequenceTheorems, WellFoundedInduction, TLAPS

-----------------------------------------------------------------------------
(* Numbers and sequences.                                                  *)

\* A set of numbers that is not empty has a least member.
LEMMA Least ==
    ASSUME NEW T \in SUBSET Nat, T # {}
    PROVE  \E x \in T : \A y \in T : x <= y
<1>1. PICK x \in T : \A y \in T : ~(<<y, x>> \in OpToRel(<, Nat))
  BY NatLessThanWellFounded, WFMin
<1>2. \A y \in T : <<y, x>> \in Nat \X Nat
  OBVIOUS
<1>3. \A y \in T : ~(y < x)
  BY <1>1, <1>2 DEF OpToRel
<1> QED
  BY <1>3

LEMMA Appended ==
    ASSUME NEW S, NEW seq \in Seq(S), NEW e \in S
    PROVE  /\ Append(seq, e) \in Seq(S) /\ Len(Append(seq, e)) = Len(seq) + 1
           /\ Len(seq) \in Nat /\ DOMAIN seq = 1 .. Len(seq)
           /\ DOMAIN Append(seq, e) = 1 .. (Len(seq) + 1)
           /\ \A k \in DOMAIN seq : seq[k] \in S /\ Append(seq, e)[k] = seq[k]
           /\ Append(seq, e)[Len(seq) + 1] = e
  OBVIOUS

-----------------------------------------------------------------------------
(* What recordReport's loop makes of the claims.                           *)

Accumulated == [found : Seq(Business), unique : Nat, duplicates : Nat]
Start(held) == [found |-> held, unique |-> 0, duplicates |-> 0]

\* The loop up to the n-th claim, as one function.
IsLoop(f, held, cs, n) ==
    f = [k \in 0 .. n |-> IF k = 0 THEN Start(held) ELSE RecordOne(f[k - 1], cs[k])]

LEMMA LoopExists ==
    ASSUME NEW held, NEW cs, NEW n \in Nat
    PROVE  \E f : IsLoop(f, held, cs, n)
<1> DEFINE Bad == {m \in Nat : ~\E f : IsLoop(f, held, cs, m)}
<1>1. SUFFICES ASSUME Bad # {} PROVE FALSE
  OBVIOUS
<1>2. PICK m \in Bad : \A k \in Bad : m <= k
  <2>1. Bad \in SUBSET Nat
    OBVIOUS
  <2> HIDE DEF Bad
  <2> QED BY <1>1, <2>1, Least
<1>3. CASE m = 0
  <2> DEFINE f == [k \in 0 .. 0 |-> Start(held)]
  <2>1. IsLoop(f, held, cs, 0)
    BY DEF IsLoop
  <2> QED BY <1>3, <2>1
<1>4. CASE m # 0
  <2>1. m - 1 \in Nat /\ m - 1 \notin Bad
    BY <1>2, <1>4
  <2>2. PICK g : IsLoop(g, held, cs, m - 1)
    BY <2>1
  <2> DEFINE f == [k \in 0 .. m |-> IF k = m THEN RecordOne(g[m - 1], cs[m]) ELSE g[k]]
  <2>3. \A k \in 0 .. (m - 1) :
          g[k] = IF k = 0 THEN Start(held) ELSE RecordOne(g[k - 1], cs[k])
    BY <2>2 DEF IsLoop
  <2>4. \A k \in 0 .. m :
          f[k] = IF k = 0 THEN Start(held) ELSE RecordOne(f[k - 1], cs[k])
    BY <1>4, <2>1, <2>3
  <2>5. f = [k \in 0 .. m |-> f[k]]
    OBVIOUS
  <2>6. IsLoop(f, held, cs, m)
    <3> HIDE DEF f
    <3> QED BY <2>4, <2>5 DEF IsLoop
  <2> QED BY <2>6
<1> QED
  BY <1>3, <1>4

LEMMA RecordedIsLoop ==
    ASSUME NEW held, NEW cs, Len(cs) \in Nat
    PROVE  \E f : IsLoop(f, held, cs, Len(cs)) /\ Recorded(held, cs) = f[Len(cs)]
<1> DEFINE after[n \in 0 .. Len(cs)] ==
             IF n = 0 THEN [found |-> held, unique |-> 0, duplicates |-> 0]
             ELSE RecordOne(after[n - 1], cs[n])
<1>1. Recorded(held, cs) = after[Len(cs)]
  BY DEF Recorded
<1>2. IsLoop(after, held, cs, Len(cs))
  BY LoopExists DEF IsLoop, Start
<1> HIDE DEF after
<1> QED
  BY <1>1, <1>2
\* What holds after n turns: the businesses held keep their ranks, none is there
\* twice if none was held twice, as many are added as are counted as new, and no
\* claim is counted twice.
Sound(acc, held, n) ==
    /\ acc \in Accumulated
    /\ Len(acc.found) = Len(held) + acc.unique
    /\ acc.unique + acc.duplicates <= n
    /\ \A k \in 1 .. Len(held) : acc.found[k] = held[k]
    /\ IsInjective(held) => IsInjective(acc.found)

LEMMA RecordOneKeeps ==
    ASSUME NEW held \in Seq(Business), NEW n \in Nat, NEW acc, Sound(acc, held, n),
           NEW c \in Claim
    PROVE  Sound(RecordOne(acc, c), held, n + 1)
<1>1. /\ acc \in Accumulated /\ acc.found \in Seq(Business) /\ acc.unique \in Nat
      /\ acc.duplicates \in Nat /\ c.business \in Business
  BY DEF Sound, Accumulated, Claim
<1>2. CASE RecordOne(acc, c) = acc
  BY <1>1, <1>2 DEF Sound
<1>3. CASE RecordOne(acc, c) = [acc EXCEPT !.duplicates = @ + 1]
  BY <1>1, <1>3 DEF Sound, Accumulated
<1>4. CASE /\ c.business \notin ToSet(acc.found)
           /\ RecordOne(acc, c) = [acc EXCEPT !.found = Append(@, c.business), !.unique = @ + 1]
  <2> DEFINE new == Append(acc.found, c.business)
  <2>1. /\ new \in Seq(Business) /\ Len(new) = Len(acc.found) + 1
        /\ Len(acc.found) \in Nat /\ DOMAIN acc.found = 1 .. Len(acc.found)
        /\ DOMAIN new = 1 .. (Len(acc.found) + 1)
        /\ \A k \in DOMAIN acc.found : new[k] = acc.found[k]
        /\ new[Len(acc.found) + 1] = c.business
    BY <1>1, Appended
  <2>2. \A k \in DOMAIN acc.found : acc.found[k] # c.business
    BY <1>4 DEF ToSet
  <2>3. IsInjective(acc.found) => IsInjective(new)
    <3> DEFINE l == Len(acc.found)
    <3> HIDE DEF new, l
    <3>1. ASSUME IsInjective(acc.found), NEW j \in DOMAIN new, NEW k \in DOMAIN new,
                 new[j] = new[k]
          PROVE  j = k
      <4>1. /\ l \in Nat /\ DOMAIN new = 1 .. (l + 1) /\ DOMAIN acc.found = 1 .. l
            /\ new[l + 1] = c.business
        BY <2>1 DEF l
      <4>2. j \in DOMAIN acc.found \/ j = l + 1
        BY <4>1
      <4>3. k \in DOMAIN acc.found \/ k = l + 1
        BY <4>1
      <4> QED BY <2>1, <2>2, <3>1, <4>1, <4>2, <4>3 DEF IsInjective
    <3> QED BY <3>1 DEF IsInjective
  <2>4. /\ RecordOne(acc, c) \in Accumulated /\ RecordOne(acc, c).found = new
        /\ RecordOne(acc, c).unique = acc.unique + 1
        /\ RecordOne(acc, c).duplicates = acc.duplicates
    <3>1. RecordOne(acc, c) =
            [found |-> new, unique |-> acc.unique + 1, duplicates |-> acc.duplicates]
      BY <1>1, <1>4 DEF Accumulated
    <3> HIDE DEF new
    <3> QED BY <1>1, <2>1, <3>1 DEF Accumulated
  <2>5. Len(held) \in Nat
    OBVIOUS
  <2> HIDE DEF new
  <2>6. \A k \in 1 .. Len(held) : new[k] = held[k]
    <3> DEFINE l == Len(acc.found)
               h == Len(held)
    <3>1. l \in Nat /\ h \in Nat /\ l = h + acc.unique /\ acc.unique \in Nat
      BY <1>1, <2>1, <2>5 DEF Sound
    <3>2. DOMAIN acc.found = 1 .. l
      BY <2>1
    <3>3. \A k \in 1 .. h : acc.found[k] = held[k]
      BY DEF Sound
    <3> HIDE DEF l, h
    <3>4. 1 .. h \subseteq 1 .. l
      BY <3>1
    <3>5. \A k \in 1 .. h : k \in DOMAIN acc.found /\ acc.found[k] = held[k]
      BY <3>2, <3>3, <3>4
    <3> QED BY <2>1, <3>5 DEF h
  <2>7. /\ RecordOne(acc, c).unique + RecordOne(acc, c).duplicates <= n + 1
        /\ Len(new) = Len(held) + RecordOne(acc, c).unique
    BY <1>1, <2>1, <2>4, <2>5 DEF Sound
  <2> QED BY <2>3, <2>4, <2>6, <2>7 DEF Sound
<1> QED
  BY <1>2, <1>3, <1>4 DEF RecordOne

LEMMA RecordedIsSound ==
    ASSUME NEW held \in Seq(Business), NEW cs \in Seq(Claim)
    PROVE  Sound(Recorded(held, cs), held, Len(cs))
<1>1. Len(cs) \in Nat /\ \A k \in 1 .. Len(cs) : cs[k] \in Claim
  OBVIOUS
<1>2. PICK f : IsLoop(f, held, cs, Len(cs)) /\ Recorded(held, cs) = f[Len(cs)]
  BY <1>1, RecordedIsLoop
<1>3. \A k \in 0 .. Len(cs) :
        f[k] = IF k = 0 THEN Start(held) ELSE RecordOne(f[k - 1], cs[k])
  BY <1>2 DEF IsLoop
<1> DEFINE Bad == {k \in 0 .. Len(cs) : ~Sound(f[k], held, k)}
<1>4. SUFFICES ASSUME Bad # {} PROVE FALSE
  BY <1>1, <1>2
<1>5. PICK m \in Bad : \A k \in Bad : m <= k
  <2>1. Bad \in SUBSET Nat
    BY <1>1
  <2> HIDE DEF Bad
  <2> QED BY <1>4, <2>1, Least
<1>6. CASE m = 0
  <2>1. Sound(Start(held), held, 0)
    BY DEF Sound, Start, Accumulated
  <2> QED BY <1>1, <1>3, <1>6, <2>1
<1>7. CASE m # 0
  <2>1. m \in 1 .. Len(cs) /\ m - 1 \in 0 .. Len(cs) /\ m - 1 \notin Bad
    BY <1>1, <1>5, <1>7
  <2>2. Sound(f[m - 1], held, m - 1)
    BY <2>1
  <2>3. Sound(RecordOne(f[m - 1], cs[m]), held, m - 1 + 1)
    BY <1>1, <2>1, <2>2, RecordOneKeeps
  <2> QED BY <1>1, <1>3, <1>5, <1>7, <2>1, <2>3
<1> QED
  BY <1>6, <1>7

-----------------------------------------------------------------------------
(* Sums over the reports.                                                  *)

Report == [query : Nat, returned : Nat, unique : Nat, duplicates : Nat]
Counts == {"unique", "duplicates"}

\* The running sum of the first n reports.
IsSum(f, ps, field, n) ==
    f = [k \in 0 .. n |-> IF k = 0 THEN 0 ELSE f[k - 1] + ps[k][field]]

LEMMA SumExists ==
    ASSUME NEW ps, NEW field, NEW n \in Nat
    PROVE  \E f : IsSum(f, ps, field, n)
<1> DEFINE Bad == {m \in Nat : ~\E f : IsSum(f, ps, field, m)}
<1>1. SUFFICES ASSUME Bad # {} PROVE FALSE
  OBVIOUS
<1>2. PICK m \in Bad : \A k \in Bad : m <= k
  <2>1. Bad \in SUBSET Nat
    OBVIOUS
  <2> HIDE DEF Bad
  <2> QED BY <1>1, <2>1, Least
<1>3. CASE m = 0
  <2> DEFINE f == [k \in 0 .. 0 |-> 0]
  <2>1. IsSum(f, ps, field, 0)
    BY DEF IsSum
  <2> QED BY <1>3, <2>1
<1>4. CASE m # 0
  <2>1. m - 1 \in Nat /\ m - 1 \notin Bad
    BY <1>2, <1>4
  <2>2. PICK g : IsSum(g, ps, field, m - 1)
    BY <2>1
  <2> DEFINE f == [k \in 0 .. m |-> IF k = m THEN g[m - 1] + ps[m][field] ELSE g[k]]
  <2>3. \A k \in 0 .. (m - 1) : g[k] = IF k = 0 THEN 0 ELSE g[k - 1] + ps[k][field]
    BY <2>2 DEF IsSum
  <2>4. \A k \in 0 .. m : f[k] = IF k = 0 THEN 0 ELSE f[k - 1] + ps[k][field]
    BY <1>4, <2>1, <2>3
  <2>5. f = [k \in 0 .. m |-> f[k]]
    OBVIOUS
  <2>6. IsSum(f, ps, field, m)
    <3> HIDE DEF f
    <3> QED BY <2>4, <2>5 DEF IsSum
  <2> QED BY <2>6
<1> QED
  BY <1>3, <1>4

\* Two running sums agree on the reports they share, and are numbers.
LEMMA SumsAgree ==
    ASSUME NEW ps \in Seq(Report), NEW qs \in Seq(Report), NEW field \in Counts,
           NEW n \in 0 .. Len(ps), n <= Len(qs), \A k \in 1 .. n : ps[k] = qs[k],
           NEW f, IsSum(f, ps, field, Len(ps)), NEW g, IsSum(g, qs, field, Len(qs))
    PROVE  f[n] = g[n] /\ f[n] \in Nat
<1>1. /\ Len(ps) \in Nat /\ Len(qs) \in Nat
      /\ \A k \in 1 .. Len(ps) : ps[k][field] \in Nat
  <2>1. /\ Len(ps) \in Nat /\ Len(qs) \in Nat
        /\ \A k \in 1 .. Len(ps) : ps[k] \in Report
    OBVIOUS
  <2>2. \A p \in Report : p[field] \in Nat
    BY DEF Report, Counts
  <2> QED BY <2>1, <2>2
<1>2. /\ \A k \in 0 .. Len(ps) : f[k] = IF k = 0 THEN 0 ELSE f[k - 1] + ps[k][field]
      /\ \A k \in 0 .. Len(qs) : g[k] = IF k = 0 THEN 0 ELSE g[k - 1] + qs[k][field]
  BY DEF IsSum
<1> DEFINE Bad == {k \in 0 .. n : ~(f[k] = g[k] /\ f[k] \in Nat)}
<1>3. SUFFICES ASSUME Bad # {} PROVE FALSE
  BY <1>1
<1>4. PICK m \in Bad : \A k \in Bad : m <= k
  <2>1. Bad \in SUBSET Nat
    BY <1>1
  <2> HIDE DEF Bad
  <2> QED BY <1>3, <2>1, Least
<1>5. CASE m = 0
  BY <1>1, <1>2, <1>4, <1>5
<1>6. CASE m # 0
  <2>1. m \in 1 .. n /\ m - 1 \in 0 .. n /\ m - 1 \notin Bad /\ m \in 1 .. Len(ps)
        /\ m \in 0 .. Len(ps) /\ m \in 0 .. Len(qs)
    BY <1>1, <1>4, <1>6
  <2>2. f[m - 1] = g[m - 1] /\ f[m - 1] \in Nat
    BY <2>1
  <2>3. f[m] = f[m - 1] + ps[m][field] /\ g[m] = g[m - 1] + ps[m][field]
    BY <1>2, <1>6, <2>1
  <2>4. ps[m][field] \in Nat
    BY <1>1, <2>1
  <2>5. f[m] = g[m] /\ f[m] \in Nat
    BY <2>2, <2>3, <2>4
  <2> QED BY <1>4, <2>5
<1> QED
  BY <1>5, <1>6

LEMMA SumIsSum ==
    ASSUME NEW ps, Len(ps) \in Nat, NEW field
    PROVE  \E f : IsSum(f, ps, field, Len(ps)) /\ SumOf(ps, field) = f[Len(ps)]
<1> DEFINE sum[n \in 0 .. Len(ps)] == IF n = 0 THEN 0 ELSE sum[n - 1] + ps[n][field]
<1>1. SumOf(ps, field) = sum[Len(ps)]
  BY DEF SumOf
<1>2. IsSum(sum, ps, field, Len(ps))
  BY SumExists DEF IsSum
<1> HIDE DEF sum
<1> QED
  BY <1>1, <1>2

LEMMA SumOfNone ==
    ASSUME NEW field
    PROVE  SumOf(<< >>, field) = 0
<1>1. PICK f : IsSum(f, << >>, field, Len(<< >>)) /\ SumOf(<< >>, field) = f[Len(<< >>)]
  BY SumIsSum
<1> QED
  BY <1>1 DEF IsSum

LEMMA SumOfAppend ==
    ASSUME NEW ps \in Seq(Report), NEW p \in Report, NEW field \in Counts
    PROVE  /\ SumOf(Append(ps, p), field) = SumOf(ps, field) + p[field]
           /\ SumOf(ps, field) \in Nat
<1> DEFINE qs == Append(ps, p)
<1>1. /\ qs \in Seq(Report) /\ Len(qs) = Len(ps) + 1 /\ Len(ps) \in Nat
      /\ \A k \in 1 .. Len(ps) : qs[k] = ps[k]
      /\ qs[Len(ps) + 1] = p
  OBVIOUS
<1> HIDE DEF qs
<1>2. PICK f : IsSum(f, ps, field, Len(ps)) /\ SumOf(ps, field) = f[Len(ps)]
  BY <1>1, SumIsSum
<1>3. PICK g : IsSum(g, qs, field, Len(qs)) /\ SumOf(qs, field) = g[Len(qs)]
  BY <1>1, SumIsSum
<1>4. f[Len(ps)] = g[Len(ps)] /\ f[Len(ps)] \in Nat
  BY <1>1, <1>2, <1>3, SumsAgree
<1>5. g[Len(ps) + 1] = g[Len(ps)] + p[field]
  BY <1>1, <1>3 DEF IsSum
<1> QED
  BY <1>1, <1>2, <1>3, <1>4, <1>5 DEF qs

-----------------------------------------------------------------------------
(* The inductive invariant.                                                *)

Searching == {"plan", "report", "structure", "record"}
Steps == Searching \cup {"idle", "finish", "carry", "carried"}
TaskStatus == {"Pending", "Leased", "Completed", "Blocked", "FailedPermanent"}

TypeOK ==
    /\ plan \in Nat /\ query \in Nat \ {0} /\ empty \in Nat /\ step \in Steps
    /\ task \in [status : TaskStatus, attempts : Nat]
    /\ claims \in Seq(Claim) /\ pages \in Seq(Report)
    /\ metrics \in [queries : Nat, discoveries : Nat, duplicates : Nat]
    /\ ~Reassessment => found \in Seq(Business)

\* Which executor is at work, and what it has seen of the store.
ExecutorOK ==
    /\ step = "idle" <=> task.status # "Leased"
    /\ step \in Searching \cup {"finish"} => ~Reassessment /\ progress = found
    /\ step \in {"carry", "carried"} => Reassessment
    /\ step = "carried" => progress = found /\ found # << >>

BooksOK == IsFiniteSet(Completed) /\ Completed \subseteq 1 .. plan /\ BooksAgree

\* The last n reports added nothing.
Idly(n) == n <= Len(pages) /\ \A i \in (Len(pages) - n + 1) .. Len(pages) : pages[i].unique = 0

\* The loop has behind it only queries that are recorded, and counts no report
\* as empty that added a business; it ends for a reason.
LoopOK ==
    /\ step \in Searching =>
         /\ query <= plan + 1 /\ 1 .. (query - 1) \subseteq Completed
         /\ empty < MaxConsecutiveEmptyReports /\ Idly(empty)
    /\ step \in Searching \ {"plan"} => query <= plan /\ query \notin Completed
    /\ step = "finish" =>
         \/ Len(found) >= Target
         \/ Completed = 1 .. plan
         \/ empty = MaxConsecutiveEmptyReports /\ Idly(empty)

IInv == TypeOK /\ ExecutorOK /\ BooksOK /\ LoopOK /\ CheckpointIsEarned

-----------------------------------------------------------------------------
(* Steps that write nothing to the store.                                  *)

LEMMA StoreKept ==
    ASSUME IInv, UNCHANGED <<plan, carried, store>>
    PROVE  /\ BooksOK' /\ Completed' = Completed /\ (Reassessment' <=> Reassessment)
           /\ \A n : Idly(n)' <=> Idly(n)
<1>1. /\ plan' = plan /\ carried' = carried /\ found' = found /\ pages' = pages
      /\ metrics' = metrics
  BY DEF store
<1>2. Completed' = Completed /\ (Reassessment' <=> Reassessment)
  BY <1>1 DEF Completed, Reassessment
<1>3. BooksAgree'
  BY <1>1, <1>2 DEF IInv, BooksOK, BooksAgree
<1>4. \A n : Idly(n)' <=> Idly(n)
  BY <1>1 DEF Idly
<1> QED
  BY <1>1, <1>2, <1>3, <1>4 DEF IInv, BooksOK

\* An attempt that ends without a checkpoint.
LEMMA StopsKeeps ==
    ASSUME IInv, UNCHANGED <<plan, carried, store>>, step' = "idle",
           task' \in [status : TaskStatus \ {"Leased", "Completed"}, attempts : Nat],
           query' \in Nat \ {0}, empty' \in Nat, claims' \in Seq(Claim)
    PROVE  IInv'
<1>1. /\ BooksOK' /\ Completed' = Completed /\ (Reassessment' <=> Reassessment)
      /\ pages' = pages /\ found' = found /\ metrics' = metrics /\ plan' = plan
  BY StoreKept DEF store
<1>2. task'.status \in TaskStatus \ {"Leased", "Completed"} /\ task' \in [status : TaskStatus, attempts : Nat]
  OBVIOUS
<1>3. TypeOK'
  BY <1>1, <1>2 DEF IInv, TypeOK, Steps, Report
<1>4. ExecutorOK' /\ LoopOK' /\ CheckpointIsEarned'
  BY <1>2 DEF ExecutorOK, LoopOK, Searching, CheckpointIsEarned
<1> QED
  BY <1>1, <1>3, <1>4 DEF IInv

LEMMA TaskFacts ==
    ASSUME TypeOK, NEW status \in TaskStatus
    PROVE  /\ [task EXCEPT !.status = status] \in [status : TaskStatus, attempts : Nat]
           /\ [task EXCEPT !.status = status].status = status
           /\ status \notin {"Leased", "Completed"} =>
                [task EXCEPT !.status = status]
                  \in [status : TaskStatus \ {"Leased", "Completed"}, attempts : Nat]
           /\ task.attempts \in Nat
BY DEF TypeOK

LEMMA NoClaims == << >> \in Seq(Claim)
OBVIOUS

LEMMA RuntimeFailsKeeps == IInv /\ RuntimeFails => IInv'
<1> SUFFICES ASSUME IInv, RuntimeFails PROVE IInv'
  OBVIOUS
<1>1. TypeOK
  BY DEF IInv
<1>2. PICK status \in {"Blocked", "Pending", "FailedPermanent"} :
        task' = [task EXCEPT !.status = status]
  BY DEF RuntimeFails
<1>3. task' \in [status : TaskStatus \ {"Leased", "Completed"}, attempts : Nat]
  BY <1>1, <1>2, TaskFacts DEF TaskStatus
<1>4. /\ UNCHANGED <<plan, carried, store>> /\ step' = "idle"
      /\ query' = query /\ empty' = empty /\ claims' = << >>
  BY DEF RuntimeFails
<1> QED
  BY <1>1, <1>3, <1>4, StopsKeeps, NoClaims DEF TypeOK

LEMMA StoreFailsKeeps == IInv /\ StoreFails => IInv'
<1> SUFFICES ASSUME IInv, StoreFails PROVE IInv'
  OBVIOUS
<1>1. TypeOK
  BY DEF IInv
<1>2. task' = [task EXCEPT !.status = "FailedPermanent"]
  BY DEF StoreFails
<1>3. task' \in [status : TaskStatus \ {"Leased", "Completed"}, attempts : Nat]
  BY <1>1, <1>2, TaskFacts DEF TaskStatus
<1>4. /\ UNCHANGED <<plan, carried, store>> /\ step' = "idle"
      /\ query' = query /\ empty' = empty /\ claims' = << >>
  BY DEF StoreFails
<1> QED
  BY <1>1, <1>3, <1>4, StopsKeeps, NoClaims DEF TypeOK

LEMMA WorkerDiesKeeps == IInv /\ WorkerDies => IInv'
<1> SUFFICES ASSUME IInv, WorkerDies PROVE IInv'
  OBVIOUS
<1>1. TypeOK
  BY DEF IInv
<1>2. PICK status \in {"Pending", "FailedPermanent"} :
        task' = [task EXCEPT !.status = status]
  BY DEF WorkerDies
<1>3. task' \in [status : TaskStatus \ {"Leased", "Completed"}, attempts : Nat]
  BY <1>1, <1>2, TaskFacts DEF TaskStatus
<1>4. /\ UNCHANGED <<plan, carried, store>> /\ step' = "idle"
      /\ query' = 1 /\ empty' = 0 /\ claims' = << >>
  BY DEF WorkerDies
<1> QED
  BY <1>3, <1>4, StopsKeeps, NoClaims

LEMMA ResumeKeeps == IInv /\ Resume => IInv'
<1> SUFFICES ASSUME IInv, Resume PROVE IInv'
  OBVIOUS
<1>1. TypeOK
  BY DEF IInv
<1>2. task.status = "Blocked" /\ task' = [task EXCEPT !.status = "Pending"]
  BY DEF Resume
<1>3. task' \in [status : TaskStatus \ {"Leased", "Completed"}, attempts : Nat]
  BY <1>1, <1>2, TaskFacts DEF TaskStatus
<1>4. /\ UNCHANGED <<plan, carried, store>> /\ step' = step
      /\ query' = query /\ empty' = empty /\ claims' = claims
  BY DEF Resume, executor
<1>5. step = "idle"
  BY <1>2 DEF IInv, ExecutorOK
<1> QED
  BY <1>1, <1>3, <1>4, <1>5, StopsKeeps DEF TypeOK

\* A step of the search that only moves it on.
LEMMA MovesKeep ==
    ASSUME IInv, UNCHANGED <<plan, carried, store>>, task'.status = "Leased",
           task' \in [status : TaskStatus, attempts : Nat],
           ~Reassessment, step' \in Searching \cup {"finish"}, progress' = found,
           query' \in Nat \ {0}, empty' \in Nat, claims' \in Seq(Claim), LoopOK'
    PROVE  IInv'
<1>1. /\ BooksOK' /\ (Reassessment' <=> Reassessment)
      /\ pages' = pages /\ found' = found /\ metrics' = metrics /\ plan' = plan
  BY StoreKept DEF store
<1>2. TypeOK'
  BY <1>1 DEF IInv, TypeOK, Steps, Report
<1>3. ExecutorOK' /\ CheckpointIsEarned'
  BY <1>1 DEF ExecutorOK, Searching, CheckpointIsEarned
<1> QED
  BY <1>1, <1>2, <1>3 DEF IInv

LEMMA BeginSearchKeeps == IInv /\ BeginSearch => IInv'
<1> SUFFICES ASSUME IInv, BeginSearch PROVE IInv'
  OBVIOUS
<1>1. /\ UNCHANGED <<plan, carried, store, claims>> /\ ~Reassessment /\ step' = "plan"
      /\ query' = 1 /\ progress' = found /\ empty' = 0
      /\ task' = [status |-> "Leased", attempts |-> task.attempts + 1]
  BY DEF BeginSearch
<1>2. task' \in [status : TaskStatus, attempts : Nat] /\ task'.status = "Leased"
  BY <1>1 DEF IInv, TypeOK, TaskStatus
<1>3. Idly(0)
  BY DEF IInv, TypeOK, Idly
<1>4. LoopOK'
  <2>1. Idly(0)'
    BY <1>1, <1>3, StoreKept
  <2>2. Idly(empty)'
    BY <1>1, <2>1 DEF Idly
  <2>3. 1 .. (query' - 1) = {}
    BY <1>1
  <2>4. plan' \in Nat
    BY <1>1 DEF IInv, TypeOK
  <2> QED BY <1>1, <2>2, <2>3, <2>4 DEF LoopOK, Searching, MaxConsecutiveEmptyReports
<1> QED
  BY <1>1, <1>2, <1>4, MovesKeep DEF IInv, TypeOK, Searching

\* A step that leaves the task, what was seen of the store and the count of
\* empty reports alone.
LEMMA OnwardKeeps ==
    ASSUME IInv, step \in Searching, step' \in Searching \cup {"finish"},
           UNCHANGED <<plan, carried, task, progress, empty, store>>,
           query' \in Nat \ {0}, claims' \in Seq(Claim), LoopOK'
    PROVE  IInv'
<1>1. task.status = "Leased" /\ ~Reassessment /\ progress = found
  BY DEF IInv, ExecutorOK, Searching
<1> QED
  BY <1>1, MovesKeep DEF IInv, TypeOK

LEMMA SkipCompletedKeeps == IInv /\ SkipCompleted => IInv'
<1> SUFFICES ASSUME IInv, SkipCompleted PROVE IInv'
  OBVIOUS
<1>1. /\ UNCHANGED <<plan, carried, task, step, progress, empty, claims, store>>
      /\ step = "plan" /\ query' = query + 1 /\ query \in Completed /\ query <= plan
  BY DEF SkipCompleted, WantsMore
<1>2. query \in Nat \ {0} /\ plan \in Nat
  BY DEF IInv, TypeOK
<1>3. Completed' = Completed /\ Idly(empty)' = Idly(empty)
  <2>1. \A n : Idly(n)' <=> Idly(n)
    BY <1>1, StoreKept
  <2> QED BY <1>1, <2>1, StoreKept DEF Idly, store
<1>4. 1 .. query \subseteq Completed
  <2>1. 1 .. (query - 1) \subseteq Completed
    BY <1>1 DEF IInv, LoopOK, Searching
  <2>2. \A k \in 1 .. query : k \in 1 .. (query - 1) \/ k = query
    BY <1>2
  <2> QED BY <1>1, <2>1, <2>2
<1>5. LoopOK'
  <2>1. query' - 1 = query /\ query' <= plan' + 1
    BY <1>1, <1>2
  <2>2. empty < MaxConsecutiveEmptyReports /\ Idly(empty)
    BY <1>1 DEF IInv, LoopOK, Searching
  <2> QED BY <1>1, <1>3, <1>4, <2>1, <2>2 DEF LoopOK, Searching
<1> QED
  BY <1>1, <1>2, <1>5, OnwardKeeps DEF IInv, TypeOK, Searching

\* Asking, and the two answers of the runtime, move the search within one query.
LEMMA WithinQueryKeeps ==
    ASSUME IInv, step \in Searching, step' \in Searching \ {"plan"}, query <= plan,
           query \notin Completed, claims' \in Seq(Claim),
           UNCHANGED <<plan, carried, task, query, progress, empty, store>>
    PROVE  IInv'
<1>1. Completed' = Completed /\ Idly(empty)' = Idly(empty)
  <2>1. \A n : Idly(n)' <=> Idly(n)
    BY StoreKept
  <2> QED BY <2>1, StoreKept DEF Idly, store
<1>2. LoopOK'
  BY <1>1 DEF IInv, LoopOK, Searching
<1> QED
  BY <1>2, OnwardKeeps DEF IInv, TypeOK

LEMMA AskKeeps == IInv /\ Ask => IInv'
BY WithinQueryKeeps DEF Ask, WantsMore, Searching, IInv, TypeOK

LEMMA ReportArrivesKeeps == IInv /\ ReportArrives => IInv'
BY WithinQueryKeeps DEF ReportArrives, Searching, IInv, TypeOK, LoopOK

LEMMA StructureArrivesKeeps == IInv /\ StructureArrives => IInv'
<1> SUFFICES ASSUME IInv, StructureArrives PROVE IInv'
  OBVIOUS
<1>1. claims' \in Seq(Claim)
  <2>1. PICK cs \in BoundedSeq(Claim, MaxClaims) : claims' = cs
    BY DEF StructureArrives
  <2>2. PICK n \in 0 .. MaxClaims : cs \in [1 .. n -> Claim]
    BY <2>1 DEF BoundedSeq, SeqOf
  <2> QED BY <2>1, <2>2
<1> QED
  BY <1>1, WithinQueryKeeps DEF StructureArrives, Searching, IInv, LoopOK

LEMMA LoopEndsKeeps == IInv /\ LoopEnds => IInv'
<1> SUFFICES ASSUME IInv, LoopEnds PROVE IInv'
  OBVIOUS
<1>1. /\ UNCHANGED <<plan, carried, task, query, progress, empty, claims, store>>
      /\ step = "plan" /\ step' = "finish" /\ ~(query <= plan /\ Len(progress) < Target)
  BY DEF LoopEnds, WantsMore
<1>2. query \in Nat \ {0} /\ plan \in Nat /\ Target \in Nat
  BY DiscoveryAssumption DEF IInv, TypeOK
<1>3. progress = found /\ found \in Seq(Business)
  BY <1>1 DEF IInv, ExecutorOK, TypeOK, Searching
<1>4. Len(found) >= Target \/ Completed = 1 .. plan
  <2>1. CASE query <= plan
    <3>1. Len(found) \in Nat
      BY <1>3
    <3> QED BY <1>1, <1>2, <1>3, <2>1, <3>1
  <2>2. CASE ~(query <= plan)
    <3>1. query <= plan + 1 /\ 1 .. (query - 1) \subseteq Completed /\ Completed \subseteq 1 .. plan
      BY <1>1 DEF IInv, LoopOK, Searching, BooksOK
    <3>2. query - 1 = plan
      BY <1>2, <2>2, <3>1
    <3> QED BY <3>1, <3>2
  <2> QED BY <2>1, <2>2
<1>5. LoopOK'
  <2>1. Completed' = Completed /\ found' = found /\ plan' = plan
    BY <1>1, StoreKept DEF store
  <2> QED BY <1>1, <1>4, <2>1 DEF LoopOK, Searching
<1> QED
  BY <1>1, <1>5, OnwardKeeps DEF IInv, TypeOK, Searching

-----------------------------------------------------------------------------
(* The report that is recorded.                                            *)

\* What the transaction stores: the run's businesses and one report more.
LEMMA RecordEffect ==
    ASSUME IInv, step = "record", RecordReport
    PROVE  \E p \in Report :
             /\ p.query = query /\ pages' = Append(pages, p)
             /\ found' \in Seq(Business) /\ Len(found') = Len(found) + p.unique
             /\ Len(found) \in Nat /\ p.unique <= Len(claims)
             /\ \A k \in 1 .. Len(found) : found'[k] = found[k]
             /\ IsInjective(found) => IsInjective(found')
             /\ metrics' = [queries |-> metrics.queries + 1, discoveries |-> Len(found'),
                            duplicates |-> metrics.duplicates + p.duplicates]
<1> DEFINE new == Recorded(found, claims)
           p == [query |-> query, returned |-> Len(claims),
                 unique |-> new.unique, duplicates |-> new.duplicates]
<1>1. query \notin Completed /\ query \in Nat /\ found \in Seq(Business) /\ claims \in Seq(Claim)
  BY DEF IInv, LoopOK, TypeOK, ExecutorOK, Searching
<1>2. Sound(new, found, Len(claims))
  BY <1>1, RecordedIsSound
<1>3. /\ found' = new.found /\ pages' = Append(pages, p)
      /\ metrics' = [queries |-> metrics.queries + 1, discoveries |-> Len(new.found),
                     duplicates |-> metrics.duplicates + new.duplicates]
  BY <1>1 DEF RecordReport
<1> HIDE DEF new
<1>4. new \in [found : Seq(Business), unique : Nat, duplicates : Nat]
  BY <1>2 DEF Sound, Accumulated
<1>5. p \in Report
  <2>1. Len(claims) \in Nat /\ new.unique \in Nat /\ new.duplicates \in Nat
    BY <1>1, <1>4
  <2> QED BY <1>1, <2>1 DEF Report
<1>6. Len(found) \in Nat
  BY <1>1
<1>7. /\ Len(new.found) = Len(found) + new.unique
      /\ \A k \in 1 .. Len(found) : new.found[k] = found[k]
      /\ IsInjective(found) => IsInjective(new.found)
  BY <1>2 DEF Sound
<1>8. p.unique <= Len(claims)
  <2>1. Len(claims) \in Nat
    BY <1>1
  <2> QED BY <1>2, <1>4, <2>1 DEF Sound
<1> QED
  BY <1>3, <1>4, <1>5, <1>6, <1>7, <1>8

LEMMA RecordKeeps == IInv /\ Record => IInv'
<1> SUFFICES ASSUME IInv, Record PROVE IInv'
  OBVIOUS
<1>1. /\ step = "record" /\ RecordReport /\ progress' = found' /\ claims' = << >>
      /\ AfterReport(Len(found') - Len(found))
      /\ UNCHANGED <<plan, carried, task, result, crashes>>
  BY DEF Record
<1>2. PICK p \in Report :
        /\ p.query = query /\ pages' = Append(pages, p)
        /\ found' \in Seq(Business) /\ Len(found') = Len(found) + p.unique
        /\ Len(found) \in Nat
        /\ IsInjective(found) => IsInjective(found')
        /\ metrics' = [queries |-> metrics.queries + 1, discoveries |-> Len(found'),
                       duplicates |-> metrics.duplicates + p.duplicates]
  BY <1>1, RecordEffect
<1>3. /\ query \in Nat \ {0} /\ plan \in Nat /\ empty \in Nat /\ pages \in Seq(Report)
      /\ task \in [status : TaskStatus, attempts : Nat] /\ task.status = "Leased"
      /\ metrics \in [queries : Nat, discoveries : Nat, duplicates : Nat] /\ ~Reassessment
  BY <1>1 DEF IInv, TypeOK, ExecutorOK, Searching
<1>4. /\ query <= plan /\ query \notin Completed /\ 1 .. (query - 1) \subseteq Completed
      /\ empty < MaxConsecutiveEmptyReports /\ Idly(empty)
  BY <1>1 DEF IInv, LoopOK, Searching
<1>5. p.unique \in Nat /\ p.duplicates \in Nat
  BY <1>2 DEF Report
<1>6. /\ pages' \in Seq(Report) /\ Len(pages') = Len(pages) + 1 /\ Len(pages) \in Nat
      /\ DOMAIN pages = 1 .. Len(pages) /\ DOMAIN pages' = 1 .. (Len(pages) + 1)
      /\ \A k \in DOMAIN pages : pages'[k] = pages[k]
      /\ pages'[Len(pages) + 1] = p
  BY <1>2, <1>3, Appended
<1>7. Completed' = Completed \cup {query}
  <2>1. \A q : q \in Completed' <=> \E k \in 1 .. (Len(pages) + 1) : q = pages'[k].query
    BY <1>6 DEF Completed
  <2>2. \A k \in 1 .. (Len(pages) + 1) : k \in 1 .. Len(pages) \/ k = Len(pages) + 1
    BY <1>6
  <2>3. \A k \in 1 .. Len(pages) : k \in 1 .. (Len(pages) + 1)
    BY <1>6
  <2>4. \A q : q \in Completed <=> \E k \in 1 .. Len(pages) : q = pages[k].query
    BY <1>6 DEF Completed
  <2>5. Len(pages) + 1 \in 1 .. (Len(pages) + 1)
    BY <1>6
  <2> QED BY <1>2, <1>6, <2>1, <2>2, <2>3, <2>4, <2>5
<1>8. BooksOK'
  <2>1. IsFiniteSet(Completed) /\ Completed \subseteq 1 .. plan /\ BooksAgree
    BY DEF IInv, BooksOK
  <2>2. /\ IsInjective(found) /\ Cardinality(Completed) = Len(pages)
        /\ metrics.queries = Len(pages)
        /\ metrics.discoveries = Len(found) /\ SumOf(pages, "unique") = Len(found)
        /\ metrics.duplicates = SumOf(pages, "duplicates")
    BY <1>3, <2>1 DEF BooksAgree
  <2>3. IsFiniteSet(Completed') /\ Cardinality(Completed') = Len(pages) + 1
    BY <1>4, <1>7, <2>1, <2>2, FS_AddElement
  <2>4. Completed' \subseteq 1 .. plan
    BY <1>3, <1>4, <1>7, <2>1
  <2>5. SumOf(pages', "unique") = SumOf(pages, "unique") + p.unique
    BY <1>2, <1>3, SumOfAppend DEF Counts
  <2>6. SumOf(pages', "duplicates") = SumOf(pages, "duplicates") + p.duplicates
    BY <1>2, <1>3, SumOfAppend DEF Counts
  <2>7. BooksAgree'
    <3>1. metrics'.queries = metrics.queries + 1 /\ metrics'.discoveries = Len(found')
          /\ metrics'.duplicates = metrics.duplicates + p.duplicates
      BY <1>2
    <3> QED BY <1>2, <1>6, <2>2, <2>3, <2>5, <2>6, <3>1 DEF BooksAgree
  <2> QED BY <1>1, <2>3, <2>4, <2>7 DEF BooksOK
<1>9. /\ empty' = IF p.unique = 0 THEN empty + 1 ELSE 0
      /\ step' = IF empty' >= MaxConsecutiveEmptyReports THEN "finish" ELSE "plan"
      /\ query' = IF empty' >= MaxConsecutiveEmptyReports THEN query ELSE query + 1
  <2>1. Len(found') - Len(found) = p.unique
    BY <1>2, <1>5
  <2>2. AfterReport(p.unique)
    BY <1>1, <2>1
  <2> QED BY <2>2 DEF AfterReport
<1>10. empty' \in Nat /\ empty' <= MaxConsecutiveEmptyReports
  BY <1>3, <1>4, <1>9 DEF MaxConsecutiveEmptyReports
<1>11. Idly(empty)'
  <2>1. CASE p.unique = 0
    <3>1. empty' = empty + 1
      BY <1>9, <2>1
    <3>2. \A k \in (Len(pages) + 1 - (empty + 1) + 1) .. (Len(pages) + 1) : pages'[k].unique = 0
      <4>1. empty <= Len(pages)
            /\ \A k \in (Len(pages) - empty + 1) .. Len(pages) : pages[k].unique = 0
        BY <1>4 DEF Idly
      <4>2. ASSUME NEW k \in (Len(pages) + 1 - (empty + 1) + 1) .. (Len(pages) + 1)
            PROVE  \/ k = Len(pages) + 1
                   \/ k \in (Len(pages) - empty + 1) .. Len(pages) /\ k \in 1 .. Len(pages)
        BY <1>3, <1>6, <4>1
      <4> QED BY <1>6, <2>1, <4>1, <4>2
    <3>3. empty + 1 <= Len(pages) + 1
      BY <1>3, <1>4, <1>6 DEF Idly
    <3> QED BY <1>6, <3>1, <3>2, <3>3 DEF Idly
  <2>2. CASE p.unique # 0
    <3>1. empty' = 0
      BY <1>9, <2>2
    <3> QED BY <1>6, <3>1 DEF Idly
  <2> QED BY <2>1, <2>2
<1>12. LoopOK'
  <2>1. CASE empty' >= MaxConsecutiveEmptyReports
    <3>1. step' = "finish" /\ empty' = MaxConsecutiveEmptyReports
      BY <1>9, <1>10, <2>1 DEF MaxConsecutiveEmptyReports
    <3>2. MaxConsecutiveEmptyReports' = MaxConsecutiveEmptyReports
      BY DEF MaxConsecutiveEmptyReports
    <3> QED BY <1>11, <3>1, <3>2 DEF LoopOK, Searching
  <2>2. CASE ~(empty' >= MaxConsecutiveEmptyReports)
    <3>1. step' = "plan" /\ query' = query + 1 /\ empty' < MaxConsecutiveEmptyReports
      BY <1>9, <1>10, <2>2 DEF MaxConsecutiveEmptyReports
    <3>2. 1 .. (query' - 1) \subseteq Completed' /\ query' <= plan' + 1
      <4>1. query' - 1 = query
        BY <1>3, <3>1
      <4>2. \A k \in 1 .. query : k \in 1 .. (query - 1) \/ k = query
        BY <1>3
      <4> QED BY <1>1, <1>3, <1>4, <1>7, <3>1, <4>1, <4>2
    <3>3. MaxConsecutiveEmptyReports' = MaxConsecutiveEmptyReports
      BY DEF MaxConsecutiveEmptyReports
    <3> QED BY <1>11, <3>1, <3>2, <3>3 DEF LoopOK, Searching
  <2> QED BY <2>1, <2>2
<1>13. Reassessment' = Reassessment /\ task' = task
  BY <1>1 DEF Reassessment
<1>14. step' \in {"finish", "plan"} /\ query' \in Nat \ {0}
  BY <1>3, <1>9
<1>15. TypeOK'
  <2>1. metrics' \in [queries : Nat, discoveries : Nat, duplicates : Nat]
    <3>1. Len(found') \in Nat
      BY <1>2, <1>5
    <3>2. metrics.queries \in Nat /\ metrics.duplicates \in Nat
      BY <1>3
    <3>3. metrics.queries + 1 \in Nat /\ metrics.duplicates + p.duplicates \in Nat
      BY <1>5, <3>2
    <3> QED BY <1>2, <3>1, <3>3
  <2> QED BY <1>1, <1>2, <1>3, <1>6, <1>10, <1>14, <2>1, NoClaims DEF TypeOK, Steps, Searching
<1>16. ExecutorOK' /\ CheckpointIsEarned'
  BY <1>1, <1>3, <1>13, <1>14 DEF ExecutorOK, CheckpointIsEarned, Searching
<1> QED
  BY <1>8, <1>12, <1>15, <1>16 DEF IInv

-----------------------------------------------------------------------------
(* The checkpoint of a search, and a reassessment.                         *)

LEMMA FinishSearchKeeps == IInv /\ FinishSearch => IInv'
<1> SUFFICES ASSUME IInv, FinishSearch PROVE IInv'
  OBVIOUS
<1>1. /\ step = "finish" /\ step' = "idle" /\ task' = [task EXCEPT !.status = "Completed"]
      /\ UNCHANGED <<plan, carried, query, progress, empty, claims, store>>
      /\ result' = [tasks |-> progress,
                    completion |-> IF progress = << >> THEN "Search Exhausted" ELSE "none",
                    exhausted |-> Len(progress) < Target,
                    repeated |-> empty >= MaxConsecutiveEmptyReports]
  BY DEF FinishSearch
<1>2. /\ BooksOK' /\ Completed' = Completed /\ (Reassessment' <=> Reassessment)
      /\ found' = found /\ pages' = pages /\ metrics' = metrics /\ plan' = plan
  BY <1>1, StoreKept DEF store
<1>3. task' \in [status : TaskStatus, attempts : Nat] /\ task'.status = "Completed"
  BY <1>1, TaskFacts DEF IInv, TaskStatus
<1>4. progress = found /\ pages \in Seq(Report)
  BY <1>1 DEF IInv, ExecutorOK, TypeOK
<1>5. TypeOK'
  BY <1>1, <1>2, <1>3 DEF IInv, TypeOK, Steps, Report
<1>6. ExecutorOK' /\ LoopOK'
  BY <1>1, <1>3 DEF ExecutorOK, LoopOK, Searching
<1>7. \/ Len(found) >= Target
      \/ Completed = 1 .. plan
      \/ /\ empty >= MaxConsecutiveEmptyReports
         /\ \A i \in {Len(pages) - 1, Len(pages)} : pages[i].unique = 0
  <2>1. CASE empty = MaxConsecutiveEmptyReports /\ Idly(empty)
    <3>1. Len(pages) \in Nat
      BY <1>4
    <3>2. empty = 2 /\ empty >= MaxConsecutiveEmptyReports
      BY <2>1 DEF MaxConsecutiveEmptyReports
    <3>3. \A i \in (Len(pages) - 2 + 1) .. Len(pages) : pages[i].unique = 0
      BY <2>1, <3>2 DEF Idly
    <3>4. \A i \in {Len(pages) - 1, Len(pages)} : i \in (Len(pages) - 2 + 1) .. Len(pages)
      BY <3>1
    <3> QED BY <3>2, <3>3, <3>4
  <2> QED BY <1>1, <2>1 DEF IInv, LoopOK
<1>8. /\ result'.tasks = found /\ result'.repeated = (empty >= MaxConsecutiveEmptyReports)
      /\ result'.completion = IF found = << >> THEN "Search Exhausted" ELSE "none"
  BY <1>1, <1>4
<1>9. CheckpointIsEarned'
  BY <1>2, <1>7, <1>8 DEF CheckpointIsEarned
<1> QED
  BY <1>2, <1>5, <1>6, <1>9 DEF IInv

LEMMA BeginSeedKeeps == IInv /\ BeginSeed => IInv'
<1> SUFFICES ASSUME IInv, BeginSeed PROVE IInv'
  OBVIOUS
<1>1. /\ Reassessment /\ step' = "carry"
      /\ task' = [status |-> "Leased", attempts |-> task.attempts + 1]
      /\ UNCHANGED <<plan, carried, query, progress, empty, claims, store, result>>
  BY DEF BeginSeed
<1>2. /\ BooksOK' /\ (Reassessment' <=> Reassessment)
      /\ found' = found /\ pages' = pages /\ metrics' = metrics /\ plan' = plan
  BY <1>1, StoreKept DEF store
<1>3. task' \in [status : TaskStatus, attempts : Nat] /\ task'.status = "Leased"
  BY <1>1 DEF IInv, TypeOK, TaskStatus
<1>4. TypeOK'
  BY <1>1, <1>2, <1>3 DEF IInv, TypeOK, Steps, Report
<1>5. ExecutorOK' /\ LoopOK' /\ CheckpointIsEarned'
  BY <1>1, <1>2, <1>3 DEF ExecutorOK, LoopOK, Searching, CheckpointIsEarned
<1> QED
  BY <1>2, <1>4, <1>5 DEF IInv

LEMMA CarryForwardKeeps == \A S : IInv /\ CarryForward(S) => IInv'
<1> SUFFICES ASSUME NEW S, IInv, CarryForward(S) PROVE IInv'
  OBVIOUS
<1> DEFINE wanted == SelectSeq(carried, LAMBDA b : b \in S)
<1>1. /\ step = "carry"
      /\ UNCHANGED <<plan, carried, query, empty, claims, pages, metrics, result, crashes>>
  BY DEF CarryForward
<1>2. \/ /\ task' = [task EXCEPT !.status = "FailedPermanent"] /\ step' = "idle"
         /\ UNCHANGED <<found, progress>>
      \/ /\ wanted # << >> /\ found' = wanted /\ progress' = wanted
         /\ step' = "carried" /\ task' = task
  BY DEF CarryForward
<1> HIDE DEF wanted
<1>3. CASE task' = [task EXCEPT !.status = "FailedPermanent"] /\ step' = "idle"
           /\ UNCHANGED <<found, progress>>
  <2>1. task' \in [status : TaskStatus \ {"Leased", "Completed"}, attempts : Nat]
    BY <1>3, TaskFacts DEF IInv, TaskStatus
  <2> QED BY <1>1, <1>3, <2>1, StopsKeeps DEF IInv, TypeOK, store
<1>4. CASE wanted # << >> /\ found' = wanted /\ progress' = wanted
           /\ step' = "carried" /\ task' = task
  <2>1. Reassessment /\ Reassessment' /\ task.status = "Leased"
    BY <1>1 DEF IInv, ExecutorOK, Reassessment
  <2>2. TypeOK'
    BY <1>1, <1>4, <2>1 DEF IInv, TypeOK, Steps, Report
  <2>3. BooksOK'
    <3>1. Completed' = Completed
      BY <1>1 DEF Completed
    <3> QED BY <1>1, <2>1, <3>1 DEF IInv, BooksOK, BooksAgree
  <2>4. ExecutorOK' /\ LoopOK' /\ CheckpointIsEarned'
    BY <1>1, <1>4, <2>1 DEF ExecutorOK, LoopOK, Searching, CheckpointIsEarned
  <2> QED BY <2>2, <2>3, <2>4 DEF IInv
<1> QED
  BY <1>2, <1>3, <1>4

LEMMA FinishSeedKeeps == IInv /\ FinishSeed => IInv'
<1> SUFFICES ASSUME IInv, FinishSeed PROVE IInv'
  OBVIOUS
<1>1. /\ step = "carried" /\ step' = "idle" /\ task' = [task EXCEPT !.status = "Completed"]
      /\ UNCHANGED <<plan, carried, query, progress, empty, claims, store>>
      /\ result' = [NoResult EXCEPT !.tasks = progress]
  BY DEF FinishSeed
<1>2. /\ BooksOK' /\ (Reassessment' <=> Reassessment)
      /\ found' = found /\ pages' = pages /\ metrics' = metrics /\ plan' = plan
  BY <1>1, StoreKept DEF store
<1>3. task' \in [status : TaskStatus, attempts : Nat] /\ task'.status = "Completed"
  BY <1>1, TaskFacts DEF IInv, TaskStatus
<1>4. progress = found /\ found # << >> /\ Reassessment
  BY <1>1 DEF IInv, ExecutorOK
<1>5. TypeOK'
  BY <1>1, <1>2, <1>3 DEF IInv, TypeOK, Steps, Report
<1>6. ExecutorOK' /\ LoopOK'
  BY <1>1, <1>3 DEF ExecutorOK, LoopOK, Searching
<1>7. result'.tasks = found /\ result'.completion = "none"
  BY <1>1, <1>4 DEF NoResult
<1>8. CheckpointIsEarned'
  BY <1>2, <1>4, <1>7 DEF CheckpointIsEarned
<1> QED
  BY <1>2, <1>5, <1>6, <1>8 DEF IInv

-----------------------------------------------------------------------------
(* The invariant, and what it says.                                        *)

LEMMA InitHolds == Init => IInv
<1> SUFFICES ASSUME Init PROVE IInv
  OBVIOUS
<1>1. /\ task = [status |-> "Pending", attempts |-> 0] /\ step = "idle" /\ query = 1
      /\ progress = << >> /\ empty = 0 /\ claims = << >> /\ found = << >> /\ pages = << >>
      /\ metrics = [queries |-> 0, discoveries |-> 0, duplicates |-> 0]
  BY DEF Init
<1>2. plan \in Nat
  <2>1. PICK mode \in DOMAIN Limit : plan \in 1 .. Limit[mode]
    BY DEF Init
  <2> QED BY <2>1, DiscoveryAssumption
<1>3. TypeOK
  <2>1. << >> \in Seq(Claim) /\ << >> \in Seq(Report) /\ << >> \in Seq(Business)
    OBVIOUS
  <2> QED BY <1>1, <1>2, <2>1 DEF TypeOK, Steps, TaskStatus
<1>4. BooksOK
  <2>1. Completed = {} /\ Len(pages) = 0 /\ Len(found) = 0
    BY <1>1 DEF Completed
  <2>2. IsInjective(found)
    BY <1>1 DEF IsInjective
  <2>3. SumOf(pages, "unique") = 0 /\ SumOf(pages, "duplicates") = 0
    BY <1>1, SumOfNone
  <2>4. IsFiniteSet({}) /\ Cardinality({}) = 0
    BY FS_EmptySet
  <2> QED BY <1>1, <2>1, <2>2, <2>3, <2>4 DEF BooksOK, BooksAgree
<1>5. ExecutorOK /\ LoopOK /\ CheckpointIsEarned
  BY <1>1 DEF ExecutorOK, LoopOK, Searching, CheckpointIsEarned
<1> QED
  BY <1>3, <1>4, <1>5 DEF IInv

LEMMA NextKeeps == IInv /\ [Next]_vars => IInv'
<1> SUFFICES ASSUME IInv, [Next]_vars PROVE IInv'
  OBVIOUS
<1>1. CASE UNCHANGED vars
  <2>1. /\ UNCHANGED <<plan, carried, store, task, step, query, progress, empty, claims, result>>
        /\ found' = found /\ pages' = pages /\ metrics' = metrics /\ plan' = plan
    BY <1>1 DEF vars, executor, store
  <2>2. BooksOK' /\ Completed' = Completed /\ (Reassessment' <=> Reassessment)
    BY <2>1, StoreKept
  <2>3. Idly(empty)' <=> Idly(empty)
    BY <2>1 DEF Idly
  <2>4. TypeOK' /\ ExecutorOK' /\ CheckpointIsEarned'
    BY <2>1, <2>2 DEF IInv, TypeOK, ExecutorOK, CheckpointIsEarned
  <2>5. LoopOK'
    BY <2>1, <2>2, <2>3 DEF IInv, LoopOK
  <2> QED BY <2>2, <2>4, <2>5 DEF IInv
<1>2. CASE Step
  BY <1>2, BeginSearchKeeps, SkipCompletedKeeps, AskKeeps, ReportArrivesKeeps,
     StructureArrivesKeeps, RecordKeeps, LoopEndsKeeps, FinishSearchKeeps, BeginSeedKeeps,
     CarryForwardKeeps, FinishSeedKeeps, RuntimeFailsKeeps DEF Step
<1> QED
  BY <1>1, <1>2, StoreFailsKeeps, ResumeKeeps, WorkerDiesKeeps DEF Next

\* The inductive invariant: what the executor has seen of the store, which
\* queries its loop has behind it, and the books.
THEOREM DiscoveryInvariant == Spec => []IInv
BY InitHolds, NextKeeps, PTL DEF Spec

\* No business and no query is recorded twice, and metrics and reports count the
\* run's businesses, for any sequence of reports, crashes and retries: the
\* transaction writes them together (sqlite-discovery-repository.ts).
THEOREM BooksStayTrue == Spec => []BooksAgree
<1>1. IInv => BooksAgree
  BY DEF IInv, BooksOK
<1> QED BY <1>1, DiscoveryInvariant, PTL

\* A checkpoint opens every business of the run, whatever attempt recorded it,
\* and a search ends short of its target only for a reason
\* (discover-businesses.ts, seed-reassessment.ts).
THEOREM CheckpointsAreEarned == Spec => []CheckpointIsEarned
<1>1. IInv => CheckpointIsEarned
  BY DEF IInv
<1> QED BY <1>1, DiscoveryInvariant, PTL

\* No subscription search is bought for a query that is recorded, or for a run
\* that has its target: what the loop last saw is what the store holds.
THEOREM NoSearchIsBoughtInVain == Spec => SearchesAreNeeded
<1> DEFINE Needed == step' = "report" /\ step # "report" =>
                       query \notin Completed /\ Len(found) < Target
<1>1. IInv /\ [Next]_vars => [Needed]_vars
  <2> SUFFICES ASSUME IInv, Next, step' = "report", step # "report"
               PROVE  query \notin Completed /\ Len(found) < Target
    OBVIOUS
  <2>1. Ask
    BY DEF Next, Step, BeginSearch, SkipCompleted, ReportArrives, StructureArrives, Record,
           AfterReport, LoopEnds, FinishSearch, BeginSeed, CarryForward, FinishSeed,
           RuntimeFails, StoreFails, Resume, WorkerDies, executor
  <2>2. progress = found
    BY <2>1 DEF Ask, IInv, ExecutorOK, Searching
  <2> QED BY <2>1, <2>2 DEF Ask, WantsMore
<1> QED BY <1>1, DiscoveryInvariant, PTL DEF Spec, SearchesAreNeeded

-----------------------------------------------------------------------------
(* What is recorded stays, and how much it can be.                         *)

\* The store changes only by a report, or by the one carry of a reassessment.
LEMMA StoreChanges ==
    ASSUME IInv, [Next]_vars
    PROVE  \/ UNCHANGED store
           \/ Record
           \/ Reassessment /\ found = << >> /\ pages' = pages
BY DEF Next, Step, BeginSearch, SkipCompleted, Ask, ReportArrives, StructureArrives, LoopEnds,
       FinishSearch, BeginSeed, CarryForward, FinishSeed, RuntimeFails, StoreFails, Resume,
       WorkerDies, vars, store, executor, IInv, ExecutorOK

\* A recorded business keeps its rank and a recorded report stays as it is,
\* whatever later reports, attempts and crashes do: the checkpoint and the pages
\* a run shows speak of the same rows (sqlite-discovery-repository.ts:63-269).
THEOREM RecordsStay ==
    Spec => [][/\ \A k \in DOMAIN found : k \in DOMAIN found' /\ found'[k] = found[k]
               /\ \A k \in DOMAIN pages : k \in DOMAIN pages' /\ pages'[k] = pages[k]]_vars
<1> DEFINE Stay == /\ \A k \in DOMAIN found : k \in DOMAIN found' /\ found'[k] = found[k]
                   /\ \A k \in DOMAIN pages : k \in DOMAIN pages' /\ pages'[k] = pages[k]
<1>1. ASSUME IInv, [Next]_vars PROVE Stay
  <2>1. CASE UNCHANGED store
    BY <2>1 DEF store
  <2>2. CASE Record
    <3>1. step = "record" /\ RecordReport
      BY <2>2 DEF Record
    <3>2. PICK p \in Report :
            /\ pages' = Append(pages, p)
            /\ found' \in Seq(Business) /\ Len(found') = Len(found) + p.unique
            /\ Len(found) \in Nat /\ \A k \in 1 .. Len(found) : found'[k] = found[k]
      BY <1>1, <3>1, RecordEffect
    <3>3. found \in Seq(Business) /\ pages \in Seq(Report) /\ p.unique \in Nat
      BY <1>1, <3>1, <3>2 DEF IInv, TypeOK, ExecutorOK, Searching, Report
    <3>4. DOMAIN found = 1 .. Len(found) /\ DOMAIN found' = 1 .. Len(found')
      BY <3>2, <3>3
    <3>5. \A k \in DOMAIN pages : k \in DOMAIN pages' /\ pages'[k] = pages[k]
      BY <3>2, <3>3, Appended
    <3> QED BY <3>2, <3>3, <3>4, <3>5
  <2>3. CASE Reassessment /\ found = << >> /\ pages' = pages
    BY <2>3
  <2> QED BY <1>1, <2>1, <2>2, <2>3, StoreChanges
<1>2. IInv /\ [Next]_vars => [Stay]_vars
  BY <1>1
<1> QED BY <1>2, DiscoveryInvariant, PTL DEF Spec

\* A search buys no more reports than it has queries, and overshoots its target
\* by less than one report.
SearchIsBounded ==
    ~Reassessment => Len(pages) <= plan /\ Len(found) < Target + MaxClaims

\* Beside IInv: a report is bought below the target, and holds what was claimed.
RoomOK ==
    ~Reassessment =>
        /\ Len(found) < Target + MaxClaims
        /\ step \in Searching \ {"plan"} => Len(found) < Target
        /\ step = "record" => Len(claims) <= MaxClaims

\* The steps that record nothing.
LEMMA RoomStays ==
    ASSUME IInv, RoomOK, [Next]_vars, UNCHANGED store
    PROVE  RoomOK'
<1>1. found' = found /\ (Reassessment' <=> Reassessment)
  BY DEF store, Next, Step, BeginSearch, SkipCompleted, Ask, ReportArrives, StructureArrives,
         Record, LoopEnds, FinishSearch, BeginSeed, CarryForward, FinishSeed, RuntimeFails,
         StoreFails, Resume, WorkerDies, vars, Reassessment
<1>2. CASE step' \in {"report", "structure"} \/ (step' = "record" /\ step = "record")
  <2>1. CASE step \in Searching \ {"plan"}
    <3>1. step' = "record" => claims' = claims
      BY <1>2, <2>1 DEF Next, Step, BeginSearch, SkipCompleted, Ask, ReportArrives,
             StructureArrives, Record, AfterReport, LoopEnds, FinishSearch, BeginSeed,
             CarryForward, FinishSeed, RuntimeFails, StoreFails, Resume, WorkerDies, vars, executor
    <3> QED BY <1>1, <1>2, <2>1, <3>1 DEF RoomOK, Searching
  <2>2. CASE step \notin Searching \ {"plan"}
    <3>1. Ask
      BY <1>2, <2>2 DEF Next, Step, BeginSearch, SkipCompleted, ReportArrives,
             StructureArrives, Record, AfterReport, LoopEnds, FinishSearch, BeginSeed,
             CarryForward, FinishSeed, RuntimeFails, StoreFails, Resume, WorkerDies, vars,
             executor, Searching
    <3>2. Len(found) < Target /\ step' = "report"
      BY <3>1 DEF Ask, WantsMore, IInv, ExecutorOK, Searching
    <3> QED BY <1>1, <3>2 DEF RoomOK, Searching
  <2> QED BY <2>1, <2>2
<1>3. CASE step' = "record" /\ step # "record"
  <2>1. StructureArrives
    BY <1>3 DEF Next, Step, BeginSearch, SkipCompleted, Ask, ReportArrives, Record,
           AfterReport, LoopEnds, FinishSearch, BeginSeed, CarryForward, FinishSeed,
           RuntimeFails, StoreFails, Resume, WorkerDies, vars, executor
  <2>2. PICK cs \in BoundedSeq(Claim, MaxClaims) : claims' = cs
    BY <2>1 DEF StructureArrives
  <2>3. PICK m \in 0..MaxClaims : claims' \in [1..m -> Claim]
    BY <2>2 DEF BoundedSeq, SeqOf
  <2>4. Len(claims') = m
    BY <2>3, DiscoveryAssumption
  <2>5. step = "structure" /\ Len(claims') <= MaxClaims
    BY <2>1, <2>3, <2>4, DiscoveryAssumption DEF StructureArrives
  <2> QED BY <1>1, <1>3, <2>5 DEF RoomOK, Searching
<1>4. CASE step' \notin {"report", "structure", "record"}
  BY <1>1, <1>4 DEF RoomOK, Searching
<1> QED BY <1>2, <1>3, <1>4

\* A report fills less room than the schema lets it name.
LEMMA RoomAfterRecord ==
    ASSUME IInv, RoomOK, Record
    PROVE  RoomOK'
<1>1. step = "record" /\ RecordReport /\ ~Reassessment /\ step' \in {"plan", "finish"}
  BY DEF Record, AfterReport, IInv, ExecutorOK, Searching
<1>2. PICK p \in Report : /\ Len(found') = Len(found) + p.unique /\ Len(found) \in Nat
                          /\ p.unique <= Len(claims)
  BY <1>1, RecordEffect
<1>3. Len(claims) \in Nat /\ Len(claims) <= MaxClaims /\ Len(found) < Target
      /\ p.unique \in Nat /\ MaxClaims \in Nat /\ Target \in Nat
  BY <1>1, <1>2, DiscoveryAssumption DEF RoomOK, Searching, IInv, TypeOK, Report
<1>4. Len(found') < Target + MaxClaims
  BY <1>2, <1>3
<1> QED BY <1>1, <1>4 DEF RoomOK, Searching

\* However often a search is interrupted and taken up again, it asks for at most
\* one report per query of its plan, and stops within one report of its target
\* (discover-businesses.ts:63-106, the schema's limit on a report).
THEOREM SearchesAreBounded == Spec => []SearchIsBounded
<1>1. Init => RoomOK
  <2>1. Init => Len(found) = 0 /\ step = "idle"
    BY EmptySeq DEF Init
  <2> QED BY <2>1, DiscoveryAssumption DEF RoomOK, Searching
<1>2. IInv /\ RoomOK /\ [Next]_vars => RoomOK'
  <2> SUFFICES ASSUME IInv, RoomOK, [Next]_vars PROVE RoomOK'
    OBVIOUS
  <2>1. CASE UNCHANGED store
    BY <2>1, RoomStays
  <2>2. CASE Record
    BY <2>2, RoomAfterRecord
  <2>3. CASE Reassessment /\ ~UNCHANGED store /\ ~Record
    <3>1. carried' = carried
      BY <2>3 DEF Next, Step, BeginSearch, SkipCompleted, Ask, ReportArrives, StructureArrives,
             LoopEnds, FinishSearch, BeginSeed, CarryForward, FinishSeed, RuntimeFails,
             StoreFails, Resume, WorkerDies, vars
    <3> QED BY <2>3, <3>1 DEF RoomOK, Reassessment
  <2> QED BY <2>1, <2>2, <2>3, StoreChanges
<1>3. IInv /\ RoomOK => SearchIsBounded
  <2> SUFFICES ASSUME IInv, RoomOK, ~Reassessment PROVE Len(pages) <= plan
    BY DEF SearchIsBounded, RoomOK
  <2>1. /\ IsFiniteSet(Completed) /\ Completed \subseteq 1 .. plan
        /\ Cardinality(Completed) = Len(pages) /\ plan \in Nat
    BY DEF IInv, TypeOK, BooksOK, BooksAgree
  <2>2. IsFiniteSet(1 .. plan) /\ Cardinality(1 .. plan) = plan
    <3>1. 1 \in Int /\ plan \in Int
      BY <2>1
    <3>2. /\ IsFiniteSet(1 .. plan)
          /\ Cardinality(1 .. plan) = IF 1 > plan THEN 0 ELSE plan - 1 + 1
      BY <3>1, FS_Interval
    <3> QED BY <2>1, <3>2
  <2>3. Cardinality(Completed) <= Cardinality(1 .. plan)
    BY <2>1, <2>2, FS_Subset
  <2> QED BY <2>1, <2>2, <2>3
<1> QED BY <1>1, <1>2, <1>3, DiscoveryInvariant, PTL DEF Spec

-----------------------------------------------------------------------------
(* The runtime calls a discovery makes: their inductive invariant.         *)

Early == {"idle", "directory", "schema", "spawn"}
Late == {"release", "done"}
Results == {"none", "answered", "Transient", "Blocked", "Infrastructure", "lost", "defect",
            "output-limit", "timeout", "interrupted"}

Call == [pc : Early \cup {"running"} \cup Late, runtime : Runtimes, kind : Kinds,
         result : Results]
Tree == [child : {"none", "running", "killed"} \cup ExitCodes,
         helpers : SUBSET Helpers, input : {"written", "writing"}, output : 0 .. OutputLimit]

CallTypeOK ==
    /\ worker \in {"up", "down"}
    /\ call \in [Calls -> Call] /\ tree \in [Calls -> Tree]
    /\ directory \subseteq Calls

\* Nothing runs for a call whose process has not been started.
NothingRunsEarly == \A c \in Calls : call[c].pc \in Early => ~Running(c)

\* A call is lost with its worker, and is not taken up again.
LostIsOver == \A c \in Calls : call[c].result = "lost" => call[c].pc = "done"

CallInv == CallTypeOK /\ NothingRunsEarly /\ LostIsOver /\ NoProcessIsLeft

\* What one call's invariant says of its record and its tree.
Busy(t) == t.child = "running" \/ t.helpers # {}
Pipes(t) == t.child = "running" \/ "pipes" \in t.helpers
Leaves(k, t) ==
    \/ k.result = "lost"
    \/ /\ t.child \in ExitCodes
       /\ k.result \in {"answered", "Transient", "Blocked", "defect"}
       /\ Pipes(t) => k.runtime = "opencode" /\ k.kind # "probe"

CallOK(k, t) ==
    /\ k \in Call /\ t \in Tree
    /\ k.pc \in Early => ~Busy(t)
    /\ k.result = "lost" => k.pc = "done"
    /\ k.pc \in Late /\ Busy(t) => Leaves(k, t)

LEMMA CallByCall ==
    CallInv <=> /\ worker \in {"up", "down"} /\ directory \subseteq Calls
             /\ call = [c \in Calls |-> call[c]] /\ tree = [c \in Calls |-> tree[c]]
             /\ \A c \in Calls : CallOK(call[c], tree[c])
<1>1. ASSUME CallInv
      PROVE  /\ worker \in {"up", "down"} /\ directory \subseteq Calls
             /\ call = [c \in Calls |-> call[c]] /\ tree = [c \in Calls |-> tree[c]]
             /\ \A c \in Calls : CallOK(call[c], tree[c])
  <2>1. ASSUME NEW c \in Calls PROVE CallOK(call[c], tree[c])
    BY <1>1 DEF CallInv, CallTypeOK, NothingRunsEarly, LostIsOver, NoProcessIsLeft, CallOK, Late, Busy,
                Pipes, Leaves, Running, HoldsPipes, SettlesOnExit
  <2> QED BY <1>1, <2>1 DEF CallInv, CallTypeOK
<1>2. ASSUME worker \in {"up", "down"}, directory \subseteq Calls,
             call = [c \in Calls |-> call[c]], tree = [c \in Calls |-> tree[c]],
             \A c \in Calls : CallOK(call[c], tree[c])
      PROVE  CallInv
  <2>1. CallTypeOK
    <3>1. \A c \in Calls : call[c] \in Call /\ tree[c] \in Tree
      BY <1>2 DEF CallOK
    <3> QED BY <1>2, <3>1 DEF CallTypeOK
  <2>2. NothingRunsEarly
    BY <1>2 DEF NothingRunsEarly, CallOK, Busy, Running
  <2>3. NoProcessIsLeft
    BY <1>2 DEF NoProcessIsLeft, CallOK, Late, Busy, Pipes, Leaves, Running, HoldsPipes,
       SettlesOnExit
  <2>4. LostIsOver
    BY <1>2 DEF LostIsOver, CallOK
  <2> QED BY <2>1, <2>2, <2>3, <2>4 DEF CallInv
<1> QED BY <1>1, <1>2

-----------------------------------------------------------------------------
(* One call's steps.                                                       *)

\* A call goes on, or settles.
LEMMA GoesOn ==
    ASSUME NEW k, NEW t, CallOK(k, t)
    PROVE  /\ \A pc \in Early : k.pc \in Early => CallOK([k EXCEPT !.pc = pc], t)
           /\ \A outcome \in Results \ {"lost"} : ~Busy(t) =>
                CallOK([k EXCEPT !.pc = "release", !.result = outcome], t)
<1>1. ASSUME NEW pc \in Early, k.pc \in Early PROVE CallOK([k EXCEPT !.pc = pc], t)
  BY <1>1 DEF CallOK, Call, Early, Late, Leaves
<1>2. ASSUME NEW outcome \in Results \ {"lost"}, ~Busy(t)
      PROVE  CallOK([k EXCEPT !.pc = "release", !.result = outcome], t)
  BY <1>2 DEF CallOK, Call, Early, Late
<1> QED BY <1>1, <1>2

\* Of a killed tree nothing runs; the runtime's own steps start nothing anew.
LEMMA TreesChange ==
    ASSUME NEW k, NEW t, CallOK(k, t)
    PROVE  /\ KillTree(t) \in Tree /\ ~Busy(KillTree(t))
           /\ t.child = "running" => CallOK(k, [t EXCEPT !.input = "written"])
           /\ \A helper \in Helpers : Busy(t) /\ (helper = "pipes" => Pipes(t)) =>
                CallOK(k, [t EXCEPT !.helpers = @ \cup {helper}])
           /\ \A code \in ExitCodes : t.child = "running" =>
                CallOK(k, [t EXCEPT !.child = code])
           /\ \A helper \in t.helpers : CallOK(k, [t EXCEPT !.helpers = @ \ {helper}])
           /\ CallOK(k, [t EXCEPT !.input = "written"])
           /\ t.output < OutputLimit => CallOK(k, [t EXCEPT !.output = @ + 1])
           /\ CallOK(k, [t EXCEPT !.output = 0])
<1> USE RuntimeCallAssumption DEF CallOK, Tree, Busy, Pipes, Leaves, Helpers, ExitCodes
<1>1. KillTree(t) \in Tree /\ ~Busy(KillTree(t))
  BY DEF KillTree
<1>2. CallOK(k, [t EXCEPT !.input = "written"])
  OBVIOUS
<1>3. ASSUME NEW helper \in Helpers, Busy(t), helper = "pipes" => Pipes(t)
      PROVE  CallOK(k, [t EXCEPT !.helpers = @ \cup {helper}])
  BY <1>3
<1>4. ASSUME NEW code \in ExitCodes, t.child = "running"
      PROVE  CallOK(k, [t EXCEPT !.child = code])
  BY <1>4
<1>5. ASSUME NEW helper \in t.helpers
      PROVE  CallOK(k, [t EXCEPT !.helpers = @ \ {helper}])
  BY <1>5
<1>6. t.output < OutputLimit => CallOK(k, [t EXCEPT !.output = @ + 1])
  OBVIOUS
<1>7. CallOK(k, [t EXCEPT !.output = 0])
  OBVIOUS
<1> QED BY <1>1, <1>2, <1>3, <1>4, <1>5, <1>6, <1>7

-----------------------------------------------------------------------------
(* Every step of a call keeps the invariant.                               *)

\* A step that leaves every call well keeps it.
LEMMA CallsTogether ==
    ASSUME worker' \in {"up", "down"}, directory' \subseteq Calls,
           call' = [c \in Calls |-> call'[c]], tree' = [c \in Calls |-> tree'[c]],
           \A c \in Calls : CallOK(call'[c], tree'[c])
    PROVE  CallInv'
<1>1. CallTypeOK'
  <2>1. \A c \in Calls : call'[c] \in Call /\ tree'[c] \in Tree
    BY DEF CallOK
  <2>2. call' \in [Calls -> Call] /\ tree' \in [Calls -> Tree]
    BY <2>1
  <2> QED BY <2>2 DEF CallTypeOK
<1>2. NothingRunsEarly'
  BY DEF NothingRunsEarly, CallOK, Busy, Running
<1>3. NoProcessIsLeft'
  BY DEF NoProcessIsLeft, CallOK, Late, Busy, Pipes, Leaves, Running, HoldsPipes,
       SettlesOnExit
<1>4. LostIsOver'
  BY DEF LostIsOver, CallOK
<1> QED BY <1>1, <1>2, <1>3, <1>4 DEF CallInv

\* A step of one call keeps it, if it leaves that call's record and tree well.
LEMMA OneCall ==
    ASSUME CallInv, NEW c \in Calls, NEW k, NEW t, CallOK(k, t),
           call' = [call EXCEPT ![c] = k], tree' = [tree EXCEPT ![c] = t],
           worker' \in {"up", "down"}, directory' \subseteq Calls
    PROVE  CallInv'
<1>1. \A b \in Calls : CallOK(call[b], tree[b])
  BY CallByCall
<1>2. call \in [Calls -> Call] /\ tree \in [Calls -> Tree] /\ k \in Call /\ t \in Tree
  BY DEF CallInv, CallTypeOK, CallOK
<1>3. \A b \in Calls : /\ call'[b] = IF b = c THEN k ELSE call[b]
                       /\ tree'[b] = IF b = c THEN t ELSE tree[b]
  BY <1>2
<1>4. \A b \in Calls : CallOK(call'[b], tree'[b])
  BY <1>1, <1>3
<1>5. call' = [b \in Calls |-> call'[b]] /\ tree' = [b \in Calls |-> tree'[b]]
  BY <1>2
<1> QED BY <1>4, <1>5, CallsTogether

LEMMA Same ==
    ASSUME CallInv, NEW c \in Calls
    PROVE  /\ CallOK(call[c], tree[c])
           /\ call = [call EXCEPT ![c] = call[c]] /\ tree = [tree EXCEPT ![c] = tree[c]]
           /\ \A pc : Goes(c, pc) <=> call' = [call EXCEPT ![c] = [call[c] EXCEPT !.pc = pc]]
           /\ \A outcome : Settles(c, outcome) <=>
                call' = [call EXCEPT ![c] = [call[c] EXCEPT !.pc = "release", !.result = outcome]]
           /\ worker \in {"up", "down"} /\ directory \subseteq Calls
BY CallByCall DEF CallInv, CallTypeOK, Goes, Settles

\* Before the process.
LEMMA BeginKeeps == ASSUME CallInv, NEW c \in Calls, Begin(c) PROVE CallInv'
<1>1. PICK asked \in Asked, present \in BOOLEAN :
        call' = [call EXCEPT ![c] =
           [pc |-> IF ~present THEN "done"
                   ELSE IF asked[2] = "probe" THEN "spawn" ELSE "directory",
            runtime |-> asked[1], kind |-> asked[2],
            result |-> IF present THEN "none" ELSE "Blocked"]]
  BY DEF Begin
<1> DEFINE k == [pc |-> IF ~present THEN "done"
                        ELSE IF asked[2] = "probe" THEN "spawn" ELSE "directory",
                 runtime |-> asked[1], kind |-> asked[2],
                 result |-> IF present THEN "none" ELSE "Blocked"]
<1>2. CallOK(call[c], tree[c]) /\ ~Busy(tree[c])
  BY Same DEF Begin, At, CallOK, Early
<1>3. asked[1] \in Runtimes /\ asked[2] \in Kinds
  BY RuntimeCallAssumption
<1>4. k \in Call /\ k.result # "lost"
  BY <1>3 DEF Call, Early, Late, Results
<1> HIDE DEF k
<1>5. CallOK(k, tree[c])
  BY <1>2, <1>4 DEF CallOK
<1>6. call' = [call EXCEPT ![c] = k]
  BY <1>1 DEF k
<1> QED BY <1>5, <1>6, Same, OneCall DEF Begin

LEMMA PreparingKeeps ==
    ASSUME CallInv, NEW c \in Calls, MakeDirectory(c) \/ WriteSchema(c) PROVE CallInv'
<1>1. /\ CallOK(call[c], tree[c]) /\ ~Busy(tree[c]) /\ call[c].pc \in Early
  BY Same DEF MakeDirectory, WriteSchema, At, CallOK, Early
<1>2. \/ \E pc \in Early : Goes(c, pc)
      \/ Settles(c, "Blocked")
  BY DEF MakeDirectory, WriteSchema, Early
<1>3. \E k : CallOK(k, tree[c]) /\ call' = [call EXCEPT ![c] = k]
  <2>1. CASE \E pc \in Early : Goes(c, pc)
    <3>1. PICK pc \in Early : Goes(c, pc)
      BY <2>1
    <3>2. CallOK([call[c] EXCEPT !.pc = pc], tree[c])
      BY <1>1, GoesOn
    <3> DEFINE k == [call[c] EXCEPT !.pc = pc]
    <3>3. call' = [call EXCEPT ![c] = k] /\ CallOK(k, tree[c])
      BY <3>1, <3>2, Same
    <3> HIDE DEF k
    <3> QED BY <3>3
  <2>2. CASE Settles(c, "Blocked")
    <3>1. CallOK([call[c] EXCEPT !.pc = "release", !.result = "Blocked"], tree[c])
      BY <1>1, GoesOn DEF Results
    <3> DEFINE k == [call[c] EXCEPT !.pc = "release", !.result = "Blocked"]
    <3>2. call' = [call EXCEPT ![c] = k] /\ CallOK(k, tree[c])
      BY <2>2, <3>1, Same
    <3> HIDE DEF k
    <3> QED BY <3>2
  <2> QED BY <1>2, <2>1, <2>2
<1>4. tree' = tree /\ worker' = worker /\ directory' \subseteq Calls
  BY Same DEF MakeDirectory, WriteSchema
<1> QED BY <1>3, <1>4, Same, OneCall

LEMMA SpawnKeeps == ASSUME CallInv, NEW c \in Calls, Spawn(c) PROVE CallInv'
<1>1. CallOK(call[c], tree[c]) /\ ~Busy(tree[c])
  BY Same DEF Spawn, At, CallOK, Early
<1>2. CASE (Settles(c, "Infrastructure") \/ Settles(c, "Blocked")) /\ UNCHANGED tree
  <2>1. \A outcome \in {"Infrastructure", "Blocked"} :
          CallOK([call[c] EXCEPT !.pc = "release", !.result = outcome], tree[c])
    BY <1>1, GoesOn DEF Results
  <2>2. \E k : CallOK(k, tree[c]) /\ call' = [call EXCEPT ![c] = k]
    <3>1. PICK outcome \in {"Infrastructure", "Blocked"} : Settles(c, outcome)
      BY <1>2
    <3> DEFINE k == [call[c] EXCEPT !.pc = "release", !.result = outcome]
    <3>2. call' = [call EXCEPT ![c] = k] /\ CallOK(k, tree[c])
      BY <2>1, <3>1, Same
    <3> HIDE DEF k
    <3> QED BY <3>2
  <2> QED BY <1>2, <2>2, Same, OneCall DEF Spawn
<1>3. CASE /\ Goes(c, "running")
           /\ tree' = [tree EXCEPT ![c] = [NoTree EXCEPT !.child = "running",
                !.input = IF call[c].kind = "probe" THEN "written" ELSE "writing"]]
  <2> DEFINE k == [call[c] EXCEPT !.pc = "running"]
             t == [NoTree EXCEPT !.child = "running",
                     !.input = IF call[c].kind = "probe" THEN "written" ELSE "writing"]
  <2>1. t \in Tree
    <3>1. 0 \in 0 .. OutputLimit
      BY RuntimeCallAssumption
    <3> QED BY <3>1 DEF Tree, NoTree
  <2>2. k \in Call /\ k.pc = "running" /\ k.result # "lost"
    BY <1>1, <1>3 DEF CallOK, Call, Spawn, At
  <2>3. call' = [call EXCEPT ![c] = k] /\ tree' = [tree EXCEPT ![c] = t]
    BY <1>3, Same
  <2> HIDE DEF k, t
  <2>4. CallOK(k, t)
    BY <2>1, <2>2 DEF CallOK, Early, Late
  <2> QED BY <2>3, <2>4, Same, OneCall DEF Spawn
<1> QED BY <1>2, <1>3 DEF Spawn

\* The runtime's own program.
LEMMA EnvironmentKeeps == ASSUME CallInv, NEW c \in Calls, Environment(c) PROVE CallInv'
<1>1. CallOK(call[c], tree[c]) /\ tree \in [Calls -> Tree]
  BY Same DEF CallInv, CallTypeOK
<1>2. \E t : CallOK(call[c], t) /\ tree' = [tree EXCEPT ![c] = t]
  <2>1. CASE ReadsInput(c)
    <3>1. tree' = [tree EXCEPT ![c] = [tree[c] EXCEPT !.input = "written"]]
      BY <1>1, <2>1 DEF ReadsInput
    <3> QED BY <1>1, <3>1, TreesChange
  <2>2. CASE StartsHelper(c)
    <3>1. PICK helper \in Helpers \ tree[c].helpers :
            /\ tree' = [tree EXCEPT ![c] = [tree[c] EXCEPT !.helpers = @ \cup {helper}]]
            /\ Busy(tree[c]) /\ (helper = "pipes" => Pipes(tree[c]))
      BY <1>1, <2>2 DEF StartsHelper, Running, HoldsPipes, Busy, Pipes
    <3> QED BY <1>1, <3>1, TreesChange
  <2>3. CASE ChildExits(c)
    <3>1. PICK code \in ExitCodes : tree' = [tree EXCEPT ![c].child = code]
      BY <2>3 DEF ChildExits
    <3>2. /\ tree' = [tree EXCEPT ![c] = [tree[c] EXCEPT !.child = code]]
          /\ tree[c].child = "running"
      BY <1>1, <2>3, <3>1 DEF ChildExits
    <3> QED BY <1>1, <3>2, TreesChange
  <2>4. CASE HelperExits(c)
    <3>1. PICK helper \in tree[c].helpers :
            tree' = [tree EXCEPT ![c] = [tree[c] EXCEPT !.helpers = @ \ {helper}]]
      BY <1>1, <2>4 DEF HelperExits
    <3> QED BY <1>1, <3>1, TreesChange
  <2> QED BY <2>1, <2>2, <2>3, <2>4 DEF Environment
<1>3. call' = call /\ worker' = worker /\ directory' = directory
  BY DEF Environment, ReadsInput, StartsHelper, ChildExits, HelperExits
<1> QED BY <1>2, <1>3, Same, OneCall

\* What ends a call.
LEMMA CutShortKeeps ==
    ASSUME CallInv, NEW c \in Calls,
           tree' = [tree EXCEPT ![c] = KillTree(tree[c])],
           \E outcome \in Results \ {"lost"} : Settles(c, outcome),
           worker' = worker, directory' = directory
    PROVE  CallInv'
<1>1. PICK outcome \in Results \ {"lost"} : Settles(c, outcome)
  OBVIOUS
<1> DEFINE t == KillTree(tree[c])
           k == [call[c] EXCEPT !.pc = "release", !.result = outcome]
<1>2. CallOK(call[c], tree[c])
  BY Same
<1>3. t \in Tree /\ ~Busy(t)
  BY <1>2, TreesChange
<1> HIDE DEF t
<1>4. CallOK(k, t)
  BY <1>2, <1>3 DEF CallOK, Call, Late
<1>5. call' = [call EXCEPT ![c] = k] /\ tree' = [tree EXCEPT ![c] = t]
  BY <1>1, Same DEF t
<1> HIDE DEF k
<1> QED BY <1>4, <1>5, Same, OneCall

LEMMA BoundsKeep ==
    ASSUME CallInv, NEW c \in Calls, Output(c) \/ TimesOut(c) \/ Interrupted(c)
    PROVE  CallInv'
<1>1. CASE TimesOut(c) \/ Interrupted(c)
  BY <1>1, CutShortKeeps DEF TimesOut, Interrupted, Results
<1>2. CASE Output(c) /\ tree[c].output = OutputLimit
  BY <1>2, CutShortKeeps DEF Output, Results
<1>3. CASE Output(c) /\ tree[c].output # OutputLimit
  <2> DEFINE t == [tree[c] EXCEPT !.output = @ + 1]
  <2>1. CallOK(call[c], tree[c]) /\ tree \in [Calls -> Tree]
    BY Same DEF CallInv, CallTypeOK
  <2>2. tree[c].output < OutputLimit
    BY <1>3, <2>1, RuntimeCallAssumption DEF Tree
  <2>3. CallOK(call[c], t)
    BY <2>1, <2>2, TreesChange
  <2>4. tree' = [tree EXCEPT ![c] = t] /\ call' = call /\ worker' = worker
        /\ directory' = directory
    BY <1>3, <2>1 DEF Output
  <2> HIDE DEF t
  <2> QED BY <2>3, <2>4, Same, OneCall
<1> QED BY <1>1, <1>2, <1>3

LEMMA SettlingKeeps ==
    ASSUME CallInv, NEW c \in Calls, Closes(c) \/ SettlesAfterExit(c)
    PROVE  CallInv'
<1>1. PICK verdict \in {"answered", "Transient", "Blocked"} : Settles(c, verdict)
  BY DEF Closes, SettlesAfterExit, Verdicts
<1> DEFINE k == [call[c] EXCEPT !.pc = "release", !.result = verdict]
<1>2. /\ CallOK(call[c], tree[c]) /\ tree[c].child \in ExitCodes
      /\ ~Pipes(tree[c]) \/ SettlesOnExit(c)
  BY Same DEF Closes, SettlesAfterExit, HoldsPipes, Pipes
<1>3. /\ k \in Call /\ k.pc = "release" /\ k.result = verdict
      /\ k.runtime = call[c].runtime /\ k.kind = call[c].kind
  BY <1>2 DEF CallOK, Call, Late, Results
<1> HIDE DEF k
<1>4. CallOK(k, tree[c])
  BY <1>2, <1>3 DEF CallOK, Busy, Leaves, SettlesOnExit, Early
<1>5. call' = [call EXCEPT ![c] = k] /\ tree' = tree /\ worker' = worker
      /\ directory' = directory
  BY <1>1, Same DEF k, Closes, SettlesAfterExit
<1> QED BY <1>4, <1>5, Same, OneCall

LEMMA ReleaseKeeps == ASSUME CallInv, NEW c \in Calls, Release(c) PROVE CallInv'
<1>1. PICK read \in BOOLEAN, removed \in BOOLEAN :
         /\ directory' = IF removed THEN directory \ {c} ELSE directory
         /\ call' = [call EXCEPT ![c].pc = "done", ![c].result =
              IF ~removed /\ c \in directory /\ InsistsOnRemoval(c) THEN "defect"
              ELSE IF @ = "answered" /\ ~read THEN "Transient"
              ELSE @]
  BY DEF Release, Removes
<1> DEFINE outcome == IF ~removed /\ c \in directory /\ InsistsOnRemoval(c) THEN "defect"
                     ELSE IF call[c].result = "answered" /\ ~read THEN "Transient"
                     ELSE call[c].result
           k == [call[c] EXCEPT !.pc = "done", !.result = outcome]
           t == [tree[c] EXCEPT !.output = 0]
<1>2. /\ CallOK(call[c], tree[c]) /\ CallOK(call[c], t) /\ call[c].pc = "release"
      /\ call \in [Calls -> Call] /\ tree \in [Calls -> Tree]
  BY Same, TreesChange DEF Release, At, CallInv, CallTypeOK
<1>3. call' = [call EXCEPT ![c] = k] /\ tree' = [tree EXCEPT ![c] = t]
  BY <1>1, <1>2 DEF Release
<1>4. /\ outcome \in Results \ {"lost"}
      /\ outcome \in {call[c].result, "Transient", "defect"}
      /\ t.child = tree[c].child /\ t.helpers = tree[c].helpers
  BY <1>2 DEF CallOK, Call, Tree, Results
<1> HIDE DEF outcome, t
<1>5. /\ k \in Call /\ k.pc = "done" /\ k.result = outcome
      /\ k.runtime = call[c].runtime /\ k.kind = call[c].kind
  BY <1>2, <1>4 DEF CallOK, Call, Late
<1> HIDE DEF k
<1>6. CallOK(k, t)
  <2>1. Busy(t) => Leaves(call[c], t)
    BY <1>2 DEF CallOK, Late
  <2>2. Leaves(call[c], t) => Leaves(k, t)
    BY <1>2, <1>4, <1>5 DEF Leaves, CallOK
  <2> QED BY <1>2, <1>4, <1>5, <2>1, <2>2 DEF CallOK, Early
<1> QED BY <1>1, <1>3, <1>6, Same, OneCall DEF Release

\* The worker dies, and its processes live on without a call.
LEMMA InputBreaksKeeps == ASSUME CallInv, NEW c \in Calls, InputBreaks(c) PROVE CallInv'
<1> DEFINE lost(b) == [call[b] EXCEPT !.pc = "done", !.result = "lost"]
<1>1. \A b \in Calls : CallOK(call[b], tree[b])
  BY CallByCall
<1>2. \A b \in Calls :
        call'[b] = IF call[b].pc \in {"idle", "done"} THEN call[b] ELSE lost(b)
  BY DEF InputBreaks
<1>3. \A b \in Calls : CallOK(lost(b), tree[b])
  BY <1>1 DEF CallOK, Call, Early, Late, Leaves, Results
<1> HIDE DEF lost
<1>4. \A b \in Calls : CallOK(call'[b], tree'[b])
  BY <1>1, <1>2, <1>3 DEF InputBreaks
<1>5. call' = [b \in Calls |-> call'[b]] /\ tree' = [b \in Calls |-> tree'[b]]
  BY CallByCall DEF InputBreaks
<1>6. worker' \in {"up", "down"} /\ directory' \subseteq Calls
  BY DEF InputBreaks, CallInv, CallTypeOK
<1> QED BY <1>4, <1>5, <1>6, CallsTogether

LEMMA RestartKeeps == ASSUME CallInv, Restart PROVE CallInv'
<1>1. \A b \in Calls : CallOK(call[b], tree[b])
  BY CallByCall
<1>2. \A b \in Calls : tree'[b] = [tree[b] EXCEPT !.input = "written"] /\ call'[b] = call[b]
  BY DEF Restart
<1>3. \A b \in Calls : CallOK(call'[b], tree'[b])
  <2>1. ASSUME NEW b \in Calls PROVE CallOK(call[b], [tree[b] EXCEPT !.input = "written"])
    BY <1>1, TreesChange
  <2> QED BY <1>2, <2>1
<1>4. call' = [b \in Calls |-> call'[b]] /\ tree' = [b \in Calls |-> tree'[b]]
  BY CallByCall DEF Restart
<1>5. worker' \in {"up", "down"} /\ directory' \subseteq Calls
  BY DEF Restart, CallInv, CallTypeOK
<1> QED BY <1>3, <1>4, <1>5, CallsTogether

LEMMA CallInitHolds == CallInit => CallInv
<1> SUFFICES ASSUME CallInit PROVE CallInv
  OBVIOUS
<1>1. CallTypeOK
  <2>1. [pc |-> "idle", runtime |-> "codex", kind |-> "probe", result |-> "none"] \in Call
    BY DEF Call, Early, Results, Runtimes, Kinds
  <2>2. NoTree \in Tree
    BY RuntimeCallAssumption DEF NoTree, Tree
  <2> QED BY <2>1, <2>2 DEF CallInit, CallTypeOK
<1>2. NothingRunsEarly
  BY DEF CallInit, NothingRunsEarly, Running, NoTree
<1>3. LostIsOver
  BY DEF CallInit, LostIsOver
<1>4. NoProcessIsLeft
  BY DEF CallInit, NoProcessIsLeft
<1> QED BY <1>1, <1>2, <1>3, <1>4 DEF CallInv

LEMMA CallStepKeeps == CallInv /\ [CallNext]_callVars => CallInv'
<1> SUFFICES ASSUME CallInv, [CallNext]_callVars PROVE CallInv'
  OBVIOUS
<1>1. ASSUME NEW c \in Calls,
             \/ Begin(c) \/ MakeDirectory(c) \/ WriteSchema(c) \/ Spawn(c) \/ Environment(c)
      PROVE  CallInv'
  BY <1>1, BeginKeeps, PreparingKeeps, SpawnKeeps, EnvironmentKeeps
<1>2. ASSUME NEW c \in Calls,
             \/ Output(c) \/ TimesOut(c) \/ Interrupted(c) \/ Closes(c) \/ SettlesAfterExit(c)
             \/ Release(c) \/ InputBreaks(c)
      PROVE  CallInv'
  BY <1>2, BoundsKeep, SettlingKeeps, ReleaseKeeps, InputBreaksKeeps
<1>3. CASE Restart
  BY <1>3, RestartKeeps
<1>4. CASE UNCHANGED callVars
  BY <1>4 DEF callVars, CallInv, CallTypeOK, NothingRunsEarly, LostIsOver, NoProcessIsLeft, Running,
              HoldsPipes, SettlesOnExit
<1>5. CASE Finished
  BY <1>4, <1>5 DEF Finished
<1> QED BY <1>1, <1>2, <1>3, <1>4, <1>5 DEF CallNext, Awaited

-----------------------------------------------------------------------------
(* Theorems about the calls.                                               *)

\* The inductive invariant: types, what runs for a call by where it is, and that
\* a lost call is over.
THEOREM CallInvariant == CallSpec => []CallInv
BY CallInitHolds, CallStepKeeps, PTL DEF CallSpec

\* A timeout, an output limit or an interruption ends the child and its helpers:
\* the kill is for the process group (runtime-process.ts). Only a call that its
\* child's exit has ended leaves helpers, and those that hold the child's pipes
\* only where the call does not wait for them; the worker's own death is apart.
THEOREM NoProcessStays == CallSpec => []NoProcessIsLeft
<1>1. CallInv => NoProcessIsLeft
  BY DEF CallInv
<1> QED BY <1>1, CallInvariant, PTL
=============================================================================
