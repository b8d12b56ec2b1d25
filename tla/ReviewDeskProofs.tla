-------------------------- MODULE ReviewDeskProofs --------------------------
(***************************************************************************)
(* Proofs about the review desk: the queue, the export and the worth of a  *)
(* score agree, notes travel from score to score, and what the page shows  *)
(* after a change is what was saved.                                       *)
(*                                                                         *)
(* Two of the four parts of the inductive invariant are about the page's   *)
(* copies and requests. A reading that is under way is of what was stored  *)
(* once, and may be older than the last change only where the page has a   *)
(* copy already; a change of a review needs a copy of it; and what is read *)
(* after a change is not older than that change, whatever was written      *)
(* since: it is read afresh, or for the first time, in which case nothing  *)
(* was changed that it could have missed.                                  *)
(***************************************************************************)
EXTENDS ReviewDesk, WellFoundedInduction, TLAPS

AnyStatus == Statuses \cup {"Unreviewed"}
AnyNotes == Businesses \cup {NoNotes}
AnyReview == [status : AnyStatus, notes : AnyNotes, at : Nat]
AnyScore == [business : Businesses, earned : BOOLEAN, qualified : BOOLEAN, kept : BOOLEAN]

\* Every score has a place for its review, and is one the model allows.
StoreOK ==
    /\ scores \in Seq(AnyScore) /\ reviews \in Seq(AnyReview \cup {NoReview})
    /\ Len(reviews) = Len(scores) /\ Len(scores) <= MaxScores

\* What a score is worth is what it earned, unless its business is suppressed.
WorthOK ==
    \A s \in Kept :
        scores[s].qualified <=> scores[s].earned /\ scores[s].business \notin suppressed

\* What is being read of a review that is stored as w: no answer yet, or not
\* found; or it as it was once.
NoAnswer == {Idle, Sent, Unread}
Past(r, w) == r \in NoAnswer \/ (r.at <= w.at /\ (r.at = w.at => r = w))

\* It is not older than the review of that time.
Late(r, from) == r \in NoAnswer \/ r.at >= from

\* Nothing is read of a score that was not written, and the first reading of a
\* score is fresh.
CopyOK(s) ==
    /\ Past(reading[s], ReviewOf(s))
    /\ cache[s] = Unread => Late(reading[s], ReviewOf(s).at)

CopiesOK ==
    /\ cache \in [1 .. MaxScores -> AnyReview \cup {Unread}]
    /\ reading \in [1 .. MaxScores -> AnyReview \cup NoAnswer]
    /\ \A s \in 1 .. MaxScores \ DOMAIN scores : reading[s] = Idle
    /\ \A s \in DOMAIN scores : CopyOK(s)

\* A request is about what was scored, one that changes a review is about a
\* score the page has a copy of, and what is read after a change is not older
\* than that change.
RequestSound(i) ==
    /\ Asked(i) => request[i].score \in DOMAIN scores
    /\ request[i].kind \in {"decision", "notes"} =>
         /\ request[i].review.status \in AnyStatus /\ request[i].review.notes \in AnyNotes
         /\ cache[request[i].score] # Unread
    /\ request[i].kind = "reading" =>
         /\ request[i].of \in DOMAIN scores /\ request[i].from \in Nat
         /\ request[i].from <= ReviewOf(request[i].of).at
         /\ Late(reading[request[i].of], request[i].from)

\* What is listed was scored.
RequestOK ==
    /\ \A c \in list : c.score \in DOMAIN scores
    /\ request = [i \in 1 .. MaxRequests |-> request[i]]
    /\ \A i \in 1 .. MaxRequests : RequestSound(i)

IInv == StoreOK /\ WorthOK /\ CopiesOK /\ RequestOK

-----------------------------------------------------------------------------
(* Numbers, sequences and records.                                         *)

\* A bounded set of numbers that is not empty has a greatest member: the
\* last score of a business is one.
LEMMA Greatest ==
    ASSUME NEW N \in Nat, NEW T \in SUBSET (1 .. N), T # {}
    PROVE  \E x \in T : \A y \in T : y <= x
<1> DEFINE D == {N - t : t \in T}
<1>1. D \subseteq Nat /\ D # {}
  <2>1. PICK t \in T : TRUE
    OBVIOUS
  <2>2. N - t \in D
    OBVIOUS
  <2>3. \A u \in T : N - u \in Nat
    OBVIOUS
  <2> QED BY <2>2, <2>3
<1>2. PICK d \in D : \A e \in D : ~(<<e, d>> \in OpToRel(<, Nat))
  <2> HIDE DEF D
  <2> QED BY <1>1, NatLessThanWellFounded, WFMin
<1>3. \A e \in D : ~(e < d)
  <2>1. \A e \in D : <<e, d>> \in Nat \X Nat
    BY <1>1
  <2> HIDE DEF D
  <2> QED BY <1>2, <2>1 DEF OpToRel
<1>4. PICK x \in T : d = N - x
  OBVIOUS
<1>5. \A y \in T : ~(N - y < N - x)
  BY <1>3, <1>4
<1> QED
  BY <1>5

LEMMA Appended ==
    ASSUME NEW S, NEW seq \in Seq(S), NEW e \in S
    PROVE  /\ Append(seq, e) \in Seq(S) /\ Len(Append(seq, e)) = Len(seq) + 1
           /\ Len(seq) \in Nat /\ DOMAIN seq = 1 .. Len(seq)
           /\ DOMAIN Append(seq, e) = 1 .. (Len(seq) + 1)
           /\ \A k \in DOMAIN seq : Append(seq, e)[k] = seq[k]
           /\ Append(seq, e)[Len(seq) + 1] = e
  OBVIOUS

\* A sequence built place by place from another one.
LEMMA Rebuilt ==
    ASSUME NEW S, NEW seq \in Seq(S), NEW new,
           new = [k \in DOMAIN seq |-> new[k]], \A k \in DOMAIN seq : new[k] \in S
    PROVE  new \in Seq(S) /\ Len(new) = Len(seq) /\ DOMAIN new = DOMAIN seq
<1>1. Len(seq) \in Nat /\ DOMAIN seq = 1 .. Len(seq)
  OBVIOUS
<1>2. new \in [1 .. Len(seq) -> S]
  BY <1>1
<1> QED
  BY <1>1, <1>2

LEMMA TheReviews ==
    /\ Unreviewed \in AnyReview /\ Unreviewed.notes = NoNotes /\ NoReview.notes = NoNotes
    /\ Unreviewed.at = 0 /\ NoReview.at = 0
    /\ \A notes \in AnyNotes :
         /\ [Unreviewed EXCEPT !.notes = notes] \in AnyReview
         /\ [Unreviewed EXCEPT !.notes = notes].notes = notes
    /\ \A r \in AnyReview : r.notes \in AnyNotes /\ r.status \in AnyStatus /\ r.at \in Nat
    /\ \A status \in AnyStatus, notes \in AnyNotes, at \in Nat :
         /\ [status |-> status, notes |-> notes, at |-> at] \in AnyReview
         /\ [status |-> status, notes |-> notes, at |-> at].at = at
  BY DEF AnyReview, AnyStatus, AnyNotes, Unreviewed, NoReview, NoNotes
-----------------------------------------------------------------------------
(* The database.                                                           *)

LEMMA Stored ==
    ASSUME StoreOK
    PROVE  /\ Len(scores) \in Nat /\ MaxScores \in Nat /\ Len(scores) <= MaxScores
           /\ DOMAIN scores = 1 .. Len(scores) /\ DOMAIN reviews = DOMAIN scores
           /\ DOMAIN scores \subseteq 1 .. MaxScores
           /\ \A s \in DOMAIN scores :
                /\ scores[s] \in AnyScore /\ scores[s].business \in Businesses
                /\ scores[s].earned \in BOOLEAN /\ scores[s].qualified \in BOOLEAN
                /\ scores[s].kept \in BOOLEAN
                /\ reviews[s] \in AnyReview \cup {NoReview} /\ ReviewOf(s) \in AnyReview
<1>1. /\ Len(scores) \in Nat /\ MaxScores \in Nat /\ Len(scores) <= MaxScores
      /\ DOMAIN scores = 1 .. Len(scores) /\ DOMAIN reviews = DOMAIN scores
  BY DeskAssumption DEF StoreOK
<1>2. \A s \in DOMAIN scores :
        scores[s] \in AnyScore /\ reviews[s] \in AnyReview \cup {NoReview}
  BY <1>1 DEF StoreOK
<1>3. \A s \in DOMAIN scores : ReviewOf(s) \in AnyReview
  BY <1>2, TheReviews DEF ReviewOf
<1> QED
  BY <1>1, <1>2, <1>3 DEF AnyScore

\* The notes that travel are those of the last review, if there is one.
LEMMA Carried ==
    ASSUME StoreOK, NEW b
    PROVE  /\ CarriedNotes(b) \in AnyNotes
           /\ \/ /\ CarriedNotes(b) = NoNotes
                 /\ \A t \in ScoresOf(b) : reviews[t] = NoReview
              \/ \E m \in ScoresOf(b) :
                   /\ reviews[m] # NoReview /\ CarriedNotes(b) = reviews[m].notes
                   /\ \A t \in ScoresOf(b) : reviews[t] # NoReview => t <= m
<1> DEFINE reviewed == {s \in ScoresOf(b) : reviews[s] # NoReview}
<1>1. CASE reviewed = {}
  BY <1>1 DEF CarriedNotes, AnyNotes
<1>2. CASE reviewed # {}
  <2>1. reviewed \in SUBSET (1 .. MaxScores) /\ MaxScores \in Nat
    BY Stored DEF ScoresOf
  <2>2. \E x \in reviewed : \A y \in reviewed : y <= x
    <3> HIDE DEF reviewed
    <3> QED BY <1>2, <2>1, Greatest
  <2> DEFINE m == CHOOSE s \in reviewed : \A t \in reviewed : t <= s
  <2>3. m \in reviewed /\ \A t \in reviewed : t <= m
    <3> HIDE DEF reviewed
    <3> QED BY <2>2
  <2>4. CarriedNotes(b) = reviews[m].notes
    BY <1>2 DEF CarriedNotes
  <2> HIDE DEF m
  <2>5. m \in ScoresOf(b) /\ reviews[m] # NoReview
        /\ \A t \in ScoresOf(b) : reviews[t] # NoReview => t <= m
    BY <2>3
  <2>6. reviews[m] \in AnyReview
    BY <2>5, Stored DEF ScoresOf
  <2>7. reviews[m].notes \in AnyNotes
    BY <2>6, TheReviews
  <2> QED
    BY <2>4, <2>5, <2>7
<1> QED
  BY <1>1, <1>2

\* Where scores are worth something else, they stay what they are otherwise.
LEMMA QualifyKeeps ==
    ASSUME StoreOK, NEW b, NEW worthy, Qualify(b, worthy), UNCHANGED reviews
    PROVE  /\ StoreOK' /\ DOMAIN scores' = DOMAIN scores
           /\ \A s \in DOMAIN scores :
                /\ scores'[s].business = scores[s].business
                /\ scores'[s].earned = scores[s].earned /\ scores'[s].kept = scores[s].kept
                /\ s \in ScoresOf(b) => (scores'[s].qualified <=> s \in worthy)
                /\ s \notin ScoresOf(b) => scores'[s] = scores[s]
<1>1. \A s \in DOMAIN scores : scores[s] \in AnyScore
  BY Stored
<1>2. /\ scores' = [s \in DOMAIN scores |-> scores'[s]] /\ DOMAIN scores' = DOMAIN scores
      /\ \A s \in DOMAIN scores :
           scores'[s] = IF s \in ScoresOf(b) THEN [scores[s] EXCEPT !.qualified = s \in worthy]
                        ELSE scores[s]
  BY Zenon DEF Qualify
<1>3. ASSUME NEW s \in DOMAIN scores
      PROVE  /\ scores'[s] \in AnyScore /\ scores'[s].business = scores[s].business
             /\ scores'[s].earned = scores[s].earned /\ scores'[s].kept = scores[s].kept
             /\ s \in ScoresOf(b) => (scores'[s].qualified <=> s \in worthy)
             /\ s \notin ScoresOf(b) => scores'[s] = scores[s]
  <2> DEFINE q == s \in worthy
  <2>1. q \in BOOLEAN
    BY SMT
  <2>2. CASE s \in ScoresOf(b)
    <3>1. scores'[s] = [scores[s] EXCEPT !.qualified = q]
      BY <1>2, <2>2, Zenon
    <3>2. q <=> s \in worthy
      OBVIOUS
    <3> HIDE DEF q
    <3>3. /\ scores'[s] \in AnyScore /\ scores'[s].business = scores[s].business
          /\ scores'[s].earned = scores[s].earned /\ scores'[s].kept = scores[s].kept
          /\ scores'[s].qualified = q
      <4> DEFINE r == scores[s]
                 new == scores'[s]
      <4>1. r \in AnyScore /\ new = [r EXCEPT !.qualified = q]
        BY <1>1, <3>1
      <4> HIDE DEF r, new
      <4>2. /\ new \in AnyScore /\ new.business = r.business
            /\ new.earned = r.earned /\ new.kept = r.kept /\ new.qualified = q
        BY <2>1, <4>1 DEF AnyScore
      <4> QED BY <4>2 DEF r, new
    <3> QED BY <2>2, <3>2, <3>3, Zenon
  <2>3. CASE s \notin ScoresOf(b)
    BY <1>1, <1>2, <2>3, Zenon
  <2> QED BY <2>2, <2>3
<1>4. scores' \in Seq(AnyScore) /\ Len(scores') = Len(scores)
  <2> DEFINE new == scores'
  <2>1. /\ new = [s \in DOMAIN scores |-> new[s]] /\ scores \in Seq(AnyScore)
        /\ \A s \in DOMAIN scores : new[s] \in AnyScore
    BY <1>2, <1>3, Zenon DEF StoreOK
  <2> HIDE DEF new
  <2>2. new \in Seq(AnyScore) /\ Len(new) = Len(scores)
    BY <2>1, Rebuilt
  <2> QED BY <2>2 DEF new
<1> QED
  BY <1>2, <1>3, <1>4, Zenon DEF StoreOK
\* A deletion takes the scores of a business away, and changes nothing else.
LEMMA DeleteKeeps ==
    ASSUME StoreOK, NEW b, ServeDelete(b)
    PROVE  /\ StoreOK' /\ DOMAIN scores' = DOMAIN scores
           /\ \A s \in DOMAIN scores :
                /\ scores'[s].business = scores[s].business
                /\ scores'[s].earned = scores[s].earned
                /\ scores'[s].qualified = scores[s].qualified
                /\ scores'[s].kept => scores[s].kept
<1>1. \A s \in DOMAIN scores : scores[s] \in AnyScore
  BY Stored
<1>2. /\ scores' = [s \in DOMAIN scores |-> scores'[s]] /\ DOMAIN scores' = DOMAIN scores
      /\ \A s \in DOMAIN scores :
           scores'[s] = [scores[s] EXCEPT !.kept = scores[s].kept /\ scores[s].business # b]
  BY Zenon DEF ServeDelete
<1>3. ASSUME NEW s \in DOMAIN scores
      PROVE  /\ scores'[s] \in AnyScore /\ scores'[s].business = scores[s].business
             /\ scores'[s].earned = scores[s].earned
             /\ scores'[s].qualified = scores[s].qualified
             /\ scores'[s].kept => scores[s].kept
  <2> DEFINE q == scores[s].kept /\ scores[s].business # b
             r == scores[s]
             new == scores'[s]
  <2>1. q \in BOOLEAN
    BY SMT
  <2>2. q => r.kept
    OBVIOUS
  <2>3. r \in AnyScore /\ new = [r EXCEPT !.kept = q]
    BY <1>1, <1>2, Zenon
  <2> HIDE DEF q, r, new
  <2>4. /\ new \in AnyScore /\ new.business = r.business /\ new.earned = r.earned
        /\ new.qualified = r.qualified /\ new.kept = q
    BY <2>1, <2>3 DEF AnyScore
  <2> QED BY <2>2, <2>4, Zenon DEF r, new
<1>4. scores' \in Seq(AnyScore) /\ Len(scores') = Len(scores)
  <2> DEFINE new == scores'
  <2>1. /\ new = [s \in DOMAIN scores |-> new[s]] /\ scores \in Seq(AnyScore)
        /\ \A s \in DOMAIN scores : new[s] \in AnyScore
    BY <1>2, <1>3, Zenon DEF StoreOK
  <2> HIDE DEF new
  <2>2. new \in Seq(AnyScore) /\ Len(new) = Len(scores)
    BY <2>1, Rebuilt
  <2> QED BY <2>2 DEF new
<1> QED
  BY <1>2, <1>3, <1>4, Zenon DEF StoreOK, ServeDelete

\* What may become of a review: it is written later, if the page has a copy.
ReviewMoves(s) ==
    /\ reviews'[s] = reviews[s] \/ ReviewOf(s)'.at > ReviewOf(s).at
    /\ cache[s] = Unread => reviews'[s] = reviews[s]

\* What the server does for a request keeps the database sound, and changes
\* only reviews the page has a copy of.
LEMMA ServesKeeps ==
    ASSUME IInv, NEW i \in 1 .. MaxRequests, Serves(request[i])
    PROVE  /\ StoreOK' /\ WorthOK' /\ DOMAIN scores' = DOMAIN scores
           /\ \A s \in DOMAIN scores : ReviewMoves(s)
           /\ \A b : ScoresOf(b)' \subseteq ScoresOf(b)
<1>0. PICK n : n = request[i].score
  OBVIOUS
<1> DEFINE b == scores[n].business
<1>1. n \in Kept /\ n \in DOMAIN scores /\ b \in Businesses
  BY <1>0, Stored DEF IInv, Serves, Kept
<1>2. StoreOK /\ WorthOK
  BY DEF IInv
<1>3. CASE request[i].kind \in {"decision", "notes"} /\ ServeReview(n, request[i].review)
  <2> DEFINE review == [status |-> request[i].review.status,
                        notes |-> request[i].review.notes, at |-> reviews[n].at + 1]
             R == AnyReview \cup {NoReview}
  <2>1. /\ request[i].review.status \in AnyStatus /\ request[i].review.notes \in AnyNotes
        /\ cache[n] # Unread
    BY <1>0, <1>3 DEF IInv, RequestOK, RequestSound
  <2>2. reviews[n] \in R /\ reviews[n].at \in Nat /\ ReviewOf(n).at = reviews[n].at
    BY <1>1, <1>2, Stored, TheReviews DEF ReviewOf
  <2>3. review \in AnyReview /\ review.at = reviews[n].at + 1 /\ review # NoReview
    BY <2>1, <2>2, TheReviews
  <2>4. reviews' = [reviews EXCEPT ![n] = review] /\ UNCHANGED <<scores, suppressed>>
    BY <1>3 DEF ServeReview
  <2>5. reviews \in Seq(R) /\ n \in DOMAIN reviews
    BY <1>1, <1>2, Stored DEF StoreOK
  <2>6. /\ DOMAIN reviews' = DOMAIN reviews /\ Len(reviews') = Len(reviews)
        /\ reviews' \in Seq(R) /\ reviews'[n] = review
        /\ \A s \in DOMAIN reviews \ {n} : reviews'[s] = reviews[s]
    <3> DEFINE new == reviews'
    <3> HIDE DEF review, R
    <3>1. /\ DOMAIN new = DOMAIN reviews /\ new = [k \in DOMAIN reviews |-> new[k]]
          /\ \A s \in DOMAIN reviews \ {n} : new[s] = reviews[s]
          /\ new[n] = review
      BY <2>4, <2>5
    <3>2. review \in R /\ \A s \in DOMAIN reviews : reviews[s] \in R
      BY <2>3, <2>5 DEF R
    <3> HIDE DEF new
    <3>3. \A s \in DOMAIN reviews : new[s] \in R
      BY <3>1, <3>2
    <3>4. new \in Seq(R) /\ Len(new) = Len(reviews)
      BY <2>5, <3>1, <3>3, Rebuilt
    <3> QED BY <3>1, <3>4 DEF new
  <2>7. StoreOK' /\ WorthOK' /\ DOMAIN scores' = DOMAIN scores
    BY <1>2, <2>4, <2>6 DEF StoreOK, WorthOK, Kept
  <2>8. \A c : ScoresOf(c)' \subseteq ScoresOf(c)
    BY <2>4 DEF ScoresOf
  <2>9. ReviewMoves(n)
    <3>1. ReviewOf(n)' = review
      <4>1. reviews'[n] = review /\ review # NoReview
        BY <2>3, <2>6
      <4> HIDE DEF review
      <4> QED BY <4>1 DEF ReviewOf
    <3> HIDE DEF review
    <3> QED BY <2>1, <2>2, <2>3, <3>1 DEF ReviewMoves
  <2>10. \A s \in DOMAIN scores : ReviewMoves(s)
    <3>1. DOMAIN reviews = DOMAIN scores
      BY <1>2, Stored
    <3> QED BY <2>6, <2>9, <3>1 DEF ReviewMoves
  <2> QED BY <2>7, <2>8, <2>10
<1>4. CASE ServeSuppress(b)
  <2>1. Qualify(b, {}) /\ UNCHANGED reviews /\ suppressed' = suppressed \cup {b}
    BY <1>4 DEF ServeSuppress
  <2>0. \A s \in DOMAIN scores : ReviewMoves(s)
    BY <2>1 DEF ReviewMoves
  <2>2. /\ StoreOK' /\ DOMAIN scores' = DOMAIN scores
        /\ \A s \in DOMAIN scores :
             /\ scores'[s].business = scores[s].business
             /\ scores'[s].earned = scores[s].earned /\ scores'[s].kept = scores[s].kept
             /\ s \in ScoresOf(b) => ~scores'[s].qualified
             /\ s \notin ScoresOf(b) => scores'[s] = scores[s]
    <3> HIDE DEF b
    <3> QED BY <1>2, <2>1, QualifyKeeps
  <2>3. \A c : ScoresOf(c)' \subseteq ScoresOf(c)
    <3> HIDE DEF b
    <3> QED BY <2>2 DEF ScoresOf
  <2>4. WorthOK'
    <3> HIDE DEF b
    <3>1. SUFFICES ASSUME NEW s \in Kept'
                   PROVE  scores'[s].qualified <=>
                            scores'[s].earned /\ scores'[s].business \notin suppressed'
      BY DEF WorthOK
    <3>2. s \in Kept /\ s \in DOMAIN scores
      BY <2>2 DEF Kept
    <3>3. scores[s].qualified <=> scores[s].earned /\ scores[s].business \notin suppressed
      BY <1>2, <3>2 DEF WorthOK
    <3>4. s \in ScoresOf(b) <=> scores[s].business = b
      BY <3>2 DEF ScoresOf, Kept
    <3> QED BY <2>1, <2>2, <3>2, <3>3, <3>4
  <2> QED BY <2>0, <2>2, <2>3, <2>4
<1>5. CASE ServeDelete(b)
  <2>1. UNCHANGED <<reviews, suppressed>>
    BY <1>5 DEF ServeDelete
  <2>0. \A s \in DOMAIN scores : ReviewMoves(s)
    BY <2>1 DEF ReviewMoves
  <2>2. /\ StoreOK' /\ DOMAIN scores' = DOMAIN scores
        /\ \A s \in DOMAIN scores :
             /\ scores'[s].business = scores[s].business
             /\ scores'[s].earned = scores[s].earned
             /\ scores'[s].qualified = scores[s].qualified
             /\ scores'[s].kept => scores[s].kept
    <3> HIDE DEF b
    <3> QED BY <1>2, <1>5, DeleteKeeps
  <2>3. \A c : ScoresOf(c)' \subseteq ScoresOf(c)
    BY <2>2 DEF ScoresOf
  <2>4. Kept' \subseteq Kept
    BY <2>2 DEF Kept
  <2>5. WorthOK'
    BY <1>2, <2>1, <2>2, <2>4 DEF WorthOK, Kept
  <2> QED BY <2>0, <2>2, <2>3, <2>5
<1>6. CASE UNCHANGED database
  BY <1>2, <1>6 DEF database, StoreOK, WorthOK, Kept, ScoresOf, ReviewMoves
<1> QED
  BY <1>0, <1>3, <1>4, <1>5, <1>6 DEF Serves
\* A new score is the last of its business, and has the notes of the last
\* review; every other place stays as it is.
LEMMA Scored ==
    ASSUME IInv, NEW b \in Businesses, Score(b)
    PROVE  LET n == Len(scores) + 1 IN
           /\ StoreOK' /\ WorthOK' /\ n \in Nat /\ DOMAIN scores = 1 .. Len(scores)
           /\ DOMAIN scores' = DOMAIN scores \cup {n} /\ n \notin DOMAIN scores
           /\ \A s \in DOMAIN scores : scores'[s] = scores[s] /\ reviews'[s] = reviews[s]
           /\ scores'[n].business = b /\ scores'[n].kept
           /\ reviews'[n].notes = CarriedNotes(b)
<1> DEFINE n == Len(scores) + 1
<1>1. StoreOK /\ WorthOK
  BY DEF IInv
<1>2. PICK earned \in BOOLEAN :
        scores' = Append(scores, [business |-> b, earned |-> earned,
                                  qualified |-> earned /\ b \notin suppressed, kept |-> TRUE])
  BY DEF Score
<1> DEFINE q == earned /\ b \notin suppressed
           r == [business |-> b, earned |-> earned, qualified |-> q, kept |-> TRUE]
           v == IF CarriedNotes(b) = NoNotes THEN NoReview
                ELSE [Unreviewed EXCEPT !.notes = CarriedNotes(b)]
<1>3. q \in BOOLEAN
  BY SMT
<1>4. q <=> earned /\ b \notin suppressed
  OBVIOUS
<1>5. scores' = Append(scores, r) /\ reviews' = Append(reviews, v)
  BY <1>2 DEF Score
<1>6. r \in AnyScore /\ r.business = b /\ r.kept /\ r.earned = earned /\ r.qualified = q
  <2> HIDE DEF q
  <2> QED BY <1>3 DEF AnyScore
<1>7. v \in AnyReview \cup {NoReview} /\ v.notes = CarriedNotes(b)
  <2> DEFINE notes == CarriedNotes(b)
  <2>1. notes \in AnyNotes
    BY <1>1, Carried
  <2> HIDE DEF notes
  <2> QED BY <2>1, TheReviews DEF notes
<1> HIDE DEF q, r, v
<1>8. /\ Len(scores) \in Nat /\ DOMAIN scores = 1 .. Len(scores) /\ Len(reviews) = Len(scores)
      /\ DOMAIN reviews = DOMAIN scores /\ Len(scores) < MaxScores /\ MaxScores \in Nat
  BY <1>1, Stored DEF StoreOK, Score
<1>9. /\ scores' \in Seq(AnyScore) /\ Len(scores') = n /\ DOMAIN scores' = 1 .. n
      /\ \A s \in DOMAIN scores : scores'[s] = scores[s]
      /\ scores'[n] = r
  BY <1>1, <1>5, <1>6, Appended DEF StoreOK
<1>10. /\ reviews' \in Seq(AnyReview \cup {NoReview}) /\ Len(reviews') = n
       /\ \A s \in DOMAIN scores : reviews'[s] = reviews[s]
       /\ reviews'[n] = v
  <2> DEFINE R == AnyReview \cup {NoReview}
  <2>1. reviews \in Seq(R) /\ v \in R
    BY <1>1, <1>7 DEF StoreOK
  <2> HIDE DEF R
  <2>2. /\ reviews' \in Seq(R) /\ Len(reviews') = Len(reviews) + 1
        /\ \A s \in DOMAIN reviews : reviews'[s] = reviews[s]
        /\ reviews'[Len(reviews) + 1] = v
    BY <1>5, <2>1, Appended
  <2> QED BY <1>8, <2>2 DEF R
<1>11. StoreOK'
  BY <1>8, <1>9, <1>10 DEF StoreOK
<1>12. n \in Nat /\ DOMAIN scores' = DOMAIN scores \cup {n} /\ n \notin DOMAIN scores
  BY <1>8, <1>9
<1>13. WorthOK'
  <2>1. SUFFICES ASSUME NEW s \in Kept'
                 PROVE  scores'[s].qualified <=>
                          scores'[s].earned /\ scores'[s].business \notin suppressed
    BY DEF WorthOK, Score
  <2>2. s \in DOMAIN scores' /\ scores'[s].kept
    BY DEF Kept
  <2> HIDE DEF n
  <2>3. CASE s = n
    BY <1>4, <1>6, <1>9, <2>3
  <2>4. CASE s \in DOMAIN scores
    <3>1. s \in Kept /\ scores'[s] = scores[s]
      BY <1>9, <2>2, <2>4 DEF Kept
    <3> QED BY <1>1, <3>1 DEF WorthOK
  <2> QED BY <1>12, <2>2, <2>3, <2>4
<1> QED
  BY <1>6, <1>7, <1>8, <1>9, <1>10, <1>11, <1>12, <1>13

\* A lifted business is worth again what it earned.
LEMMA Lifted ==
    ASSUME IInv, NEW b, Lift(b)
    PROVE  /\ StoreOK' /\ WorthOK' /\ DOMAIN scores' = DOMAIN scores
           /\ UNCHANGED reviews /\ \A c : ScoresOf(c)' \subseteq ScoresOf(c)
<1> DEFINE worthy == {s \in ScoresOf(b) : scores[s].earned}
<1>1. /\ Qualify(b, worthy) /\ UNCHANGED reviews /\ suppressed' = suppressed \ {b}
      /\ StoreOK /\ WorthOK
  BY DEF Lift, IInv
<1>2. /\ StoreOK' /\ DOMAIN scores' = DOMAIN scores
      /\ \A s \in DOMAIN scores :
           /\ scores'[s].business = scores[s].business
           /\ scores'[s].earned = scores[s].earned /\ scores'[s].kept = scores[s].kept
           /\ s \in ScoresOf(b) => (scores'[s].qualified <=> s \in worthy)
           /\ s \notin ScoresOf(b) => scores'[s] = scores[s]
  <2> HIDE DEF worthy
  <2> QED BY <1>1, QualifyKeeps
<1>3. \A c : ScoresOf(c)' \subseteq ScoresOf(c)
  <2> HIDE DEF worthy
  <2> QED BY <1>2 DEF ScoresOf
<1>4. WorthOK'
  <2>1. SUFFICES ASSUME NEW s \in Kept'
                 PROVE  scores'[s].qualified <=>
                          scores'[s].earned /\ scores'[s].business \notin suppressed'
    BY DEF WorthOK
  <2>2. s \in Kept /\ s \in DOMAIN scores
    BY <1>2 DEF Kept
  <2>3. scores[s].qualified <=> scores[s].earned /\ scores[s].business \notin suppressed
    BY <1>1, <2>2 DEF WorthOK
  <2>4. s \in ScoresOf(b) <=> scores[s].business = b
    BY <2>2 DEF ScoresOf, Kept
  <2>5. s \in worthy <=> s \in ScoresOf(b) /\ scores[s].earned
    OBVIOUS
  <2> HIDE DEF worthy
  <2> QED BY <1>1, <1>2, <2>2, <2>3, <2>4, <2>5
<1> QED
  BY <1>1, <1>2, <1>3, <1>4
-----------------------------------------------------------------------------
(* The page.                                                               *)

LEMMA InitHolds == Init => IInv
<1> SUFFICES ASSUME Init PROVE IInv
  OBVIOUS
<1>1. StoreOK
  BY DeskAssumption DEF Init, StoreOK
<1>2. DOMAIN scores = {}
  BY DEF Init
<1>3. WorthOK
  BY <1>2 DEF WorthOK, Kept
<1>4. CopiesOK
  BY <1>2, Zenon DEF Init, CopiesOK, NoAnswer
<1>5. /\ request = [i \in 1 .. MaxRequests |-> request[i]] /\ list = {}
      /\ \A i \in 1 .. MaxRequests : request[i].kind = "none"
  BY Zenon DEF Init, NoRequest
<1>6. RequestOK
  BY <1>5 DEF RequestOK, RequestSound, Asked
<1> QED
  BY <1>1, <1>3, <1>4, <1>6 DEF IInv

\* What a step may do: to the database, which never loses a place;
StoreMoves ==
    /\ StoreOK' /\ WorthOK'
    /\ DOMAIN scores \subseteq DOMAIN scores'
    /\ \A s \in DOMAIN scores : ReviewMoves(s)

\* to what is read and copied of a score, which is what is stored before and
\* after the step;
CopyMoves(s) ==
    /\ cache'[s] = cache[s] \/ cache'[s] \in AnyReview \ {Unread}
    /\ \/ reading'[s] = reading[s]
       \/ s \in DOMAIN scores /\ reading'[s] \in NoAnswer
       \/ s \in DOMAIN scores /\ reading'[s] = ReviewOf(s) /\ reviews'[s] = reviews[s]

CopiesMove ==
    /\ cache' = [s \in 1 .. MaxScores |-> cache'[s]]
    /\ reading' = [s \in 1 .. MaxScores |-> reading'[s]]
    /\ \A s \in 1 .. MaxScores : CopyMoves(s)

\* and to the list and the requests.
RequestMoves(i) == request'[i] \in {request[i], NoRequest} \/ RequestSound(i)'

RequestsMove ==
    /\ list' = list \/ \A c \in list' : c.score \in DOMAIN scores
    /\ request' = [i \in 1 .. MaxRequests |-> request'[i]]
    /\ \A i \in 1 .. MaxRequests : RequestMoves(i)

\* A reading stays what it was when its review is written again, and is not
\* late for less than it was.
LEMMA Later ==
    ASSUME NEW r \in AnyReview \cup NoAnswer, NEW w \in AnyReview, NEW v \in AnyReview,
           v = w \/ v.at > w.at
    PROVE  /\ Past(r, w) => Past(r, v)
           /\ Past(w, w) /\ v.at >= w.at
           /\ \A from \in Nat : from <= w.at => Late(w, from)
<1>1. w.at \in Nat /\ v.at \in Nat /\ (r \in NoAnswer \/ r.at \in Nat)
  BY TheReviews
<1> QED
  BY <1>1 DEF Past, Late

LEMMA StoredReviews == StoreOK => \A t \in DOMAIN scores : ReviewOf(t) \in AnyReview
  BY Stored

LEMMA ReviewLater ==
    ASSUME StoreOK, StoreMoves, NEW s \in DOMAIN scores
    PROVE  /\ ReviewOf(s) \in AnyReview /\ ReviewOf(s)' \in AnyReview
           /\ ReviewOf(s)' = ReviewOf(s) \/ ReviewOf(s)'.at > ReviewOf(s).at
           /\ reviews'[s] = reviews[s] => ReviewOf(s)' = ReviewOf(s)
           /\ cache[s] = Unread => reviews'[s] = reviews[s]
<1>1. s \in DOMAIN scores' /\ StoreOK'
  BY DEF StoreMoves
<1>2. (\A t \in DOMAIN scores : ReviewOf(t) \in AnyReview)'
  BY <1>1, StoredReviews, PTL
<1>3. reviews'[s] = reviews[s] => ReviewOf(s)' = ReviewOf(s)
  BY DEF ReviewOf
<1> QED
  BY <1>1, <1>2, <1>3, Stored DEF StoreMoves, ReviewMoves

\* A step that does no more than that keeps the invariant: first its copies,
LEMMA CopiesKept ==
    ASSUME IInv, StoreMoves, CopiesMove
    PROVE  /\ CopiesOK'
           /\ \A s \in DOMAIN scores : \A from \in Nat :
                from <= ReviewOf(s).at /\ Late(reading[s], from) => Late(reading'[s], from)
           /\ \A s \in DOMAIN scores : cache[s] # Unread => cache'[s] # Unread
<1>1. StoreOK /\ CopiesOK /\ StoreOK'
  BY DEF IInv, StoreMoves
<1>2. DOMAIN scores \subseteq 1 .. MaxScores /\ DOMAIN scores \subseteq DOMAIN scores'
  BY <1>1, Stored DEF StoreMoves
<1>3. (DOMAIN scores \subseteq 1 .. MaxScores)'
  BY <1>1, Stored, PTL
<1>4. ASSUME NEW s \in DOMAIN scores
      PROVE  /\ reading[s] \in AnyReview \cup NoAnswer /\ CopyOK(s) /\ CopyMoves(s)
             /\ ReviewOf(s) \in AnyReview /\ ReviewOf(s)' \in AnyReview
             /\ ReviewOf(s)' = ReviewOf(s) \/ ReviewOf(s)'.at > ReviewOf(s).at
             /\ reviews'[s] = reviews[s] => ReviewOf(s)' = ReviewOf(s)
             /\ cache[s] = Unread => reviews'[s] = reviews[s]
  BY <1>1, <1>2, ReviewLater DEF CopiesOK, CopiesMove
<1>5. ASSUME NEW s \in DOMAIN scores
      PROVE  reading'[s] \in {reading[s], ReviewOf(s)} \cup NoAnswer
             /\ Past(reading'[s], ReviewOf(s)')
  <2> DEFINE w == ReviewOf(s)
             v == ReviewOf(s)'
             r == reading[s]
             q == reading'[s]
  <2>1. /\ r \in AnyReview \cup NoAnswer /\ w \in AnyReview /\ v \in AnyReview
        /\ v = w \/ v.at > w.at
        /\ Past(r, w)
        /\ q = r \/ q \in NoAnswer \/ q = w
    BY <1>4 DEF CopyOK, CopyMoves
  <2> HIDE DEF w, v, r, q
  <2>2. Past(r, v)
    BY <2>1, Later
  <2>3. Past(w, v)
    BY <2>1, Later
  <2>4. q \in NoAnswer => Past(q, v)
    BY DEF Past
  <2>5. q \in {r, w} \cup NoAnswer /\ Past(q, v)
    BY <2>1, <2>2, <2>3, <2>4
  <2> QED BY <2>5 DEF w, v, r, q
<1>6. ASSUME NEW s \in DOMAIN scores, NEW from \in Nat, from <= ReviewOf(s).at,
             Late(reading[s], from)
      PROVE  Late(reading'[s], from)
  <2>1. Late(ReviewOf(s), from)
    BY <1>4, <1>6, Later
  <2>2. reading'[s] \in NoAnswer => Late(reading'[s], from)
    BY DEF Late
  <2> QED BY <1>5, <1>6, <2>1, <2>2
<1>7. ASSUME NEW s \in DOMAIN scores
      PROVE  cache[s] # Unread => cache'[s] # Unread
  BY <1>4 DEF CopyMoves
<1>8. ASSUME NEW s \in DOMAIN scores
      PROVE  CopyOK(s)'
  <2>1. cache'[s] = Unread => cache[s] = Unread
    BY <1>7
  <2>2. ASSUME cache[s] = Unread
        PROVE  Late(reading'[s], ReviewOf(s)'.at)
    <3>1. ReviewOf(s)' = ReviewOf(s) /\ ReviewOf(s).at \in Nat
      BY <1>4, <2>2, TheReviews
    <3>2. Late(reading[s], ReviewOf(s).at)
      BY <1>4, <2>2 DEF CopyOK
    <3>3. Late(reading'[s], ReviewOf(s).at)
      BY <1>6, <3>1, <3>2
    <3> QED BY <3>1, <3>3
  <2> QED BY <1>5, <2>1, <2>2 DEF CopyOK
<1>9. ASSUME NEW s \in 1 .. MaxScores, s \notin DOMAIN scores
      PROVE  reading'[s] = Idle
  BY <1>1, <1>9 DEF CopiesOK, CopiesMove, CopyMoves
<1>10. ASSUME NEW s \in DOMAIN scores', s \notin DOMAIN scores
       PROVE  CopyOK(s)'
  <2>1. reading'[s] = Idle
    BY <1>3, <1>9, <1>10
  <2> QED BY <2>1 DEF CopyOK, Past, Late, NoAnswer
<1>11. cache' \in [1 .. MaxScores -> AnyReview \cup {Unread}]
  <2>1. \A s \in 1 .. MaxScores : cache'[s] \in AnyReview \cup {Unread}
    BY <1>1 DEF CopiesOK, CopiesMove, CopyMoves
  <2> QED BY <2>1 DEF CopiesMove
<1>12. reading' \in [1 .. MaxScores -> AnyReview \cup NoAnswer]
  <2>1. \A s \in 1 .. MaxScores : reading'[s] \in AnyReview \cup NoAnswer
    BY <1>4, <1>5, <1>9 DEF NoAnswer
  <2> QED BY <2>1 DEF CopiesMove
<1>13. CopiesOK'
  <2>1. (\A s \in 1 .. MaxScores \ DOMAIN scores : reading[s] = Idle)'
    BY <1>2, <1>9
  <2>2. (\A s \in DOMAIN scores : CopyOK(s))'
    BY <1>8, <1>10
  <2> QED BY <1>11, <1>12, <2>1, <2>2 DEF CopiesOK
<1> QED
  BY <1>6, <1>7, <1>13

\* then its requests.
LEMMA Moves ==
    ASSUME IInv, StoreMoves, CopiesMove, RequestsMove
    PROVE  IInv'
<1>1. RequestOK /\ StoreOK /\ DOMAIN scores \subseteq DOMAIN scores'
  BY DEF IInv, StoreMoves
<1>2. ASSUME NEW i \in 1 .. MaxRequests
      PROVE  RequestSound(i)'
  <2>1. CASE request'[i] = NoRequest
    BY <2>1 DEF RequestSound, Asked, NoRequest
  <2>2. CASE request'[i] = request[i]
    <3>1. RequestSound(i)
      BY <1>1 DEF RequestOK
    <3>2. Asked(i)' => request'[i].score \in DOMAIN scores' /\ Asked(i)
      BY <1>1, <2>2, <3>1 DEF RequestSound, Asked
    <3>3. ASSUME request[i].kind \in {"decision", "notes"}
          PROVE  /\ request[i].review.status \in AnyStatus /\ request[i].review.notes \in AnyNotes
                 /\ cache'[request[i].score] # Unread
      <4>1. request[i].score \in DOMAIN scores /\ cache[request[i].score] # Unread
        BY <3>1, <3>3 DEF RequestSound, Asked
      <4> QED BY <3>1, <3>3, <4>1, CopiesKept DEF RequestSound
    <3>4. ASSUME request[i].kind = "reading"
          PROVE  /\ request[i].of \in DOMAIN scores /\ request[i].from \in Nat
                 /\ request[i].from <= ReviewOf(request[i].of)'.at
                 /\ Late(reading'[request[i].of], request[i].from)
      <4>0. PICK s, from : s = request[i].of /\ from = request[i].from
        OBVIOUS
      <4>1. s \in DOMAIN scores /\ from \in Nat /\ from <= ReviewOf(s).at /\ Late(reading[s], from)
        BY <3>1, <3>4, <4>0 DEF RequestSound
      <4>2. Late(reading'[s], from)
        BY <4>1, CopiesKept
      <4>3. /\ ReviewOf(s) \in AnyReview /\ ReviewOf(s)' \in AnyReview
            /\ ReviewOf(s)' = ReviewOf(s) \/ ReviewOf(s)'.at > ReviewOf(s).at
        BY <1>1, <4>1, ReviewLater
      <4>4. ReviewOf(s).at \in Nat /\ ReviewOf(s)'.at \in Nat
        BY <4>3, TheReviews
      <4>5. from <= ReviewOf(s)'.at
        BY <4>1, <4>3, <4>4
      <4> QED BY <2>2, <4>0, <4>1, <4>2, <4>5 DEF ReviewOf
    <3> QED BY <1>1, <2>2, <3>2, <3>3, <3>4 DEF RequestSound
  <2> QED BY <2>1, <2>2 DEF RequestsMove, RequestMoves
<1>3. \A c \in list' : c.score \in DOMAIN scores'
  BY <1>1 DEF RequestOK, RequestsMove
<1>4. RequestOK'
  BY <1>2, <1>3 DEF RequestOK, RequestsMove
<1> QED
  BY <1>4, CopiesKept DEF IInv, StoreMoves

\* Where nothing is done, that is what is done.
LEMMA NothingMoves ==
    ASSUME IInv
    PROVE  /\ UNCHANGED database => StoreMoves
           /\ UNCHANGED <<cache, reading>> => CopiesMove
           /\ UNCHANGED <<list, request>> => RequestsMove
<1>1. StoreOK /\ WorthOK /\ CopiesOK /\ RequestOK
  BY DEF IInv
<1>2. UNCHANGED database => StoreMoves
  BY <1>1 DEF database, StoreMoves, StoreOK, WorthOK, Kept, ReviewMoves
<1>3. ASSUME UNCHANGED <<cache, reading>>
      PROVE  CopiesMove
  <2>1. /\ cache = [s \in 1 .. MaxScores |-> cache[s]]
        /\ reading = [s \in 1 .. MaxScores |-> reading[s]]
    BY <1>1 DEF CopiesOK
  <2> QED BY <1>3, <2>1 DEF CopiesMove, CopyMoves
<1>4. ASSUME UNCHANGED <<list, request>>
      PROVE  RequestsMove
  BY <1>1, <1>4 DEF RequestsMove, RequestMoves, RequestOK
<1> QED
  BY <1>2, <1>3, <1>4

LEMMA ShowSteps ==
    ASSUME IInv, Refresh \/ SelectFilter \/ OpenRow \/ Step \/ Close \/ ToggleRejecting
    PROVE  IInv'
<1>1. UNCHANGED <<database, copies, asking>> /\ list' \in {list, Queue}
  BY DEF Refresh, SelectFilter, OpenRow, Step, Close, Shows, ToggleRejecting
<1>2. \A c \in Queue : c.score \in DOMAIN scores
  BY DEF Queue, Candidates, Kept
<1>3. UNCHANGED <<database, cache, reading, request>>
  BY <1>1 DEF copies, asking
<1>4. RequestsMove
  BY <1>1, <1>2, <1>3 DEF RequestsMove, RequestMoves, RequestOK, IInv
<1> QED
  BY <1>3, <1>4, NothingMoves, Moves

\* The open candidate was scored.
LEMMA OpenIsScored ==
    ASSUME IInv, Open # 0
    PROVE  Open \in DOMAIN scores /\ Open \in 1 .. MaxScores
<1>1. Open \in Visible
  BY DEF Open
<1>2. Visible \subseteq DOMAIN scores
  BY DEF Visible, IInv, RequestOK
<1>3. StoreOK
  BY DEF IInv
<1> QED
  BY <1>1, <1>2, <1>3, Stored

\* What is asked is about what was scored, and of what is copied.
Asking ==
    QuickDecision \/ RejectWithNote \/ SaveNotes \/ Suppress \/ Delete \/ Correct \/ Reassess

AskedSound(asked) ==
    /\ asked.kind \notin {"none", "reading"} /\ asked.score \in DOMAIN scores
    /\ asked.kind \in {"decision", "notes"} =>
         /\ asked.review.status \in AnyStatus /\ asked.review.notes \in AnyNotes
         /\ cache[asked.score] # Unread

LEMMA WhatIsAsked ==
    ASSUME IInv, Asking
    PROVE  \E asked : Ask(asked) /\ AskedSound(asked)
<1>1. StoreOK /\ CopiesOK
  BY DEF IInv
<1>2. ASSUME Bar
      PROVE  /\ Open \in DOMAIN scores /\ cache[Open] # Unread
             /\ cache[Open].status \in AnyStatus /\ cache[Open].notes \in AnyNotes
  <2>1. Open \in DOMAIN scores /\ Open \in 1 .. MaxScores /\ cache[Open] # Unread
    BY <1>2, OpenIsScored DEF Bar
  <2>2. cache[Open] \in AnyReview
    BY <1>1, <2>1 DEF CopiesOK
  <2> QED BY <2>1, <2>2, TheReviews
<1>3. ASSUME NEW status \in AnyStatus, Bar, Decide(status)
      PROVE  \E asked : Ask(asked) /\ AskedSound(asked)
  <2>1. PICK next \in {Open} \cup Visible :
          Ask([kind |-> "decision", score |-> Open, next |-> next,
               review |-> [status |-> status, notes |-> cache[Open].notes]])
    BY <1>3 DEF Decide
  <2> QED BY <1>2, <1>3, <2>1 DEF AskedSound
<1>4. CASE QuickDecision
  <2>1. PICK status \in Statuses \cup {"Unreviewed"} : Decide(status)
    BY <1>4 DEF QuickDecision
  <2> QED BY <1>3, <1>4, <2>1 DEF QuickDecision, AnyStatus
<1>5. CASE RejectWithNote
  BY <1>3, <1>5, DeskAssumption DEF RejectWithNote, AnyStatus
<1>6. CASE SaveNotes
  <2>1. PICK notes \in {cache[Open].notes} \cup {scores[s].business : s \in Kept} :
          Ask([kind |-> "notes", score |-> Open, next |-> Open,
               review |-> [status |-> cache[Open].status, notes |-> notes]])
    BY <1>6 DEF SaveNotes
  <2>2. \A s \in Kept : scores[s].business \in Businesses
    BY <1>1, Stored DEF Kept
  <2>3. Bar
    BY <1>6 DEF SaveNotes, Panel
  <2>4. notes \in AnyNotes
    BY <1>2, <2>1, <2>2, <2>3 DEF AnyNotes
  <2> QED BY <1>2, <2>1, <2>3, <2>4 DEF AskedSound
<1>7. CASE Suppress \/ Delete \/ Correct \/ Reassess
  <2>1. Bar
    BY <1>7 DEF Suppress, Delete, Correct, Reassess, Panel
  <2>2. \E kind \in {"suppress", "delete", "correction", "reassess"}, next \in {0, Open} :
          Ask([kind |-> kind, score |-> Open, next |-> next])
    BY <1>7 DEF Suppress, Delete, Correct, Reassess
  <2> QED BY <1>2, <2>1, <2>2 DEF AskedSound
<1> QED
  BY <1>4, <1>5, <1>6, <1>7 DEF Asking

LEMMA AskSteps ==
    ASSUME IInv, Asking
    PROVE  IInv'
<1>1. PICK asked : Ask(asked) /\ AskedSound(asked)
  BY WhatIsAsked
<1>2. /\ UNCHANGED <<database, cache, reading, list>>
      /\ request' = [request EXCEPT ![requests + 1] = asked]
  BY <1>1 DEF Ask, page, copies
<1>3. request = [i \in 1 .. MaxRequests |-> request[i]]
  BY DEF IInv, RequestOK
<1>4. request' = [i \in 1 .. MaxRequests |-> request'[i]]
  BY <1>2, <1>3
<1>5. ASSUME NEW i \in 1 .. MaxRequests
      PROVE  RequestMoves(i)
  <2>1. request'[i] \in {request[i], asked}
    BY <1>2, <1>3
  <2>2. CASE request'[i] = asked
    BY <1>1, <1>2, <2>2 DEF RequestMoves, RequestSound, AskedSound, Asked, database
  <2> QED BY <2>1, <2>2 DEF RequestMoves
<1> QED
  BY <1>2, <1>4, <1>5, NothingMoves, Moves DEF RequestsMove
-----------------------------------------------------------------------------
(* The copies.                                                             *)

\* A request that is over is as if it had not been made.
LEMMA OverMoves ==
    ASSUME IInv, NEW over, Over(over), UNCHANGED list
    PROVE  /\ RequestsMove
           /\ \A i \in 1 .. MaxRequests : i \notin over => request'[i] = request[i]
<1>1. request = [i \in 1 .. MaxRequests |-> request[i]]
  BY DEF IInv, RequestOK
<1>2. /\ request' = [i \in 1 .. MaxRequests |-> request'[i]]
      /\ \A i \in 1 .. MaxRequests :
           request'[i] = IF i \in over THEN NoRequest ELSE request[i]
  BY <1>1 DEF Over
<1> QED
  BY <1>2 DEF RequestsMove, RequestMoves

\* What is read of one score.
LEMMA ReadingMoves ==
    ASSUME IInv, NEW s \in DOMAIN scores, NEW r,
           reading' = [reading EXCEPT ![s] = r],
           r \in NoAnswer \/ (r = ReviewOf(s) /\ UNCHANGED reviews),
           \/ UNCHANGED cache
           \/ /\ reading[s] \in AnyReview \ {Unread}
              /\ cache' = [cache EXCEPT ![s] = reading[s]]
    PROVE  CopiesMove /\ s \in 1 .. MaxScores /\ reading'[s] = r
<1>1. /\ StoreOK /\ s \in 1 .. MaxScores
      /\ cache = [t \in 1 .. MaxScores |-> cache[t]]
      /\ reading = [t \in 1 .. MaxScores |-> reading[t]]
  BY Stored DEF IInv, CopiesOK
<1>2. /\ reading' = [t \in 1 .. MaxScores |-> reading'[t]] /\ reading'[s] = r
      /\ \A t \in 1 .. MaxScores : t # s => reading'[t] = reading[t]
  BY <1>1
<1>3. /\ cache' = [t \in 1 .. MaxScores |-> cache'[t]]
      /\ \A t \in 1 .. MaxScores : cache'[t] = cache[t] \/ cache'[t] \in AnyReview \ {Unread}
  BY <1>1
<1>4. ASSUME NEW t \in 1 .. MaxScores
      PROVE  CopyMoves(t)
  <2>1. CASE t # s
    BY <1>2, <1>3, <2>1 DEF CopyMoves
  <2>2. CASE t = s
    BY <1>2, <1>3, <2>2 DEF CopyMoves
  <2> QED BY <2>1, <2>2
<1> QED
  BY <1>1, <1>2, <1>3, <1>4 DEF CopiesMove

LEMMA ReadSteps ==
    ASSUME IInv, Read \/ \E s \in DOMAIN scores : ServeReading(s) \/ ReadingEnds(s)
    PROVE  IInv'
<1>1. StoreOK /\ CopiesOK /\ RequestOK
  BY DEF IInv
<1>2. CASE Read
  <2>1. PICK s \in DOMAIN scores : s = Open
    BY <1>2, OpenIsScored DEF Read
  <2>2. UNCHANGED <<database, list, cache, request>> /\ reading' = [reading EXCEPT ![s] = Sent]
    BY <1>2, <2>1 DEF Read, Reads, page, asking
  <2>3. CopiesMove
    BY <2>2, ReadingMoves DEF NoAnswer
  <2> QED BY <2>2, <2>3, NothingMoves, Moves
<1>3. ASSUME NEW s \in DOMAIN scores, ServeReading(s)
      PROVE  IInv'
  <2> DEFINE review == IF s \in Candidates THEN ReviewOf(s) ELSE Unread
  <2>1. UNCHANGED <<database, list, cache, request>>
        /\ reading' = [reading EXCEPT ![s] = review]
    BY <1>3 DEF ServeReading, page, asking
  <2>2. review \in NoAnswer \/ (review = ReviewOf(s) /\ UNCHANGED reviews)
    BY <2>1 DEF NoAnswer, database
  <2> HIDE DEF review
  <2>3. CopiesMove
    BY <2>1, <2>2, ReadingMoves
  <2> QED BY <2>1, <2>3, NothingMoves, Moves
<1>4. ASSUME NEW s \in DOMAIN scores, ReadingEnds(s)
      PROVE  IInv'
  <2>1. UNCHANGED <<database, list>> /\ reading' = [reading EXCEPT ![s] = Idle]
        /\ Over(Awaiting(s))
    BY <1>4 DEF ReadingEnds
  <2>2. \/ UNCHANGED cache
        \/ reading[s] \in AnyReview \ {Unread} /\ cache' = [cache EXCEPT ![s] = reading[s]]
    <3>1. reading[s] \in AnyReview \cup NoAnswer
      BY <1>1, Stored DEF CopiesOK
    <3> QED BY <1>4, <3>1 DEF ReadingEnds, NoAnswer
  <2>3. CopiesMove
    BY <2>1, <2>2, ReadingMoves DEF NoAnswer
  <2> QED BY <2>1, <2>3, OverMoves, NothingMoves, Moves
<1> QED
  BY <1>2, <1>3, <1>4

\* Done, and read again: what is read of the open candidate is not older than
\* what was done.
LEMMA SavedKeeps ==
    ASSUME IInv, NEW i \in 1 .. MaxRequests, Saved(i)
    PROVE  IInv'
<1>1. /\ StoreOK /\ CopiesOK /\ RequestOK
      /\ Asked(i) /\ Serves(request[i]) /\ UNCHANGED <<list, cache>>
  BY DEF IInv, Saved, page
<1>2. StoreMoves
  BY <1>1, ServesKeeps DEF StoreMoves
<1>3. ASSUME UNCHANGED reading, Over({i})
      PROVE  IInv'
  BY <1>1, <1>2, <1>3, OverMoves, NothingMoves, Moves
<1>4. ASSUME NEW s, s = Open, s # 0, Reloads(s), NEW next, NEW score,
             request' = [request EXCEPT ![i] = [kind |-> "reading", of |-> s,
                                                from |-> reviews'[s].at,
                                                score |-> score, next |-> next]]
      PROVE  IInv'
  <2>1. s \in DOMAIN scores
    BY <1>4, OpenIsScored
  <2>2. \/ cache[s] = Unread /\ UNCHANGED reading
        \/ reading' = [reading EXCEPT ![s] = Sent]
    BY <1>4 DEF Reloads, Reads
  <2>3. CopiesMove
    BY <1>1, <2>1, <2>2, NothingMoves, ReadingMoves DEF NoAnswer
  <2>4. /\ ReviewOf(s)' \in AnyReview /\ reviews'[s].at = ReviewOf(s)'.at
        /\ reviews'[s].at \in Nat
        /\ cache[s] = Unread => ReviewOf(s)' = ReviewOf(s)
    BY <1>1, <1>2, <2>1, ReviewLater, TheReviews DEF ReviewOf
  <2>5. Late(reading'[s], reviews'[s].at)
    <3>1. CASE cache[s] = Unread /\ UNCHANGED reading
      BY <1>1, <2>1, <2>4, <3>1 DEF CopiesOK, CopyOK
    <3>2. CASE reading' = [reading EXCEPT ![s] = Sent]
      BY <1>1, <2>1, <3>2, ReadingMoves DEF Late, NoAnswer
    <3> QED BY <2>2, <3>1, <3>2
  <2>6. DOMAIN scores' = DOMAIN scores
    BY <1>1, ServesKeeps
  <2>7. request = [j \in 1 .. MaxRequests |-> request[j]]
    BY <1>1 DEF RequestOK
  <2> DEFINE new == [kind |-> "reading", of |-> s, from |-> reviews'[s].at,
                     score |-> score, next |-> next]
  <2>8. /\ new.kind = "reading" /\ new.of = s /\ new.from = reviews'[s].at
        /\ request' = [request EXCEPT ![i] = new]
    BY <1>4
  <2> HIDE DEF new
  <2>9. RequestsMove
    <3>1. /\ request' = [j \in 1 .. MaxRequests |-> request'[j]] /\ request'[i] = new
          /\ \A j \in 1 .. MaxRequests : j # i => request'[j] = request[j]
      BY <2>7, <2>8
    <3>2. RequestSound(i)'
      BY <2>1, <2>4, <2>5, <2>6, <2>8, <3>1 DEF RequestSound, Asked
    <3> QED BY <1>1, <3>1, <3>2 DEF RequestsMove, RequestMoves
  <2> QED BY <1>2, <2>3, <2>9, Moves
<1> QED
  BY <1>3, <1>4 DEF Saved

LEMMA NotSavedKeeps ==
    ASSUME IInv, NEW i \in 1 .. MaxRequests, NotSaved(i)
    PROVE  IInv'
<1>1. UNCHANGED <<list, cache, reading>> /\ Over({i})
  BY DEF NotSaved, page, copies
<1>2. StoreMoves
  <2>1. CASE Serves(request[i])
    BY <2>1, ServesKeeps DEF StoreMoves
  <2> QED BY <2>1, NothingMoves DEF NotSaved
<1> QED
  BY <1>1, <1>2, OverMoves, NothingMoves, Moves
-----------------------------------------------------------------------------
(* The invariant, and what it says.                                        *)

LEMMA NextPreserves == IInv /\ [Next]_vars => IInv'
<1> SUFFICES ASSUME IInv, [Next]_vars PROVE IInv'
  OBVIOUS
<1>0. DOMAIN request = 1 .. MaxRequests
  BY DEF IInv, RequestOK
<1>1. CASE Refresh \/ SelectFilter \/ OpenRow \/ Step \/ Close \/ ToggleRejecting
  BY <1>1, ShowSteps
<1>2. CASE Asking
  BY <1>2, AskSteps
<1>3. CASE Read \/ \E s \in DOMAIN scores : ServeReading(s) \/ ReadingEnds(s)
  BY <1>3, ReadSteps
<1>4. ASSUME NEW b \in Businesses, Score(b)
      PROVE  IInv'
  <2>1. UNCHANGED <<cache, reading, list, request>>
    BY <1>4 DEF Score, page, copies, asking
  <2>2. StoreMoves
    BY <1>4, Scored DEF StoreMoves, ReviewMoves
  <2> QED BY <2>1, <2>2, NothingMoves, Moves
<1>5. ASSUME NEW b \in Businesses, Lift(b)
      PROVE  IInv'
  <2>1. UNCHANGED <<cache, reading, list, request>>
    BY <1>5 DEF Lift, page, copies, asking
  <2>2. StoreMoves
    BY <1>5, Lifted DEF StoreMoves, ReviewMoves
  <2> QED BY <2>1, <2>2, NothingMoves, Moves
<1>6. ASSUME NEW i \in 1 .. MaxRequests, Saved(i)
      PROVE  IInv'
  BY <1>6, SavedKeeps
<1>7. ASSUME NEW i \in 1 .. MaxRequests, NotSaved(i)
      PROVE  IInv'
  BY <1>7, NotSavedKeeps
<1>8. CASE UNCHANGED vars
  <2>1. UNCHANGED <<database, cache, reading, list, request>>
    BY <1>8 DEF vars, page, copies, asking
  <2> QED BY <2>1, NothingMoves, Moves
<1> QED
  BY <1>0, <1>1, <1>2, <1>3, <1>4, <1>5, <1>6, <1>7, <1>8 DEF Next, Asking

\* The desk never leaves its inductive invariant: the database is sound, what a
\* score is worth follows from what it earned and what is suppressed, and the
\* page's copies and requests, any number of them at once, are about what it
\* has seen and not older than what they followed.
THEOREM DeskInvariant == Spec => []IInv
<1>1. Init => IInv
  BY InitHolds
<1>2. IInv /\ [Next]_vars => IInv'
  BY NextPreserves
<1> QED
  BY <1>1, <1>2, PTL DEF Spec

LEMMA EarnedFromWorth == IInv => QueueIsEarned
<1> SUFFICES ASSUME IInv PROVE QueueIsEarned
  OBVIOUS
<1> DEFINE due == {s \in Kept : /\ scores[s].earned /\ IsCurrent(s)
                                /\ scores[s].business \notin suppressed}
<1>1. StoreOK /\ WorthOK
  BY DEF IInv
<1>2. Candidates = due
  BY <1>1 DEF Candidates, WorthOK
<1>3. {c.score : c \in Queue} = Candidates
  <2> DEFINE row(s) == [score |-> s, status |-> ReviewOf(s).status]
  <2>1. \A s : row(s).score = s
    OBVIOUS
  <2>2. Queue = {row(s) : s \in Candidates}
    BY Zenon DEF Queue
  <2> HIDE DEF row
  <2> QED BY <2>1, <2>2
<1>4. Exported({"Unreviewed"} \cup Statuses) = Candidates
  <2>1. \A s \in Candidates : ReviewOf(s) \in AnyReview
    BY <1>1, Stored DEF Candidates, Kept
  <2>2. \A s \in Candidates : ReviewOf(s).status \in {"Unreviewed"} \cup Statuses
    BY <2>1, TheReviews DEF AnyStatus
  <2> QED BY <2>2 DEF Exported
<1>5. due \subseteq Summarised
  BY <1>1 DEF Summarised, WorthOK
<1> QED
  BY <1>2, <1>3, <1>4, <1>5, Zenon DEF QueueIsEarned

\* The queue and the export show of every business that is not suppressed its
\* last score, if it earned its place, and nothing else; the overview misses
\* none of them: after any number of assessments, decisions, suppressions,
\* lifts and deletions, in any order.
THEOREM QueueStaysEarned == Spec => []QueueIsEarned
  BY DeskInvariant, EarnedFromWorth, PTL

LEMMA OnlyScoring ==
    ASSUME IInv, [Next]_vars, NEW b \in Businesses, ~Score(b)
    PROVE  ScoresOf(b)' \subseteq ScoresOf(b)
<1>1. CASE UNCHANGED scores
  BY <1>1 DEF ScoresOf
<1>2. ASSUME NEW c \in Businesses, c # b, Score(c)
      PROVE  ScoresOf(b)' \subseteq ScoresOf(b)
  BY <1>2, Scored DEF ScoresOf
<1>3. ASSUME NEW c \in Businesses, Lift(c)
      PROVE  ScoresOf(b)' \subseteq ScoresOf(b)
  BY <1>3, Lifted
<1>4. ASSUME NEW i \in 1 .. MaxRequests, Serves(request[i])
      PROVE  ScoresOf(b)' \subseteq ScoresOf(b)
  BY <1>4, ServesKeeps
<1>5. CASE UNCHANGED database
  BY <1>1, <1>5 DEF database
<1>6. ASSUME NEW i \in DOMAIN request, Saved(i) \/ NotSaved(i)
      PROVE  ScoresOf(b)' \subseteq ScoresOf(b)
  <2>1. i \in 1 .. MaxRequests
    BY DEF IInv, RequestOK
  <2> QED BY <1>4, <1>5, <1>6, <2>1 DEF Saved, NotSaved
<1>7. CASE Refresh \/ SelectFilter \/ OpenRow \/ Step \/ Close \/ ToggleRejecting \/ Read
  BY <1>5, <1>7 DEF Refresh, SelectFilter, OpenRow, Step, Close, ToggleRejecting, Shows, Read
<1>8. CASE \E s \in DOMAIN scores : ServeReading(s) \/ ReadingEnds(s)
  BY <1>5, <1>8 DEF ServeReading, ReadingEnds
<1>9. CASE Asking
  BY <1>5, <1>9, WhatIsAsked DEF Ask
<1>10. CASE UNCHANGED vars
  BY <1>5, <1>10 DEF vars
<1> QED
  BY <1>2, <1>3, <1>6, <1>7, <1>8, <1>9, <1>10 DEF Next, Asking

\* Scoring takes over the notes of the last review.
LEMMA NotesAreTaken ==
    ASSUME IInv, NEW b \in Businesses, Score(b)
    PROVE  /\ NotesOf(b) \in {NoNotes, NotesOf(b)'}
           /\ NotesOf(b)' = NoNotes =>
                \A s \in ScoresOf(b) : reviews[s].notes = NoNotes \/ TakenBack(s)
<1> DEFINE n == Len(scores) + 1
           current == {s \in ScoresOf(b) : IsCurrent(s)}
<1>1. StoreOK
  BY DEF IInv
<1>2. /\ n \in Nat /\ DOMAIN scores = 1 .. Len(scores)
      /\ DOMAIN scores' = DOMAIN scores \cup {n} /\ n \notin DOMAIN scores
      /\ \A s \in DOMAIN scores : scores'[s] = scores[s]
      /\ scores'[n].business = b /\ scores'[n].kept /\ reviews'[n].notes = CarriedNotes(b)
      /\ Len(scores) \in Nat
  BY <1>1, Scored, Stored
<1>3. ScoresOf(b)' = ScoresOf(b) \cup {n}
  <2> HIDE DEF n
  <2> QED BY <1>2 DEF ScoresOf
<1>4. \A s \in ScoresOf(b) : s \in DOMAIN scores /\ scores[s].business = b /\ s \in Nat /\ s < n
  BY <1>2 DEF ScoresOf
<1>5. \A s \in ScoresOf(b) : IsCurrent(s) <=> \A t \in ScoresOf(b) : t <= s
  BY <1>4 DEF IsCurrent
<1>6. {s \in ScoresOf(b)' : IsCurrent(s)'} = {n}
  <2> HIDE DEF n
  <2>1. \A s \in ScoresOf(b)' : IsCurrent(s)' <=> \A t \in ScoresOf(b)' : t <= s
    <3>1. \A s \in ScoresOf(b)' : scores'[s].business = b
      BY DEF ScoresOf
    <3> QED BY <3>1 DEF IsCurrent
  <2>2. \A s \in ScoresOf(b) : ~(n <= s) /\ s <= n
    BY <1>2, <1>4
  <2> QED BY <1>2, <1>3, <2>1, <2>2
<1>7. NotesOf(b)' = CarriedNotes(b)
  <2> DEFINE later == {s \in ScoresOf(b)' : IsCurrent(s)'}
  <2>1. NotesOf(b)' = IF later = {} THEN NoNotes ELSE reviews'[CHOOSE s \in later : TRUE].notes
    BY DEF NotesOf, NoNotes
  <2>2. later = {n}
    BY <1>6
  <2> HIDE DEF later, n
  <2>3. (CHOOSE s \in {n} : TRUE) = n
    OBVIOUS
  <2> QED BY <1>2, <2>1, <2>2, <2>3
<1>8. \/ /\ CarriedNotes(b) = NoNotes
         /\ \A t \in ScoresOf(b) : reviews[t] = NoReview
      \/ \E m \in ScoresOf(b) :
           /\ reviews[m] # NoReview /\ CarriedNotes(b) = reviews[m].notes
           /\ \A t \in ScoresOf(b) : reviews[t] # NoReview => t <= m
  BY <1>1, Carried
<1>9. NoReview.notes = NoNotes
  BY TheReviews
<1>10. NotesOf(b) \in {NoNotes, CarriedNotes(b)}
  <2> DEFINE s == CHOOSE s \in current : TRUE
  <2>1. NotesOf(b) = IF current = {} THEN NoNotes ELSE reviews[s].notes
    BY DEF NotesOf
  <2>2. CASE current # {}
    <3>1. s \in current
      BY <2>2
    <3>2. NotesOf(b) = reviews[s].notes
      BY <2>1, <2>2
    <3> HIDE DEF s
    <3>3. s \in ScoresOf(b) /\ \A t \in ScoresOf(b) : t <= s
      BY <1>5, <3>1
    <3>4. CASE reviews[s] = NoReview
      BY <1>9, <3>2, <3>4
    <3>5. CASE reviews[s] # NoReview
      <4>1. PICK m \in ScoresOf(b) :
              /\ reviews[m] # NoReview /\ CarriedNotes(b) = reviews[m].notes
              /\ \A t \in ScoresOf(b) : reviews[t] # NoReview => t <= m
        BY <1>8, <3>3, <3>5
      <4>2. m = s
        BY <1>4, <3>3, <3>5, <4>1
      <4> QED BY <3>2, <4>1, <4>2
    <3> QED BY <3>4, <3>5
  <2> QED BY <2>1, <2>2
<1>11. ASSUME CarriedNotes(b) = NoNotes, NEW s \in ScoresOf(b), reviews[s].notes # NoNotes
       PROVE  TakenBack(s)
  <2>1. reviews[s] # NoReview
    BY <1>9, <1>11
  <2>2. PICK m \in ScoresOf(b) :
          /\ reviews[m] # NoReview /\ reviews[m].notes = NoNotes /\ s <= m
    BY <1>8, <1>11, <2>1
  <2>3. m # s
    BY <1>11, <2>2
  <2>4. m > s
    BY <1>4, <2>2, <2>3
  <2> QED BY <1>4, <2>2, <2>4 DEF TakenBack
<1> QED
  BY <1>7, <1>10, <1>11

\* Notes travel: a step after which a business has a score it had not is one
\* that scored it, and the new score has the notes of the one before it, or of
\* an older one to which a page that was behind wrote them, whatever the order
\* in which pages save and the worker scores.
THEOREM NotesAreCarried == Spec => NotesTravel
<1> DEFINE Travels ==
      \A b \in Businesses :
        ~(ScoresOf(b)' \subseteq ScoresOf(b)) =>
          /\ NotesOf(b) \in {NoNotes, NotesOf(b)'}
          /\ NotesOf(b)' = NoNotes =>
               \A s \in ScoresOf(b) : reviews[s].notes = NoNotes \/ TakenBack(s)
<1>1. IInv /\ [Next]_vars => [Travels]_vars
  <2> SUFFICES ASSUME IInv, [Next]_vars, NEW b \in Businesses,
                      ~(ScoresOf(b)' \subseteq ScoresOf(b))
               PROVE  /\ NotesOf(b) \in {NoNotes, NotesOf(b)'}
                      /\ NotesOf(b)' = NoNotes =>
                           \A s \in ScoresOf(b) : reviews[s].notes = NoNotes \/ TakenBack(s)
    BY Zenon
  <2>1. Score(b)
    BY OnlyScoring
  <2> QED BY <2>1, NotesAreTaken
<1> QED
  BY <1>1, DeskInvariant, PTL DEF Spec, NotesTravel

\* Only a reading that ends brings what waits for it to its end.
LEMMA OnlyReading ==
    ASSUME IInv, [Next]_vars, NEW i \in 1 .. MaxRequests,
           request[i].kind = "reading", request'[i].kind = "none"
    PROVE  ReadingEnds(request[i].of)
<1>1. request = [j \in 1 .. MaxRequests |-> request[j]] /\ ~Asked(i) /\ request'[i] # request[i]
  BY DEF IInv, RequestOK, Asked
<1>2. ~Refresh /\ ~SelectFilter /\ ~OpenRow /\ ~Step /\ ~Close /\ ~ToggleRejecting /\ ~Read
  BY <1>1 DEF Refresh, SelectFilter, OpenRow, Step, Close, ToggleRejecting, Shows, Read, asking
<1>3. \A b : ~Score(b) /\ ~Lift(b)
  BY <1>1 DEF Score, Lift, asking
<1>4. \A s : ~ServeReading(s)
  BY <1>1 DEF ServeReading, asking
<1>5. ~Asking
  <2>1. SUFFICES ASSUME NEW asked, Ask(asked), AskedSound(asked) PROVE FALSE
    BY WhatIsAsked
  <2>2. request' = [request EXCEPT ![requests + 1] = asked] /\ asked.kind # "none"
    BY <2>1 DEF Ask, AskedSound
  <2> QED BY <1>1, <2>2
<1>6. ASSUME NEW j \in DOMAIN request, Saved(j) \/ NotSaved(j)
      PROVE  FALSE
  <2>1. j # i
    BY <1>1, <1>6 DEF Saved, NotSaved
  <2>2. Over({j}) => request'[i] = request[i]
    BY <1>1, <2>1 DEF Over
  <2>3. \/ Over({j})
        \/ \E new : request' = [request EXCEPT ![j] = new]
    BY <1>6 DEF Saved, NotSaved
  <2> QED BY <1>1, <2>1, <2>2, <2>3
<1>7. ~UNCHANGED vars
  BY <1>1 DEF vars, asking
<1>8. PICK s \in DOMAIN scores : ReadingEnds(s)
  BY <1>2, <1>3, <1>4, <1>5, <1>6, <1>7 DEF Next, Asking
<1>9. i \in Awaiting(s)
  BY <1>1, <1>8 DEF ReadingEnds, Over
<1> QED
  BY <1>8, <1>9 DEF Awaiting

\* What the page shows when a change is over is what is stored, or at least not
\* older than the change, if it was changed again since; also when an older
\* reading was under way, and whatever else the page asked for meanwhile: a
\* change is over only when a reading of the open candidate ends, and if that
\* succeeds it is not older than the change.
THEOREM WhatIsSavedIsSeen == Spec => SavedIsSeen
<1> DEFINE Seen ==
      \A i \in DOMAIN request :
        (request[i].kind = "reading" /\ request'[i].kind = "none" /\ request[i].of \notin failed') =>
          /\ cache'[request[i].of].at >= request[i].from
          /\ \/ cache'[request[i].of] = ReviewOf(request[i].of)
             \/ ReviewOf(request[i].of).at > request[i].from
<1>1. IInv /\ [Next]_vars => [Seen]_vars
  <2> SUFFICES ASSUME IInv, [Next]_vars, NEW i \in DOMAIN request, request[i].kind = "reading",
                      request'[i].kind = "none", request[i].of \notin failed'
               PROVE  /\ cache'[request[i].of].at >= request[i].from
                      /\ \/ cache'[request[i].of] = ReviewOf(request[i].of)
                         \/ ReviewOf(request[i].of).at > request[i].from
    BY Zenon
  <2> DEFINE s == request[i].of
             from == request[i].from
             w == ReviewOf(s)
             r == reading[s]
  <2>1. i \in 1 .. MaxRequests /\ StoreOK /\ CopiesOK
    BY DEF IInv, RequestOK
  <2>2. ReadingEnds(s)
    BY <2>1, OnlyReading
  <2>3. r \notin NoAnswer /\ cache' = [cache EXCEPT ![s] = r]
    BY <2>2 DEF ReadingEnds, NoAnswer
  <2>4. s \in DOMAIN scores /\ from \in Nat /\ Late(r, from) /\ Past(r, w)
    BY <2>1 DEF IInv, RequestOK, RequestSound, CopiesOK, CopyOK
  <2>5. /\ s \in 1 .. MaxScores /\ w \in AnyReview /\ r \in AnyReview
        /\ cache'[s] = r
    BY <2>1, <2>3, <2>4, Stored DEF CopiesOK
  <2> HIDE DEF s, from, w, r
  <2>6. w.at \in Nat /\ r.at \in Nat
    BY <2>5, TheReviews
  <2>7. r.at >= from /\ (r = w \/ w.at > from)
    BY <2>3, <2>4, <2>6 DEF Late, Past
  <2> QED BY <2>5, <2>7 DEF s, from, w
<1> QED
  BY <1>1, DeskInvariant, PTL DEF Spec, SavedIsSeen
=============================================================================
