--------------------------- MODULE MCEvaluation ---------------------------
(***************************************************************************)
(* Instances of Evaluation for TLC.                                        *)
(***************************************************************************)
EXTENDS Evaluation

CONSTANTS t1, t2, p1, p2, l1, l2, r1, r2

Local(phones, website, pages) ==
    [scope |-> "Local", phones |-> phones, website |-> website, pages |-> pages]

\* Two listings of one garage, by either telephone, by both, by its website only,
\* and what is no candidate at all.
ListingContents ==
    {Local(<<t1>>, "none", {p1}), Local(<<t1, t2>>, "listed", {p1}),
     Local(<<t2>>, "listed", {p2}), Local(<< >>, "listed", {p1}),
     [scope |-> "Ambiguous", phones |-> << >>, website |-> "none", pages |-> {p1}],
     [scope |-> "Central", phones |-> <<t1>>, website |-> "none", pages |-> {p2}]}

\* Both listings in one run, where nothing is assessed before, or one in each of
\* two runs of the same policy.  Which listing is called l1 makes no difference.
Pairs ==
    LET order == SetToSeq(ListingContents) IN
    {[l \in Listing |-> IF l = l1 THEN order[i] ELSE order[j]] :
        <<i, j>> \in {p \in (DOMAIN order) \X (DOMAIN order) : p[1] <= p[2]}}
Apart == [l \in Listing |-> IF l = l1 THEN r1 ELSE r2]
ListingWorlds ==
    [content : Pairs, runOf : {[l \in Listing |-> r1]}, policy : {[r \in Run |-> "Skip"]}]
    \cup [content : Pairs, runOf : {Apart}, policy : {[r \in Run |-> p] : p \in Policy}]

SearchFindings ==
    {[phones |-> << >>, website |-> "none", pages |-> {}],
     [phones |-> <<t2>>, website |-> "none", pages |-> {p2}],
     [phones |-> << >>, website |-> "listed", pages |-> {p2}],
     [phones |-> << >>, website |-> "unlisted", pages |-> {p1}]}

=============================================================================
