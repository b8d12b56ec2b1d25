\* Two listings of the same or of two runs, which may turn out to be one business.
SPECIFICATION Spec
CONSTANTS
    t1 = t1
    t2 = t2
    p1 = p1
    p2 = p2
    l1 = l1
    l2 = l2
    r1 = r1
    r2 = r2
    Listing = {l1, l2}
    Run = {r1, r2}
    Phone = {t1, t2}
    Page = {p1, p2}
    Site = Site
    NoBusiness = NoBusiness
    Worlds <- ListingWorlds
    Findings <- SearchFindings
    Severities = {5}
    Extras = {0}
    MaxInterrupts = 1
    MaxDecisions = 2
INVARIANTS
    EvaluatedOnce
    SuppressedIsNotRecommended
    MetricsAgree
PROPERTIES
    EvidenceIsFixed
    EvaluationEnds
\* Listings end.
CHECK_DEADLOCK FALSE
