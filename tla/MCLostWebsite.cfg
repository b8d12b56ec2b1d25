\* A website that the confirming search found, but reported among no sources.
SPECIFICATION Spec
CONSTANTS
    t1 = t1
    t2 = t2
    p1 = p1
    p2 = p2
    l1 = l1
    l2 = l2
    r1 = r1
    r2 = r2
    Listing = {l1, l2}
    Run = {r1, r2}
    Phone = {t1, t2}
    Page = {p1, p2}
    Site = Site
    NoBusiness = NoBusiness
    Worlds <- ListingWorlds
    Findings <- SearchFindings
    Severities = {5}
    Extras = {0}
    MaxInterrupts = 0
    MaxDecisions = 0
INVARIANT FoundWebsiteIsInspected
CHECK_DEADLOCK FALSE
