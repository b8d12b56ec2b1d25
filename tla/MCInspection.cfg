\* Two attempts, the second possibly beside the abandoned first.
SPECIFICATION Spec
CONSTANTS
    Attempts = 2
    MaxTunnels = 1
    MaxCrashes = 1
INVARIANT NothingIsLeftOpen
INVARIANT EvidenceIsHonest
PROPERTY InspectionEnds
