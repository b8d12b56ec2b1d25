\* One run and its screenshot meet every step of a restore, of a second restore
\* after it, and of the deletions.
SPECIFICATION Spec
CONSTANTS
    Run = {r1}
    NoRun = NoRun
    MaxId = 3
    MaxArchives = 1
    MaxErrors = 1
    MaxCrashes = 1
INVARIANTS
    TypeOK
    WorkspaceIsWhole
    EvidenceIsWhole
    RecoveryHoldsEvidence
PROPERTIES
    NoActiveRunIsLost
\* A web process that dies between the renames leaves no database behind, and
\* every request fails until the next start.
CHECK_DEADLOCK FALSE
