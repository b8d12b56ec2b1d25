\* A worker and two maintenance operations, with deaths of either process.
SPECIFICATION FairSpec
CONSTANTS
    worker = worker
    web = web
    cycle = cycle
    restore = restore
    reset = reset
    Client = {cycle, restore, reset}
    Process = {worker, web}
    ProcessOf <- MCProcessOf
    Maintenance = {restore, reset}
    MaxCrashes = 2
    MaxErrors = 1
INVARIANTS
    TypeOK
    ExclusiveUntilCrash
    OwnerKeepsFile
PROPERTIES
    AbandonedLockIsRemoved
