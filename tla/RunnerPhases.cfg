SPECIFICATION Spec
CONSTANTS
    m1 = m1
    m2 = m2
    l1 = l1
    l2 = l2
    n1 = n1
    n2 = n2
    None = None
    Migrations <- MCMigrations
    Locks <- MCLocks
    Modules <- MCModules
    OldLock = l1
    Expiry = 1
    MaxTime = 1
    MaxTouches = 2
INVARIANTS
    EvidenceIsOneChain
    KilledIsFinal
PROPERTIES
    EvidenceNamesOutput
    FailureRestores
CHECK_DEADLOCK FALSE
