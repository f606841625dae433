CONSTANTS
    s1 = s1
    s2 = s2
    k1 = k1
    k2 = k2
    o1 = o1
    Sessions = {s1, s2}
    Keys = {k1, k2}
    Intents <- MCIntents
    Outputs = {o1}
    Evidence <- MCEvidence
    None = None
    ReviewTtl = 2
    MaxJobs = 1
    MaxTime = 2
    MaxIds = 2
SYMMETRY Symmetry
SPECIFICATION Spec
INVARIANTS ReturnedAgree ReturnedIsDurable OverStaysOver WithinCapacity
CHECK_DEADLOCK FALSE
