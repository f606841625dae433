SPECIFICATION FairSpec
CONSTANTS
    r1 = r1
    r2 = r2
    Runs = {r1, r2}
    Requests <- MCRequests
    b1 = b1
    b2 = b2
    Bases = {b1, b2}
    None = None
    Outsider = Outsider
    MaxTime = 1
    MaxPulls = 1
    MaxOutside = 1
INVARIANTS
    PublishedIsApproved
    RowTellsWhatWasDone
PROPERTIES
    ImplementsContract
    RunsEnd
CONSTRAINTS
    InOrder
    EndsOnce
CHECK_DEADLOCK FALSE
