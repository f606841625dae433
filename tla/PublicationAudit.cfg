SPECIFICATION Spec
CONSTANTS
    r1 = r1
    r2 = r2
    Runs = {r1}
    Requests <- MCRequests
    b1 = b1
    b2 = b2
    Bases = {b1, b2}
    None = None
    Outsider = Outsider
    MaxTime = 1
    MaxPulls = 1
    MaxOutside = 0
INVARIANT
    MutationIsRecorded
CHECK_DEADLOCK FALSE
