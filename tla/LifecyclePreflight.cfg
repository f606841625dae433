SPECIFICATION LifecycleSpec
CONSTANTS
    PlanStart = 1
    PlanEnd = 5
    MinRemaining = 2
    MaxEventAge = 1
    ObserverWait = 1
    ResultWait = 2
    MaxClock = 5
    MaxChanges = 2
    MaxStarts = 1
INVARIANTS
    EvidenceAgrees
    ChecksWereOfRendered
    ObserverFirst
PROPERTY BothEnd
CHECK_DEADLOCK FALSE
