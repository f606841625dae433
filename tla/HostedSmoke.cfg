SPECIFICATION Spec
CONSTANTS
    Matrices <- MCMatrices
    None = None
    PlanMax = 7
    PlanMin = 6
    Ttls <- MCTtls
    Command = 1
    Job = 1
    Activation = 1
    Stop = 1
    Jumps <- MCJumps
    MaxTime = 8
    MaxJobs = 3
    MaxReuse = 1
INVARIANTS
    Contained
    GatewayWithinWindow
    ForeignSurvives
    ReportsAreTrue
    AggregateIsSound
CHECK_DEADLOCK FALSE
