SPECIFICATION Spec
CONSTANTS
    k1 = k1
    k2 = k2
    o1 = o1
    o2 = o2
    None = None
    Keys <- MCKeys
    Registries <- MCRegistries
    FirstRegistry <- MCFirstRegistry
    Outputs <- MCOutputs
    PreviewTimes <- MCPreviewTimes
    Plan <- MCPlan
    MinLife = 1
    MaxLife = 3
    ResolutionAge = 1
    ResolutionLife = 6
    PreviewWindow = 3
    Budget = 2
    MaxTime = 4
    MaxRuns = 2
    MaxChanges = 2
INVARIANTS
    AcceptedIsOneRun
    KeyWasCurrent
    AnswerIsTimely
PROPERTIES
    AcquisitionEnds
CHECK_DEADLOCK FALSE
