SPECIFICATION Spec
CONSTANTS
    e1 = e1
    e2 = e2
    Signatures = {e1, e2}
    Repositories <- MCRepositories
    Locks <- MCLocks
    Source = 3
    Target = 4
    Floor = 5
    MinNode = 20
    ProfileNode = 22
    None = None
    NonRegistry = NonRegistry
    Edited = Edited
    Scribbled = Scribbled
    MaxErrors = 2
    MaxEdits = 1
INVARIANT
    FailureRestores
PROPERTIES
    VerdictIsSound
    AppliedIsVerified
    EditsSurvive
CHECK_DEADLOCK FALSE
