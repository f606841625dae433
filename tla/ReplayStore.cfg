SPECIFICATION StoreSpec
CONSTANTS
    Procs = {p1, p2}
    Files = {f1, f2}
    NoFile = NoFile
    NoProc = NoProc
    NoRequest = NoRequest
    Requests <- MCRequests
    Times <- MCTimes
INVARIANTS
    AtMostOnce
    ActivatedStoreIsAnchored
PROPERTIES
    ImplementsLedger
