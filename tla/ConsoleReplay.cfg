SPECIFICATION Spec
CONSTANTS
    k1 = k1
    k2 = k2
    Handlers = {h1, h2}
    Authorizations = {a1}
    Entries <- MCEntries
    FirstEntry <- MCFirstEntry
    AuthorizationEnd <- MCAuthorizationEnd
    TokenTtl = 2
    OwnerTtl = 3
    Ttls = {3}
    MaxTime = 2
    MaxPreviews = 1
    MaxChallenges = 1
    MaxApprovals = 1
    MaxEnvelopes = 1
    MaxChanges = 0
    MaxRestarts = 1
    None = None
    GateOpen = TRUE
SYMMETRY Symmetry
INVARIANT
    AcquiredReplayFails
