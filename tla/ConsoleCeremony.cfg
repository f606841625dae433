SPECIFICATION FairSpec
CONSTANTS
    k1 = k1
    k2 = k2
    Handlers = {h1, h2}
    Authorizations = {a1}
    Entries <- MCEntries
    FirstEntry <- MCFirstEntry
    AuthorizationEnd <- MCAuthorizationEnd
    TokenTtl = 2
    OwnerTtl = 3
    Ttls = {3}
    MaxTime = 2
    MaxPreviews = 1
    MaxChallenges = 2
    MaxApprovals = 2
    MaxEnvelopes = 2
    MaxChanges = 1
    MaxRestarts = 1
    None = None
    GateOpen = TRUE
INVARIANTS
    OneApprovalPerPreview
    OneTimelyExecution
    OneWritePerAuthorization
PROPERTIES
    AuthorizedWrites
    LockIsReleased
