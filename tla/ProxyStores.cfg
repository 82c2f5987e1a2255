SPECIFICATION Spec
CONSTANTS
    Slots = {s1, s2}
    Requests <- StoreRequests
    MultiTenant = FALSE
    Allowed = {}
    RateLimited = FALSE
    Capacity = 1
    Refill = 0
    Token = 1
    CacheEnabled = TRUE
    Similarity = TRUE
    Persist = TRUE
    MaxEntries = 1
    Memory = "off"
    Retrieve = 0
    FaultSets <- StoreFaults
    TTL = 2
    Skews = {0, 2}
    MaxTime = 0
    MaxRestarts = 1
    MaxAsks = 2
    none = none
    Digest <- MCDigest
    Local = ""
    Anonymous = "anonymous"
    NoCredential = none
    NoModel = none
    NoKey = NoKey
    NoAnswer = NoAnswer
    Score <- MCScore
    Threshold = 9
INVARIANTS CacheSound IndexSound
PROPERTY ImplementsTransparent
SYMMETRY SlotSymmetry
CHECK_DEADLOCK FALSE
