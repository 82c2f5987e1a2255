SPECIFICATION Spec
CONSTANTS
    Slots = {s1, s2}
    Requests <- DialectRequests
    MultiTenant = FALSE
    Allowed = {}
    RateLimited = FALSE
    Capacity = 1
    Refill = 0
    Token = 1
    CacheEnabled = TRUE
    Similarity = TRUE
    Persist = FALSE
    MaxEntries = 1
    Memory = "off"
    Retrieve = 0
    FaultSets <- NoFaults
    TTL = 2
    Skews = {0}
    MaxTime = 1
    MaxRestarts = 0
    MaxAsks = 2
    none = none
    Digest <- MCDigest
    Local = ""
    Anonymous = "anonymous"
    NoCredential = none
    NoModel = none
    NoKey = NoKey
    NoAnswer = NoAnswer
    Score <- MCScore
    Threshold = 9
INVARIANT ReplayInDialect
SYMMETRY SlotSymmetry
CHECK_DEADLOCK FALSE
