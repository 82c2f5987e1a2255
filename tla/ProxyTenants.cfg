SPECIFICATION Spec
CONSTANTS
    Slots = {s1, s2}
    Requests <- TenantRequests
    MultiTenant = TRUE
    Allowed = {"t1", "t2"}
    RateLimited = FALSE
    Capacity = 1
    Refill = 0
    Token = 1
    CacheEnabled = TRUE
    Similarity = TRUE
    Persist = FALSE
    MaxEntries = 1
    Memory = "inject"
    Retrieve = 1
    FaultSets <- MemoryFaults
    TTL = 1
    Skews = {0}
    MaxTime = 0
    MaxRestarts = 0
    MaxAsks = 2
    none = none
    Digest <- MCDigest
    Local = ""
    Anonymous = "anonymous"
    NoCredential = none
    NoModel = none
    NoKey = NoKey
    NoAnswer = NoAnswer
    Score <- MCScore
    Threshold = 9
INVARIANT TenantIsolation
SYMMETRY SlotSymmetry
CHECK_DEADLOCK FALSE
