SPECIFICATION Spec
CONSTANTS
    Slots = {s1, s2}
    Requests <- QuotaRequests
    MultiTenant = FALSE
    Allowed = {}
    RateLimited = TRUE
    Capacity = 1
    Refill = 1
    Token = 1
    CacheEnabled = TRUE
    Similarity = TRUE
    Persist = FALSE
    MaxEntries = 1
    Memory = "summary"
    Retrieve = 0
    FaultSets <- AllFaults
    TTL = 1
    Skews = {0}
    MaxTime = 1
    MaxRestarts = 1
    MaxAsks = 2
    none = none
    Digest <- MCDigest
    Local = ""
    Anonymous = "anonymous"
    NoCredential = none
    NoModel = none
    NoKey = NoKey
    NoAnswer = NoAnswer
    Score <- MCScore
    Threshold = 9
INVARIANTS TypeOK UpstreamWithinQuota
CHECK_DEADLOCK FALSE
