SPECIFICATION Spec
CONSTANTS
    Callers = {c1, c2}
    Prefixes <- MCPrefixes
    NoModel = NoModel
    TTL = 1
    ProviderTTL = 2
    MaxEntries = 1
    PruneFactor = 1
    MaxTime = 2
    MaxRestarts = 1
    MaxCopies = 3
INVARIANTS TypeOK CapSlack MapBounded LiveHandlesBacked OwnCopy
SYMMETRY CallerSymmetry
