SPECIFICATION Spec
CONSTANTS
    Requests <- MCRequests
    SeenMax = 2
    SeenTTL = 1
    Inject = TRUE
    RepeatAware = TRUE
    MinPrefix = 4
    RateNum = 2
    RateDen = 3
    MaxTime = 2
    MaxTurns = 4
    MaxCalls = 5
    MaxRestarts = 1
INVARIANTS TypeOK SeenIsNewest VerdictsRight SampleShare
