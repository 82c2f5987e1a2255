SPECIFICATION Spec
CONSTANTS
    Tenants = {t1, t2}
    Rate = 2
    Burst = 0
    Share = 1
    Capacity <- MCCapacity
    Refill <- MCRefill
    Token <- MCToken
    MaxTime = 6
    MaxRestarts = 1
INVARIANTS TypeOK RateLaw RetryHonoured RetryNotEarly
PROPERTY ImplementsSchedule
