\* Four attempts per tick on two permits, three requests in all, one retry.
SPECIFICATION FairSpec
CONSTANTS
    Caller = {c1, c2, c3, c4}
    MaxConcurrency = 2
    Budget = 3
    MaxRetries = 1
    MaxGathers = 2
CHECK_DEADLOCK FALSE
INVARIANTS
    WithinBudget
    CallsAreBounded
    PermitsAreKept
PROPERTIES
    EveryCallReturns
