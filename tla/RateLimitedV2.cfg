SPECIFICATION Spec
CONSTANTS
    Accounts = {gov, user}
    Governors = {gov}
    MAX_RATE_LIMIT_PER_SECOND = 2
    InitialRate = 1
    InitialCap = 4
    Rates = {0, 1, 2, 3}
    Caps = {0, 2, 4, 6}
    Amounts = {0, 1, 3, 5}
    MaxTime = 5
    MaxReplenished = 3
INVARIANTS
    TypeOK
    RateLimitBound
PROPERTIES
    GovernanceNeverRefills
    ImplementsTokenBucket
