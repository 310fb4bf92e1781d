SPECIFICATION Spec
CONSTANTS
    user = user
    UserUnderlying = 4
    UserVolt = 2
    Deployments = {TRUE}
    Accounts = {user}
    Governors = {}
    Guardians = {}
    Admins = {user}
    PCVControllers = {}
    PSM = PSM
    Targets = {target}
    Venue = Venue
    BASE = 20
    BASIS_POINTS_GRANULARITY = 10
    MAX_FEE = 3
    MAX_INT256 = 100
    Oracles = {o1}
    ZeroAddress = ZeroAddress
    FeedValues = {20, 24}
    Normalizers = {0}
    Inversions = {TRUE}
    MAX_RATE_LIMIT_PER_SECOND = 2
    InitialRate = 1
    InitialCap = 2
    Rates = {2}
    Caps = {1}
    Fees = {1}
    Thresholds = {2}
    Bounds = {5}
    InitialFloor = 5
    InitialCeiling = 20
    InitialUnderlying <- MCInitialUnderlying
    InitialVolt <- MCInitialVolt
    InitialSupply = 2
    Amounts = {1, 3}
    MinAmounts = {0, 2}
    MaxTime = 2
INVARIANTS
    MintingIsLimited
    MaxMintIsExact
PROPERTIES
    MintingIsTokenBucket
    NoTradeBeatsThePrice
