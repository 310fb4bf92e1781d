SPECIFICATION Spec
CONSTANTS
    user = user
    UserUnderlying = 2
    UserVolt = 1
    Deployments = {FALSE, TRUE}
    Accounts = {user, gov}
    Governors = {gov}
    Guardians = {gov}
    Admins = {}
    PCVControllers = {gov}
    PSM = PSM
    Targets = {target}
    Venue = Venue
    BASE = 20
    BASIS_POINTS_GRANULARITY = 10
    MAX_FEE = 3
    MAX_INT256 = 100
    Oracles = {o1}
    ZeroAddress = ZeroAddress
    FeedValues = {19}
    Normalizers = {0}
    Inversions = {FALSE, TRUE}
    MAX_RATE_LIMIT_PER_SECOND = 2
    InitialRate = 0
    InitialCap = 1
    Rates = {0}
    Caps = {0}
    Fees = {1, 4}
    Thresholds = {0, 1, 101}
    Bounds = {0, 5, 8, 14}
    InitialFloor = 5
    InitialCeiling = 14
    InitialUnderlying <- MCInitialUnderlying
    InitialVolt <- MCInitialVolt
    InitialSupply = 1
    Amounts = {1}
    MinAmounts = {0}
    MaxTime = 0
PROPERTIES
    ThresholdProtectsReserves
