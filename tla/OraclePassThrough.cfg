SPECIFICATION ChainSpec
CONSTANTS
    BASIS_POINTS_GRANULARITY = 10
    TIMEFRAME = 3
    ChangeRates = {0, 1, 3, 7}
    StartTimes = {0, 2}
    StartPrices = {0, 1, 9, 20}
    MaxTime = 13
    BASE = 100
    Accounts = {timelock}
    Governors = {timelock}
    GovernorsOrAdmins = {timelock}
    Owner = timelock
    Oracles = {PassThrough, backup}
    PassThrough = PassThrough
    ZeroAddress = zero
    FeedValues = {0, 95}
    Normalizers <- MCNormalizers
    Inversions = {TRUE, FALSE}
    VoltOracle = VoltOracle
    OtherPrices <- MCOtherPrices
INVARIANTS
    LatenessLosesNothing
PROPERTIES
    PriceNeverFalls
    PegFollowsVolt
    InversionIsReciprocal
