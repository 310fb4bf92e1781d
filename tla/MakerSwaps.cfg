SPECIFICATION Spec
CONSTANTS
    gov = gov
    USDC_SCALING_FACTOR = 3
    GemLevels = {0, 2}
    MakerFees = {0, 1}
    Callers = {gov}
    SwapRoles = {gov}
    SwapAmounts = {0, 1, 4}
    InitialSupplied <- MCInitialSupplied
    MaxPCV = 8
    TakesZero = TRUE
    Senders = {gov}
    GovernorsOrControllers = {gov}
    Recipients = {safe}
    BASIS_POINTS_GRANULARITY = 10
    REDEMPTION_FEE = 1
    FeiFees = {0, 1}
    MIN_FEI = 1
    InitialFei <- MCInitialFei
    FeiAmounts = {5}
    MinDaiAmounts = {4}
    Ratios = {7, 10}
INVARIANTS
    LeftoverIsDust
    UsdcSwapsGoThrough
PROPERTIES
    SwapsKeepPCV
    SwapsPayTheirOwnProceeds
