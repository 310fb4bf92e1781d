SPECIFICATION FairSpec
CONSTANTS
    dai = dai
    usdc = usdc
    psmDai = psmDai
    psmUsdc = psmUsdc
    depositDai = depositDai
    depositUsdc = depositUsdc
    Accounts = {gov}
    Governors = {gov}
    Guardians = {}
    PSMs = {psmDai, psmUsdc}
    Deposits = {depositDai, depositUsdc}
    Tokens = {dai, usdc}
    ZeroAddress = ZeroAddress
    TokenOf <- MCTokenOf
    NormalizerOf <- MCNormalizerOf
    TargetBalances = {1, 3}
    InitialBalance <- MCInitialBalance
    ExternalBalances = {0, 3}
    MAX_RATE_LIMIT_PER_SECOND = 6
    InitialRate = 6
    InitialCap = 14
    Rates = {6, 7}
    Caps = {14}
    MaxTime = 1
    MaxFlows = 1
INVARIANTS
    LinkedTokensMatch
    PCVOutflowLimited
    AllowedActionsSucceed
PROPERTIES
    NeverCrossesTarget
    KeepersReachRest
