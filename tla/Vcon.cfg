SPECIFICATION MCSpec
CONSTANTS
    Accounts = {a, b}
    ZeroAddress = ZeroAddress
    InitialHolder = a
    InitialMinter = b
    InitialSupply = 1
    MaxUint96 = 2
    MaxUint256 = 9
    Amounts = {1, 3}
    Approvals = {1, 9}
    Minters = {ZeroAddress}
    Expiries = {1}
    MaxNonce = 1
    MaxSigned = 2
    MaxCredit = 1
    MaxBlock = 4
INVARIANTS
    TypeOK
    VotesMatchBalances
    CheckpointsKeepHistory
    PriorVotesAreHistory
    TransfersNeverBlocked
    ExecutedOncePerNonce
    SpendingIsApproved
CHECK_DEADLOCK FALSE
