SPECIFICATION Spec
CONSTANTS
    Accounts = {gov, ctl}
    Governors = {gov}
    Guardians = {}
    PCVControllers = {ctl}
    Oracles = {o1, o2}
    ZeroAddress = ZeroAddress
    Deposit = Deposit
    Recipients = {Deposit, outside}
    Amounts = {1, 2}
    MaxFunds = 3
    MaxRounding = 1
    MaxRoundedAway = 2
    MaxTimesSet = 1
INVARIANTS
    OracleTracksBalance

