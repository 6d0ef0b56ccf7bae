CONSTANTS
    None = None
    Key = {k1, k2, k3, k4}
    Value = {a, b}
    MaxSize = 2
    MaxUses = 5
    Call <- MCCall
    Digit = 4
    Width = 28
    PowLimit <- MCPowLimit
    Timespan = 8
    ActualTimespan <- MCActualTimespan
    Coin = 100
    MaxMoney = 845000000
    Premine = 50000
    Reward = 20
    HalvingInterval = 210000
SPECIFICATION Spec
CHECK_DEADLOCK FALSE
INVARIANTS
    BranchesRight
    RetargetIsSteady
    SupplyIsCapped
    KeepsMostRecentlyUsed
PROPERTIES
    KeepsPromise
