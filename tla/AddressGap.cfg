CONSTANTS
    t1 = t1
    t2 = t2
    Thread = {t1, t2}
    None = None
    Scopes <- MCDiscovery
    WalletId = {1, 2}
    a1 = a1
    a2 = a2
    Address = {a1, a2}
    UnspentLists <- MCUnspentLists
    Payments <- MCPayments
    MaxObjects = 3
    Inputs <- MCInputs
    FeeRates = {1}
    MaxTransactions = 2
    w1 = w1
    w2 = w2
    w3 = w3
    Owner = {w1, w2}
    Prefix <- MCPrefix
    Derivation = {"bip84"}
    imported = imported
    Imported = {imported}
    GapLimit = 2
    MaxScan = 3
    MaxInfos = 12
    Component = {"network"}
    MaxMetrics = 4
    Outputs <- MCOutputs
    NetworkName = {net}
    MaxContainers = 2
SPECIFICATION Spec
CHECK_DEADLOCK FALSE
INVARIANT
    DiscoveryScansGap
