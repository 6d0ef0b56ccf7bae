CONSTANTS
    g = g
    a1 = a1
    a2 = a2
    b1 = b1
    t1 = t1
    t2 = t2
    None = None
    Block = {g, a1, a2, b1}
    Genesis = g
    Parent <- MCParent
    Height <- MCHeight
    Malformed = {b1}
    Thread = {t1, t2}
    Workloads <- MCShipped
    CacheSize = 2
    MaxFailures = 0
SPECIFICATION FairSpec
PROPERTIES
    PollsReachTip
