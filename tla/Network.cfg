CONSTANTS
    None = None
    g = g
    b1 = b1
    b2 = b2
    b3 = b3
    c2 = c2
    c3 = c3
    Block = {g, b1, b2, b3, c2, c3}
    Genesis = g
    Parent <- MCParent
    Time <- MCTime
    MaxPerMessage = 2
    MaxHeaders = 4
    MaxBlocks = 3
    k1 = k1
    k2 = k2
    Caller = {k1, k2}
    p1 = p1
    p2 = p2
    PeerName = {p1, p2}
    PeerHeight = {5, 6}
    Scopes <- MCScopes
SPECIFICATION Spec
CHECK_DEADLOCK FALSE
INVARIANTS
    FramingLostByTimeout
    RightBlock
    SyncReachesTip
    PeersAgree
