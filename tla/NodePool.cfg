CONSTANTS
    p1 = p1
    p2 = p2
    Url = {u1}
    App <- MCApp
    l1 = l1
    l2 = l2
    Loop <- MCLoop
    Scopes <- MCScopes
    None = None
SPECIFICATION FairSpec
INVARIANTS
    ListenersKnowStatus
    OneLoop
PROPERTIES
    StopEnds
    FailsOver
