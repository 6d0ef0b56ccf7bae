CONSTANTS
    t1 = t1
    t2 = t2
    None = None
    Thread = {t1, t2}
    Workloads <- MCWorkloads
    Tx = {x, y}
    MaxMoves = 4
    MaxFailures = 1
    MaxTracks = 2
    MaxBlocks = 2
SPECIFICATION Spec
INVARIANTS
    LoopUndisturbed
    PendingIsUntold
    RemovedByDiffMeansLeft
PROPERTIES
    ConfirmedIsFinal
