CONSTANTS
    Thread = {t1, t2}
    Callback = {c, d}
    EventType = {e}
    Attempts = {0, 1, 2}
    MaxHistory = 1
    MaxDeliveries = 1
    Bounds <- MCBounds
SPECIFICATION FairSpec
INVARIANTS
    HistoryIsRecent
    AllRegisteredRun
    HistoryTellsTruth
    RepeatsOnlyUnanswered
    NothingAfterRemoval
PROPERTIES
    EmitsSettle
