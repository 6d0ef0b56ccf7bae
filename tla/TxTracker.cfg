CONSTANTS
    Thread = {t1, t2}
    Tx = {x1, x2}
    Wallet = {w1, w2}
    Handler = {h1}
    Reentrant = {}
    Confirmations <- MCCounts
    Observed <- MCOneEvent
    MaxListed = 2
    MaxHandlers = 1
    None = None
SYMMETRY MCSymmetry
SPECIFICATION Spec
INVARIANTS
    TypeOK
    NoTrackedTxHidden
    PendingIsUnconfirmed
    HandlersSeeAnnouncedState
    ConfirmedIsAnnounced
