CONSTANTS
    Txs = {t1, t2}
    MaxQueuedTxs = 1
    MaxKnownTxs = 2
    PackTxs = 1
    MaxBroadcasts = 3
    MaxMarks = 1
SPECIFICATION Spec
CHECK_DEADLOCK FALSE
INVARIANTS TypeOK WaitsForSomeone NoWriterOverlap
PROPERTIES CallerReturns QueueServed
