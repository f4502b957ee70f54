CONSTANTS
    Txs = {t1}
    MaxQueuedTxs = 1
    MaxKnownTxs = 1
    PackTxs = 1
    MaxBroadcasts = 1
    MaxMarks = 0
SPECIFICATION Spec
CHECK_DEADLOCK FALSE
INVARIANT PooledKeepsNonce
