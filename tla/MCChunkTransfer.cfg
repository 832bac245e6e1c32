\* Slow, silent and broken responses; waits, wake-ups, retries, storage
\* failures, the cap and damaged rows, in every order.
SPECIFICATION FairTransferSpec
CONSTANTS
    null = null
    w1 = w1
    w2 = w2
    w3 = w3
    Workers <- MCWorkers
    Sizes <- Fitting
    MaxChunkBytes = 2
    MaxTotalBytes = 7
    Attempts = 2
    MaxFaults = 3
    Files <- MCFiles
    MaxReads = 2
    Limit = 3
    Stall = 3
CHECK_DEADLOCK FALSE
INVARIANTS
    RequestInvariant
    PoolInvariant
    ReaderInvariant
PROPERTIES
    TransferEnds
