\* Two workers over a queue with an unpayable row: safety and liveness.
SPECIFICATION RefundSpec
CONSTANTS
    d1 = d1
    d2 = d2
    w1 = w1
    w2 = w2
    None = None
    Rows <- TwoRows
    SwapRows <- NoSwapRow
    ChainOf <- OneChain
    Workers <- TwoWorkers
    MaxRetries = 2
    BatchLimit = 2
    MaxFaults = 1
INVARIANTS
    RefundedWasSent
    SentOncePerTry
PROPERTY EveryRefundEnds
CHECK_DEADLOCK FALSE
