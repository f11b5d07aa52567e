\* A batch of rows without a signer keeps the rows behind it waiting.
SPECIFICATION RefundSpec
CONSTANTS
    d1 = d1
    d2 = d2
    w1 = w1
    w2 = w2
    None = None
    Rows <- TwoRows
    SwapRows <- NoSwapRow
    ChainOf <- OneChain
    Workers <- OneWorker
    MaxRetries = 2
    BatchLimit = 1
    MaxFaults = 0
PROPERTY SkippedRowsDoNoHarm
CHECK_DEADLOCK FALSE
