\* Requests and the worker that pays their refunds: safety.
SPECIFICATION Spec
CONSTANTS
    r1 = r1
    r2 = r2
    c1 = c1
    c2 = c2
    p1 = p1
    p2 = p2
    w1 = w1
    None = None
    Requests <- TwoRequests
    Rows <- TwoRequests
    SwapRows <- NoSwapRow
    ChainOf <- AllOnBase
    Configs <- TwoConfigs
    Payments <- TwoPayments
    Hashed <- OneHashed
    Workers <- OneWorker
    MaxRetries = 1
    BatchLimit = 2
    MaxFaults = 1
SYMMETRY Renamings
INVARIANTS
    FailureIsQueued
    PaidBackOnce
    SpendIsOnFile
CHECK_DEADLOCK FALSE
