\* An exchange with its retries: safety and liveness.
SPECIFICATION SellerSpec
CONSTANTS
    s1 = s1
    x1 = x1
    a1 = a1
    None = None
    Requests <- ThreeTries
    Payloads <- OnePayload
    Adapters <- OneAdapter
    Priority <- OnlyOne
    LastHour = 1
    Sellers <- OneSeller
    MaxTries = 3
    PayloadOf <- SamePayload
INVARIANT AcceptedIsSettled
PROPERTY EveryExchangeEnds
CHECK_DEADLOCK FALSE
