\* A retry after the hour opens a second payment.
SPECIFICATION SellerSpec
CONSTANTS
    s1 = s1
    x1 = x1
    a1 = a1
    None = None
    Requests <- ThreeTries
    Payloads <- OnePayload
    Adapters <- OneAdapter
    Priority <- OnlyOne
    LastHour = 1
    Sellers <- OneSeller
    MaxTries = 3
    PayloadOf <- SamePayload
INVARIANT RetryIsDeduplicated
CHECK_DEADLOCK FALSE
