\* Safety, refinement and liveness of the settle endpoint.
SPECIFICATION FairSpec
CONSTANTS
    r1 = r1
    r2 = r2
    k1 = k1
    p1 = p1
    p2 = p2
    None = None
    Requests <- TwoRequests
    Keys <- OneKey
    Providers <- TwoProviders
    MaxAttempts = 2
INVARIANTS
    TypeOK
    OnePaymentPerKey
    AttemptBeforeCall
    SettledIsPaid
    PendingIsExplained
PROPERTIES
    Implements
    EveryRequestAnswered
CHECK_DEADLOCK FALSE
