\* Safety and refinement: three requests of one payload, over two hours.
SPECIFICATION Spec
CONSTANTS
    q1 = q1
    q2 = q2
    q3 = q3
    x1 = x1
    a1 = a1
    a2 = a2
    None = None
    Requests <- ThreeRequests
    Payloads <- OnePayload
    Adapters <- TwoAdapters
    Priority <- PrimaryFirst
    LastHour = 1
SYMMETRY Renamings
INVARIANTS
    OneSettlePerKey
    FailoverTrail
    HashIsPayment
    ToldIsOnFile
PROPERTY Implements
CHECK_DEADLOCK FALSE
