\* A buyer pays for a quote that is gone.
SPECIFICATION Spec
CONSTANTS
    q1 = q1
    q2 = q2
    r1 = r1
    r2 = r2
    None = None
    Quotes <- TwoQuotes
    Requests <- TwoRequests
    Input = 1
    Fee = 1
    Floor = 1
    Yields <- OneUnit
    Others <- OnePayment
    MaxFaults = 1
CONSTRAINT FewTroubles
SYMMETRY Renamings
INVARIANTS
    PaidIsServedOrRefunded
CHECK_DEADLOCK FALSE
