\* One delivery, its job and a manual retry's: safety and liveness.
SPECIFICATION FairSpec
CONSTANTS
    d1 = d1
    None = None
    Deliveries <- OneDelivery
    Jobs <- TwoJobs
    Tries = 2
    MaxFaults = 1
INVARIANTS
    SuccessWasAcked
    PendingHasJob
    DeadWasTried
    PostsAreBounded
PROPERTY EveryDeliveryEnds
CHECK_DEADLOCK FALSE
