\* Rate limit, fee split, CDP cap, MPP charge, MCP payments, catalogue sync and listings, each on its own.
SPECIFICATION Spec
CONSTANTS
    m1 = m1
    m2 = m2
    m3 = m3
    d = d
    h = h
    i = i
    k = k
    cdp = cdp
    x402 = x402
    pageU = pageU
    pageV = pageV
    netP = netP
    netQ = netQ
    None = None
    Checks <- Three
    Minute = 2
    Ttl = 4
    Limit = 1
    Ticks = 6
    FeeRates = {0, 1, 150, 1000}
    MaxFee = 12
    LastGross = 130
    Settles <- Three
    Direct <- OneDirect
    Cap = 1
    MaxTries = 2
    LastMonth = 1
    Requests <- ThreeAndSettle
    Charges <- Three
    Keys <- One
    Hashes <- Two
    Sessions <- Three
    First <- FirstOf
    Calls <- Two
    LastHour = 1
    Endpoints <- Rows
    SourceIds = {cdp, x402}
    SOURCES <- Order
    FirstList <- Lists
    MaxSyncs = 2
    MaxPages = 2
    MaxChanges = 1
    Unowned = None
    Fields = {"url", "networks"}
    Values = {0, 1}
    Edits = {e1, e2}
    Reviews = {r1}
    NoOffer = NoOffer
INVARIANTS
    ApprovalStands
    WindowIsBounded
    SplitIsFair
    CapIsKept
    OkIsPaid
    PaidOnce
    ListedIsVisible
    DelistedIsHidden
CHECK_DEADLOCK FALSE
