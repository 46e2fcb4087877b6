CONSTANTS
    s1 = s1
    s2 = s2
    h1 = h1
    h2 = h2
    r1 = r1
    SKU <- MCSKU
    InitTotal <- MCInitTotal
    UInt64 <- MCUInt64
    Handler = {h1}
    MaxOrders = 1
    MaxCount = 1
    MaxRequests = 2
    MaxFailures = 0
    MaxCrashes = 0
    Replica = {}
    CallerChecksStatus = TRUE
SPECIFICATION Spec
INVARIANT CreateRepliesNameOrders
