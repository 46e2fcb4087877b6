\* OrderInfo right after CreateOrder, with one read replica.  One client
\* creates one order; the replica replays the master's commits at its own
\* pace.  Expected: InfoAfterCreateNotNew is violated, since GetByID reads
\* the replica, which may not yet have the order or may still show New.
CONSTANTS
    s1 = s1
    s2 = s2
    h1 = h1
    h2 = h2
    r1 = r1
    SKU <- MCSKU
    InitTotal <- MCInitTotal
    UInt64 <- MCUInt64
    Handler = {h1}
    MaxOrders = 1
    MaxCount = 1
    MaxRequests = 2
    MaxFailures = 0
    MaxCrashes = 0
    Replica = {r1}
    CallerChecksStatus = TRUE
SPECIFICATION Spec
INVARIANT InfoAfterCreateNotNew
