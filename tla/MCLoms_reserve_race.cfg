\* Two calls of orderCreate race for the single unit of s2: each Reserve
\* reads the availability before the other's UPDATE commits, reserved ends
\* above total_count and StocksInfo wraps instead of answering 0.
CONSTANTS
    s1 = s1
    s2 = s2
    h1 = h1
    h2 = h2
    r1 = r1
    SKU <- MCSKU
    InitTotal <- MCInitTotal
    UInt64 <- MCUInt64
    Handler = {h1, h2}
    MaxOrders = 2
    MaxCount = 1
    MaxRequests = 2
    MaxFailures = 0
    MaxCrashes = 0
    Replica = {}
    CallerChecksStatus = TRUE

SPECIFICATION Spec

INVARIANT StocksInfoFloored
