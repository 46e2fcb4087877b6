\* Eventual delivery of the outbox: one request goroutine, the dispatcher,
\* one failure and one crash interleaving with them.
CONSTANTS
    s1 = s1
    s2 = s2
    h1 = h1
    h2 = h2
    r1 = r1
    SKU <- MCSKU
    InitTotal <- MCInitTotal
    UInt64 <- MCUInt64
    Handler = {h1}
    MaxOrders = 2
    MaxCount = 1
    MaxRequests = 3
    MaxFailures = 1
    MaxCrashes = 1
    Replica = {}
    CallerChecksStatus = TRUE

SPECIFICATION Spec

PROPERTIES
    EveryEventDelivered
    ImplementsLifecycle
