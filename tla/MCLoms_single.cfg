\* One request goroutine: calls are sequential, the dispatcher, failures and
\* crashes interleave with them.  One read replica lags the master and
\* catches up; none of these invariants reads it, and the run shows they
\* hold with it.
CONSTANTS
    s1 = s1
    s2 = s2
    h1 = h1
    h2 = h2
    r1 = r1
    SKU <- MCSKU
    InitTotal <- MCInitTotal
    UInt64 <- MCUInt64
    Handler = {h1}
    MaxOrders = 2
    MaxCount = 1
    MaxRequests = 4
    MaxFailures = 1
    MaxCrashes = 1
    Replica = {r1}
    CallerChecksStatus = TRUE

SPECIFICATION Spec

INVARIANTS
    TypeOK
    StockWithinCapacity
    ReservationsCoverAwaitingOrders
    ConsumedMatchesPayed
    OutboxTracksStatus
    SentOnlyAfterPublish
    EarlierEventsPublishedFirst
