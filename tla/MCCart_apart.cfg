CONSTANTS
    u1 = u1
    u2 = u2
    w1 = w1
    w2 = w2
    p1 = p1
    p2 = p2
    p3 = p3
    User = {u1, u2}
    Worker = {w1, w2}
    Product <- MCProduct
    Catalog <- MCCatalog
    Owner <- OwnersApart
    StockAvailable <- MCStock
    Counts = {1, 2}
    UInt16 <- MCUInt16
    MaxCalls = 4
    MaxFailures = 1
SPECIFICATION Spec
INVARIANTS
    TypeOK
    CartHoldsWhatWasAdded
