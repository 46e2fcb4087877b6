\* A cart of three SKUs fetched in parallel, two retries per request, and a
\* client that may go away.  Every outcome of every round trip is possible.
\* A GetProducts call ends when it returns: nothing runs after Wait, so the
\* end state is not a deadlock.
CONSTANTS
    NumSkus = 3
    Retries = 2
    ParentMayCancel = TRUE

SPECIFICATION Spec

CHECK_DEADLOCK FALSE

INVARIANTS
    TypeOK
    WaitJoinsAll
    ErrorIsCause

PROPERTIES
    GetProductsReturns
