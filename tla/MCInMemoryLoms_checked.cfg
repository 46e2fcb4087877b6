\* Callers cancel only orders awaiting payment.
CONSTANTS
    s1 = s1
    s2 = s2
    s3 = s3
    Known = {s1, s2}
    Unknown = {s3}
    InitTotal <- MCInitTotal
    InitReserved <- MCInitReserved
    UInt64 <- MCUInt64
    MaxCount = 2
    BatchLen = 2
    MaxCalls = 3
    CallerChecksStatus = TRUE
SPECIFICATION Spec
INVARIANTS
    ReservedWithinTotal
    HeldCovered
