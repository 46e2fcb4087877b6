--------------------------- MODULE MCInMemoryLoms ---------------------------
EXTENDS InMemoryLoms, TLC

CONSTANTS s1, s2, s3

MCInitTotal == (s1 :> 2) @@ (s2 :> 1)
MCInitReserved == (s1 :> 0) @@ (s2 :> 0)
MCUInt64 == 2^20
=============================================================================
