------------------------------- MODULE MCCart -------------------------------
EXTENDS Cart, TLC

CONSTANTS u1, u2, w1, w2, p1, p2, p3

MCProduct == {p1, p2, p3}
MCCatalog == {p1, p2}

(* One client per user, or two clients on the same cart.                   *)
OwnersApart == (w1 :> u1) @@ (w2 :> u2)
OwnersShared == (w1 :> u1) @@ (w2 :> u1)

MCStock == (p1 :> 2) @@ (p2 :> 1) @@ (p3 :> 0)

MCUInt16 == 2^16
=============================================================================
