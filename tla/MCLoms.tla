------------------------------- MODULE MCLoms -------------------------------
(***************************************************************************)
(* Model-checking instance of Loms: two SKUs that orders compete for, a    *)
(* stock small enough that an order of the largest count can be refused,  *)
(* and a uint64 modulus TLC can represent.                                 *)
(***************************************************************************)
EXTENDS Loms, TLC

CONSTANTS s1, s2, h1, h2, r1

MCSKU == {s1, s2}

MCInitTotal == (s1 :> 2) @@ (s2 :> 1)

MCUInt64 == 2^20

HandlerSymmetry == Permutations({h1, h2})

=============================================================================
