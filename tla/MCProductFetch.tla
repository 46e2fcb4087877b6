---------------------------- MODULE MCProductFetch ----------------------------
(***************************************************************************)
(* Model-checking instance of ProductFetch: the constants are plain        *)
(* numbers and a flag, given in the cfg.                                   *)
(***************************************************************************)
EXTENDS ProductFetch

=============================================================================
