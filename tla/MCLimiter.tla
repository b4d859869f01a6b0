----------------------------- MODULE MCLimiter ------------------------------
(***************************************************************************)
(* Instances of Limiter for TLC: two callers, batches of two.              *)
(***************************************************************************)
EXTENDS Limiter

CONSTANTS c1, c2
=============================================================================
