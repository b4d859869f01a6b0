----------------------------- MODULE MCCartPrices -----------------------------
(***************************************************************************)
(* An instance of CartPrices for TLC: a cart of two products, the numbers  *)
(* of its tasks, and another request that looks the first one up.          *)
(***************************************************************************)
EXTENDS CartPrices

CartAndAnother == 1 .. 3
ProductOfLookup == [l \in CartAndAnother |-> IF l = 2 THEN 2 ELSE 1]
=============================================================================
