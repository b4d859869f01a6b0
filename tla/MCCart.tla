------------------------------- MODULE MCCart -------------------------------
(***************************************************************************)
(* An instance of Cart for TLC.                                            *)
(***************************************************************************)
EXTENDS Cart, TLC

CONSTANTS h1, h2

\* Twice this count is zero in 16 bits.
HalfRange == {32768}

HandlerSymmetry == Permutations(Handlers)
=============================================================================
