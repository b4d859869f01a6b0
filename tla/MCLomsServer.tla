----------------------------- MODULE MCLomsServer -----------------------------
(***************************************************************************)
(* Instances of LomsServer for TLC.                                        *)
(***************************************************************************)
EXTENDS LomsServer

CONSTANTS h1, h2, s

\* One shard with one secondary; the stocks have none, as in server.go.
OneShard == <<"shard">>
OneSecondary == [p \in {"shard", "stocks"} |-> IF p = "shard" THEN 1 ELSE 0]
=============================================================================
