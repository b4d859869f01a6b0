--------------------------- MODULE MCOrderEvents ----------------------------
(***************************************************************************)
(* Instances of OrderEvents for TLC.                                       *)
(***************************************************************************)
EXTENDS OrderEvents

\* One database with an order; and another one, visited before it, that never
\* has anything to send but may fail as well.
OnePool == <<"db1">>
TwoPools == <<"db0", "db1">>
OneOrder == [db \in {"db0", "db1"} |-> IF db = "db1" THEN {2001} ELSE {}]
OneOrderOnePool == [db \in {"db1"} |-> {2001}]
=============================================================================
