------------------------------- MODULE MCLoms -------------------------------
(***************************************************************************)
(* Instances of LomsService for TLC.                                       *)
(***************************************************************************)
EXTENDS LomsProperties, TLC

CONSTANTS w1, w2

\* Three users whose keys hash to different shards.
MCUsers == {7, 8, 9}
MCHash == (7 :> 4) @@ (8 :> 5) @@ (9 :> 6)
OneUser == {7}
OneHash == (7 :> 4)

\* Three shards, two of them on one database, as in loms/.env.
TwoDbs == {"db0", "db1"}
ThreeShards == (0 :> "db1") @@ (1 :> "db0") @@ (2 :> "db0")
OneDb == {"db0"}
OneShard == [index \in 0 .. 0 |-> "db0"]

\* Two products; like the migration's, the rows start with units reserved.
Line(sku, count) == [sku |-> sku, count |-> count]
MCProducts == {"a", "b", "x"}
MCSkus == {"a", "b"}
MCStock == [s \in MCSkus |-> [available |-> 2, reserved |-> 1]]

\* Two products in both orders, so that row locks can cross, and a count that
\* does not fit into 16 bits.
CrossingCarts == {<<Line("a", 1), Line("b", 1)>>, <<Line("b", 65537), Line("a", 2)>>}
SingleCart == {<<Line("a", 1)>>}
\* More than there is.
GreedyCarts == {<<Line("a", 1)>>, <<Line("a", 3)>>}
\* Parts of the stock; a count that does not fit into 16 bits; the same product
\* named twice; a product without a row in stocks.
HalfCarts == {<<Line("a", 1)>>, <<Line("b", 65538)>>, <<Line("a", 1), Line("b", 1)>>,
              <<Line("b", 1), Line("b", 1)>>, <<Line("b", 1), Line("x", 1)>>}

\* Ids the service can hand out, two for each shard, and one that names none.
MCIds == {2000, 2001, 2002, 3000, 3001, 3002, 2500}
\* The first id of shard 0, and a negative one.
FirstIds == {2000, -1999}

WorkerSymmetry == Permutations(Workers)
=============================================================================
