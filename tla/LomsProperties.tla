--------------------------- MODULE LomsProperties ---------------------------
(***************************************************************************)
(* What the write path of LOMS owes its clients, on top of the invariants  *)
(* of LomsService: what an answer means, who may wait for whom,            *)
(* conservation of goods, the refinement of the abstract OrderBook, and    *)
(* the promises of the repository's documents.                             *)
(***************************************************************************)
EXTENDS LomsService

\* A success that a client was told is in the tables, where a later request
\* with that id looks for it, unless the COMMIT of its shard transaction failed:
\* that error, and no other, is answered with success (transaction.go:98).
AckedIsRecorded ==
    \A a \in acked :
        LET db == Pick(GetShardIndexFromId(a[2])) IN
        \/ <<"shard", a[1], a[2]>> \in lost
        \/ /\ a[2] \in DOMAIN orders[db]
           /\ <<a[2], Target[a[1]]>> \in events[db]

\* Requests of different databases never wait in a ring: Postgres sees every
\* deadlock, because pays and cancels lock the order's row last.
WaitsFor(w, v) == WaitsForOrder(w, v) \/ WaitsForStock(w, v)
NoDistributedDeadlock ==
    \A S \in (SUBSET Workers) \ {{}} :
        WaitRing(S, WaitsFor) => WaitRing(S, WaitsForStock)

\* Every request is answered, with success or with an error.
RequestsAreAnswered == \A w \in Workers : pc[w] # "idle" ~> pc[w] = "idle"
-----------------------------------------------------------------------------
\* The committed orders of all databases.
OrdersBook ==
    [k \in UNION {{db} \X DOMAIN orders[db] : db \in Dbs} |-> orders[k[1]][k[2]]]

\* The stock once the transactions whose twin has committed commit too.
SettledStock ==
    [s \in Skus |->
        LET settling == {w \in Workers : pc[w] = "commitStocks" /\ s \in DOMAIN stocksTx[w]}
        IN  IF settling = {} THEN stock[s] ELSE stocksTx[CHOOSE w \in settling : TRUE][s]]

Book == INSTANCE OrderBook WITH book <- OrdersBook, stock <- SettledStock

\* LomsService implements the abstract order book: both commits of a request
\* look like one step on orders and stock together.
ImplementsOrderBook == Book!BookSpec

\* Goods are conserved: reserved is what awaits payment, available what was
\* there less all that awaits or is paid, at every moment.
StockMatchesOrders == Book!StockMatchesBook
-----------------------------------------------------------------------------
(* What the documents of the repository say.                               *)

\* "резервирует нужное количество единиц товара", docs/homework-3/README.md:
\* an order awaits payment only with its goods reserved.
AwaitingIsReserved ==
    \A s \in Skus : SettledStock[s].reserved >= Book!BookedIn({Awaiting}, s)

\* "если не удалось зарезервировать стоки, заказ получает статус failed",
\* docs/homework-3/README.md: once the create that marked its order failed for
\* want of goods is over, the order is stored with that status.
FailedOrdersAreStored ==
    [][\A w \in Workers :
        shardTx[w].status = Failed /\ pc'[w] = "idle" =>
            /\ req[w].id \in DOMAIN orders'[Db(w)]
            /\ orders'[Db(w)][req[w].id].status = Failed]_vars

\* docs/homework-6/README.md: payed and cancelled are terminal.
FinalStatusStays ==
    [][\A db \in Dbs : \A id \in DOMAIN orders[db] :
        orders[db][id].status \in {Paid, Canceled} =>
            orders'[db][id].status = orders[db][id].status]_vars
=============================================================================
