---------------------------- MODULE LomsService -----------------------------
(***************************************************************************)
(* The write path of LOMS: OrderCreate, OrderPay and OrderCancel, run by   *)
(* concurrent gRPC workers.  Every request opens two Postgres transactions *)
(* (WithTransactions), one on the order's shard and one on the stocks      *)
(* database, runs its statements in the order of the code, and commits     *)
(* the two one after the other, ignoring the errors of COMMIT.             *)
(*                                                                         *)
(* Postgres is modelled at its default level, READ COMMITTED: a SELECT     *)
(* sees what is committed when it runs, a row updated or inserted by an    *)
(* open transaction blocks other writers of the row, and what is blocked   *)
(* resumes against the committed row.  Every statement on shared rows is a *)
(* step of its own.                                                        *)
(***************************************************************************)
EXTENDS ShardManager, StocksRepo, Sequences, FiniteSets

CONSTANTS
    Workers,     \* concurrent request handlers
    Products,    \* product ids
    Skus,        \* those with a row in stocks
    InitStock,   \* the rows the migration inserts
    WireCarts,   \* item lists of OrderCreate, as they arrive on the wire
    ClientIds,   \* order ids clients pay and cancel
    ClientOps,   \* operations clients call, a subset of Ops
    MaxOrders,   \* bound: orders in the tables plus creates in flight
    MaxLost,     \* bound: COMMITs that fail
    Faults,      \* subset of {"stmt", "commit", "crash"}
    Clients      \* "any", or "exclusive": requests in flight share no product,
                 \* unless they pay the same order

VARIABLES
    orders,      \* db -> committed orders: id -> [user, status, items]
    events,      \* db -> committed rows of orders_events: <<id, status>>
    stock,       \* committed rows of stocks
    pc,          \* worker -> the next statement of its request
    req,         \* worker -> the request's Go variables
    shardTx,     \* worker -> what its open shard transaction has written
    stocksTx,    \* worker -> rows its open stocks transaction has written
    acked,       \* requests answered with success: <<op, id>>
    lost         \* history: requests whose COMMIT failed, <<transaction, op, id>>

vars == <<orders, events, stock, pc, req, shardTx, stocksTx, acked, lost>>

Ops == {"create", "pay", "cancel"}

ASSUME MaxOrdersAssumption == MaxOrders \in Nat
ASSUME MaxLostAssumption == MaxLost \in Nat
ASSUME SkusAssumption == Skus \subseteq Products
ASSUME InitStockAssumption == InitStock \in [Skus -> StockRow]
ASSUME ClientIdsAssumption == ClientIds \subseteq Int
ASSUME ClientOpsAssumption == ClientOps \subseteq Ops
ASSUME FaultsAssumption == Faults \subseteq {"stmt", "commit", "crash"}
ASSUME ClientsAssumption == Clients \in {"any", "exclusive"}
\* The validation middleware lets through no empty list and no zero count.
ASSUME WireCartsAssumption ==
    /\ WireCarts \subseteq Seq([sku : Products, count : Nat \ {0}])
    /\ <<>> \notin WireCarts
-----------------------------------------------------------------------------
New == "new"
Awaiting == "awaiting"
Failed == "failed"
Paid == "paid"
Canceled == "canceled"
Statuses == {New, Awaiting, Failed, Paid, Canceled}

\* The status that a successful operation gives its order.
Target == [create |-> Awaiting, pay |-> Paid, cancel |-> Canceled]

\* handler.go converts the wire's uint32 count with uint16(item.Count).
uint16(n) == n % 65536
Uint16s == 0 .. 65535
\* Mutant: the count keeps the width it has on the wire.
prepareModelItemsWide(cart) == cart
prepareModelItems(cart) ==
    [i \in DOMAIN cart |->
        [sku |-> cart[i].sku, count |-> uint16(cart[i].count)]]

NoRequest == [op |-> "none", user |-> 0, index |-> 0, id |-> 0,
              items |-> <<>>, i |-> 1, row |-> NoRow]
\* status is the version of the order's row, "none" while it is not written.
NoShardTx == [status |-> "none", events |-> {}]

\* Statements that can fail, in the order a request reaches them.
Statements ==
    {"generateId", "insert", "getOrder", "check", "read", "write", "setStatus"}
PcValues == Statements \cup {"idle", "commitShard", "commitStocks", "rollback"}

\* The table without rows.
NoRows == [x \in {} |-> {}]

\* f with the entries of g in place of its own.
Overlay(f, g) ==
    [x \in DOMAIN f \cup DOMAIN g |-> IF x \in DOMAIN g THEN g[x] ELSE f[x]]
-----------------------------------------------------------------------------
Db(w) == Pick(req[w].index)
Item(w) == req[w].items[req[w].i]
IsLastItem(w) == req[w].i = Len(req[w].items)

SkusOf(items) == {items[i].sku : i \in DOMAIN items}

\* The environment assumption: the items of w's request are in the hands of
\* nobody else, but for pays of the order that it pays itself.
MayTouch(w, items) ==
    Clients = "exclusive" =>
        \A v \in Workers \ {w} :
            \/ SkusOf(items) \cap SkusOf(req[v].items) = {}
            \/ <<"pay", "pay", req[w].id>> = <<req[w].op, req[v].op, req[v].id>>

\* v's open transaction has inserted or updated the row of order id in db.
HoldsOrder(v, db, id) ==
    /\ shardTx[v].status # "none"
    /\ Db(v) = db
    /\ req[v].id = id

\* w cannot insert or update its order's row before v's transaction ends.
WaitsForOrder(w, v) ==
    /\ pc[w] \in {"insert", "setStatus"}
    /\ v # w
    /\ HoldsOrder(v, Db(w), req[w].id)

\* w cannot update its stock row before v's transaction ends.
WaitsForStock(w, v) ==
    /\ pc[w] = "write"
    /\ v # w
    /\ Item(w).sku \in DOMAIN stocksTx[v]

GoTo(w, label) == pc' = [pc EXCEPT ![w] = label]

\* UpdateOrderStatus and AddEvent, in w's shard transaction.
WriteStatus(w, status) ==
    shardTx' = [shardTx EXCEPT ![w] =
                  [status |-> status, events |-> @.events \cup {status}]]

\* The request is answered and its handler free again.
Finish(w) ==
    /\ GoTo(w, "idle")
    /\ req' = [req EXCEPT ![w] = NoRequest]
    /\ shardTx' = [shardTx EXCEPT ![w] = NoShardTx]
    /\ stocksTx' = [stocksTx EXCEPT ![w] = NoRows]

NextItem(w, again, done) ==
    IF IsLastItem(w)
    THEN req' = [req EXCEPT ![w].i = 1, ![w].row = NoRow] /\ GoTo(w, done)
    ELSE req' = [req EXCEPT ![w].i = @ + 1, ![w].row = NoRow] /\ GoTo(w, again)
-----------------------------------------------------------------------------
Init ==
    /\ orders = [db \in Dbs |-> NoRows]
    /\ events = [db \in Dbs |-> {}]
    /\ stock = InitStock
    /\ pc = [w \in Workers |-> "idle"]
    /\ req = [w \in Workers |-> NoRequest]
    /\ shardTx = [w \in Workers |-> NoShardTx]
    /\ stocksTx = [w \in Workers |-> NoRows]
    /\ acked = {}
    /\ lost = {}

OrdersMade ==
    Cardinality(UNION {{db} \X DOMAIN orders[db] : db \in Dbs})
        + Cardinality({w \in Workers : req[w].op = "create"})

\* OrderCreate arrives: the shard comes from the user.
BeginCreate(w) ==
    /\ pc[w] = "idle"
    /\ "create" \in ClientOps
    /\ OrdersMade < MaxOrders
    /\ \E user \in Users, cart \in WireCarts :
        LET items == prepareModelItems(cart) IN
        /\ MayTouch(w, items)
        /\ req' = [req EXCEPT ![w] =
                     [NoRequest EXCEPT !.op = "create", !.user = user,
                                       !.index = GetShardIndexByKey(user),
                                       !.items = items]]
    /\ GoTo(w, "generateId")
    /\ UNCHANGED <<orders, events, stock, shardTx, stocksTx, acked, lost>>

\* OrderPay or OrderCancel arrives: the shard comes from the id.  With an id
\* that names no shard the request is refused before it touches anything; no
\* negative id is ever found.
BeginUpdate(w) ==
    /\ pc[w] = "idle"
    /\ \E op \in ClientOps \ {"create"}, id \in ClientIds \cap Nat :
        LET index == GetShardIndexFromId(id) IN
        /\ InRange(index)
        /\ req' = [req EXCEPT ![w] =
                     [NoRequest EXCEPT !.op = op, !.id = id, !.index = index]]
    /\ GoTo(w, "getOrder")
    /\ UNCHANGED <<orders, events, stock, shardTx, stocksTx, acked, lost>>

\* GetLastOrderItem reads committed rows; every committed order has items.
GenerateId(w) ==
    /\ pc[w] = "generateId"
    /\ \E id \in GeneratedIds(DOMAIN orders[Db(w)], req[w].index) :
        req' = [req EXCEPT ![w].id = id]
    /\ GoTo(w, "insert")
    /\ UNCHANGED <<orders, events, stock, shardTx, stocksTx, acked, lost>>

\* The primary keys of orders_info (order_id) and orders_items (order_id,
\* item_id) that an insert can violate.
InsertConflicts(w) ==
    \/ req[w].id \in DOMAIN orders[Db(w)]
    \/ \E i, j \in DOMAIN req[w].items :
           i # j /\ req[w].items[i].sku = req[w].items[j].sku

\* Mutant: the order and its items go to the pool, not to the transaction.
InsertOutside(w) ==
    /\ pc[w] = "insert"
    /\ ~ \E v \in Workers : WaitsForOrder(w, v)
    /\ IF InsertConflicts(w)
       THEN GoTo(w, "rollback") /\ UNCHANGED <<orders, shardTx>>
       ELSE /\ orders' = [orders EXCEPT ![Db(w)] = Overlay(@, [id \in {req[w].id} |->
                            [user |-> req[w].user, status |-> New, items |-> req[w].items]])]
            /\ shardTx' = [shardTx EXCEPT ![w] = [status |-> New, events |-> {New}]]
            /\ GoTo(w, "check")
    /\ UNCHANGED <<events, stock, req, stocksTx, acked, lost>>

\* The order, its items and the event "new", invisible until the commit.
Insert(w) ==
    /\ pc[w] = "insert"
    /\ ~ \E v \in Workers : WaitsForOrder(w, v)
    /\ IF InsertConflicts(w)
       THEN GoTo(w, "rollback") /\ UNCHANGED shardTx
       ELSE /\ shardTx' = [shardTx EXCEPT ![w] =
                             [status |-> New, events |-> {New}]]
            /\ GoTo(w, "check")
    /\ UNCHANGED <<orders, events, stock, req, stocksTx, acked, lost>>

\* Mutant: the order's row is locked with the read when it is free (FOR UPDATE
\* NOWAIT), and with its status, as now, when it is not.
GetOrderTriesLock(w) ==
    LET found == orders[Db(w)]
        free == ~ \E v \in Workers \ {w} : HoldsOrder(v, Db(w), req[w].id) IN
    /\ pc[w] = "getOrder"
    /\ IF req[w].id \in DOMAIN found /\ found[req[w].id].status = Awaiting
       THEN /\ req' = [req EXCEPT ![w].items = found[req[w].id].items]
            /\ shardTx' = [shardTx EXCEPT ![w].status = IF free THEN Awaiting ELSE @]
            /\ GoTo(w, "check")
       ELSE GoTo(w, "rollback") /\ UNCHANGED <<req, shardTx>>
    /\ UNCHANGED <<orders, events, stock, stocksTx, acked, lost>>

\* getOrder of a pay or a cancel, and the check of the status it read.
GetOrder(w) ==
    LET found == orders[Db(w)] IN
    /\ pc[w] = "getOrder"
    /\ IF req[w].id \in DOMAIN found /\ found[req[w].id].status = Awaiting
       THEN /\ MayTouch(w, found[req[w].id].items)
            /\ req' = [req EXCEPT ![w].items = found[req[w].id].items]
            /\ GoTo(w, "check")
       ELSE GoTo(w, "rollback") /\ UNCHANGED req
    /\ UNCHANGED <<orders, events, stock, shardTx, stocksTx, acked, lost>>

Stocked(w) ==
    /\ Item(w).sku \in Skus
    /\ CanProceed(req[w].op, stock[Item(w).sku], Item(w).count)

\* One GetStock of available or canBeReserved.
CheckItem(w) ==
    /\ pc[w] = "check"
    /\ Stocked(w)
    /\ NextItem(w, "check", "read")
    /\ UNCHANGED <<orders, events, stock, shardTx, stocksTx, acked, lost>>

\* Whatever error stocksrepo returns, CreateOrder marks the order failed, in
\* the transaction it then rolls back.
MarkFailed(w) ==
    IF req[w].op = "create" THEN WriteStatus(w, Failed) ELSE UNCHANGED shardTx

\* The same read when it finds too little, or no such product.
StockFailure(w) ==
    /\ pc[w] = "check"
    /\ ~ Stocked(w)
    /\ MarkFailed(w)
    /\ GoTo(w, "rollback")
    /\ UNCHANGED <<orders, events, stock, req, stocksTx, acked, lost>>

\* GetStock of the writing loop.
ReadRow(w) ==
    /\ pc[w] = "read"
    /\ req' = [req EXCEPT ![w].row = stock[Item(w).sku]]
    /\ GoTo(w, "write")
    /\ UNCHANGED <<orders, events, stock, shardTx, stocksTx, acked, lost>>

\* ReserveStock or RemoveStock with the values computed from the read.
WriteRow(w) ==
    LET sku == Item(w).sku IN
    /\ pc[w] = "write"
    /\ ~ \E v \in Workers : WaitsForStock(w, v)
    /\ stocksTx' = [stocksTx EXCEPT ![w] = Overlay(@, [s \in {sku} |->
            Written(req[w].op, req[w].row, stock[sku], Item(w).count)])]
    /\ NextItem(w, "read", "setStatus")
    /\ UNCHANGED <<orders, events, stock, shardTx, acked, lost>>

\* Mutant: orders_events without its primary key.
SetStatusUnkeyed(w) ==
    /\ pc[w] = "setStatus"
    /\ ~ \E v \in Workers : WaitsForOrder(w, v)
    /\ WriteStatus(w, Target[req[w].op])
    /\ GoTo(w, "commitShard")
    /\ UNCHANGED <<orders, events, stock, req, stocksTx, acked, lost>>

\* The new status and its event.  The primary key of orders_events
\* (order_id, order_status) refuses a second event of the same status.
SetStatus(w) ==
    LET status == Target[req[w].op] IN
    /\ pc[w] = "setStatus"
    /\ ~ \E v \in Workers : WaitsForOrder(w, v)
    /\ WriteStatus(w, status)
    /\ IF <<req[w].id, status>> \in events[Db(w)]
       THEN GoTo(w, "rollback")
       ELSE GoTo(w, "commitShard")
    /\ UNCHANGED <<orders, events, stock, req, stocksTx, acked, lost>>

\* The row that w's shard transaction installs.
InstalledOrder(w) ==
    IF req[w].op = "create"
    THEN [user |-> req[w].user, status |-> shardTx[w].status,
          items |-> req[w].items]
    ELSE [orders[Db(w)][req[w].id] EXCEPT !.status = shardTx[w].status]

\* COMMIT of the shard transaction.
CommitShard(w) ==
    /\ pc[w] = "commitShard"
    /\ orders' = [orders EXCEPT ![Db(w)] =
                    Overlay(@, [id \in {req[w].id} |-> InstalledOrder(w)])]
    /\ events' = [events EXCEPT ![Db(w)] = @ \cup ({req[w].id} \X shardTx[w].events)]
    /\ shardTx' = [shardTx EXCEPT ![w] = NoShardTx]
    /\ GoTo(w, "commitStocks")
    /\ UNCHANGED <<stock, req, stocksTx, acked, lost>>

\* COMMIT of the stocks transaction; the request is answered with success.
CommitStocks(w) ==
    /\ pc[w] = "commitStocks"
    /\ stock' = Overlay(stock, stocksTx[w])
    /\ acked' = acked \cup {<<req[w].op, req[w].id>>}
    /\ Finish(w)
    /\ UNCHANGED <<orders, events, lost>>

\* w's COMMIT of that transaction fails, and what it wrote is gone.
LoseCommit(w, transaction) ==
    /\ "commit" \in Faults
    /\ Cardinality(lost) < MaxLost
    /\ lost' = lost \cup {<<transaction, req[w].op, req[w].id>>}

\* Mutant: the events are published outside the transaction of the order.
CommitShardLostPublished(w) ==
    /\ pc[w] = "commitShard"
    /\ LoseCommit(w, "shard")
    /\ events' = [events EXCEPT ![Db(w)] = @ \cup ({req[w].id} \X shardTx[w].events)]
    /\ shardTx' = [shardTx EXCEPT ![w] = NoShardTx]
    /\ GoTo(w, "commitStocks")
    /\ UNCHANGED <<orders, stock, req, stocksTx, acked>>

\* A COMMIT that fails loses what its transaction wrote, and nothing else
\* happens: WithTransactions goes on and returns nil.
CommitShardLost(w) ==
    /\ pc[w] = "commitShard"
    /\ LoseCommit(w, "shard")
    /\ shardTx' = [shardTx EXCEPT ![w] = NoShardTx]
    /\ GoTo(w, "commitStocks")
    /\ UNCHANGED <<orders, events, stock, req, stocksTx, acked>>

CommitStocksLost(w) ==
    /\ pc[w] = "commitStocks"
    /\ LoseCommit(w, "stocks")
    /\ acked' = acked \cup {<<req[w].op, req[w].id>>}
    /\ Finish(w)
    /\ UNCHANGED <<orders, events, stock>>

\* Mutants: the error of the function is swallowed like those of COMMIT; only
\* the first transaction is rolled back.
RollbackAnsweringOk(w) ==
    /\ pc[w] = "rollback"
    /\ acked' = acked \cup {<<req[w].op, req[w].id>>}
    /\ Finish(w)
    /\ UNCHANGED <<orders, events, stock, lost>>
RollbackOfFirst(w) ==
    /\ pc[w] = "rollback"
    /\ GoTo(w, "idle")
    /\ req' = [req EXCEPT ![w] = NoRequest]
    /\ shardTx' = [shardTx EXCEPT ![w] = NoShardTx]
    /\ UNCHANGED <<orders, events, stock, stocksTx, acked, lost>>

\* The deferred rollback of both transactions after an error.
Rollback(w) ==
    /\ pc[w] = "rollback"
    /\ Finish(w)
    /\ UNCHANGED <<orders, events, stock, acked, lost>>

\* A statement fails: connection, timeout or a cancelled request context.
StatementFails(w) ==
    /\ "stmt" \in Faults
    /\ pc[w] \in Statements
    /\ \/ UNCHANGED shardTx
       \/ pc[w] \in {"check", "read", "write"} /\ MarkFailed(w)
    /\ GoTo(w, "rollback")
    /\ UNCHANGED <<orders, events, stock, req, stocksTx, acked, lost>>

\* S is a ring of workers, each waiting for another one of S.
WaitRing(S, waits(_, _)) ==
    \A v \in S : (\E u \in S : waits(v, u)) /\ (\E u \in S : waits(u, v))

\* Postgres finds a ring of its own row locks and fails one statement of it.
DeadlockVictim(w) ==
    /\ \E S \in SUBSET Workers : w \in S /\ WaitRing(S, WaitsForStock)
    /\ MarkFailed(w)
    /\ GoTo(w, "rollback")
    /\ UNCHANGED <<orders, events, stock, req, stocksTx, acked, lost>>

\* The process dies: Postgres rolls back whatever was open.
ProcessDies ==
    /\ pc' = [w \in Workers |-> "idle"]
    /\ req' = [w \in Workers |-> NoRequest]
    /\ shardTx' = [w \in Workers |-> NoShardTx]
    /\ stocksTx' = [w \in Workers |-> NoRows]
    /\ UNCHANGED <<orders, events, stock, acked, lost>>

Crash == "crash" \in Faults /\ ProcessDies

\* A request with a negative id: its shard index passes the range test and
\* panics in Pick, where nothing recovers.
NegativeId ==
    /\ \E w \in Workers : pc[w] = "idle"
    /\ \E id \in ClientIds :
          LET index == GetShardIndexFromId(id) IN InRange(index) /\ index < 0
    /\ ProcessDies

\* The statements that may have to wait for a row lock.
LockingStep(w) == Insert(w) \/ WriteRow(w) \/ SetStatus(w)

PlainStep(w) ==
    \/ GenerateId(w) \/ GetOrder(w) \/ CheckItem(w) \/ StockFailure(w)
    \/ ReadRow(w) \/ CommitShard(w) \/ CommitStocks(w) \/ Rollback(w)
    \/ DeadlockVictim(w)

Fault(w) == StatementFails(w) \/ CommitShardLost(w) \/ CommitStocksLost(w)

Next ==
    \/ \E w \in Workers :
        BeginCreate(w) \/ BeginUpdate(w) \/ PlainStep(w) \/ LockingStep(w) \/ Fault(w)
    \/ Crash
    \/ NegativeId

Spec == Init /\ [][Next]_vars

\* Handlers run until they answer; Postgres grants row locks in the order of
\* the requests for them and resolves its own deadlocks.
FairSpec ==
    /\ Spec
    /\ \A w \in Workers : WF_vars(PlainStep(w)) /\ SF_vars(LockingStep(w))
-----------------------------------------------------------------------------
ItemRow == [sku : Products, count : Uint16s]
OrderRow == [user : Users, status : Statuses, items : Seq(ItemRow)]
Request == [op : Ops \cup {"none"}, user : Int, index : ShardIndexes, id : Nat,
            items : Seq(ItemRow), i : Nat \ {0}, row : StockRow]

\* f maps some members of S into T.
IsPartial(f, S, T) ==
    /\ DOMAIN f \subseteq S
    /\ f \in [DOMAIN f -> T]

\* Every variable keeps its type.
TypeOK ==
    /\ DOMAIN orders = Dbs
    /\ orders = [db \in Dbs |-> orders[db]]
    /\ \A db \in Dbs : IsPartial(orders[db], Nat, OrderRow)
    /\ events \in [Dbs -> SUBSET (Nat \X Statuses)]
    /\ stock \in [Skus -> StockRow]
    /\ pc \in [Workers -> PcValues]
    /\ req \in [Workers -> Request]
    /\ shardTx \in [Workers -> [status : Statuses \cup {"none"}, events : SUBSET Statuses]]
    /\ stocksTx = [w \in Workers |-> stocksTx[w]]
    /\ \A w \in Workers : IsPartial(stocksTx[w], Skus, StockRow)
    /\ acked \subseteq Ops \X Nat
    /\ lost \subseteq {"shard", "stocks"} \X Ops \X Nat

\* The outbox and the orders never disagree: an event belongs to an order of
\* the same database, every order announced "new" and its present status, every
\* one that got its goods "awaiting", and one that still awaits payment no more.
\* (Publish and SetStatus share the shard transaction.)
EventsMatchOrders ==
    \A db \in Dbs :
        /\ \A e \in events[db] : e[1] \in DOMAIN orders[db]
        /\ \A id \in DOMAIN orders[db] :
            LET status == orders[db][id].status IN
            /\ {<<id, New>>, <<id, status>>} \subseteq events[db]
            /\ status # Failed => <<id, Awaiting>> \in events[db]
            /\ status = Awaiting =>
                 events[db] \cap {<<id, Paid>>, <<id, Canceled>>} = {}

\* An order is stored where its id says: the last three digits name the shard
\* its user hashes to, although ids are counted from the last order of the
\* whole database (generateId, GetByOrderId).
OrdersAreRoutable ==
    \A db \in Dbs : \A id \in DOMAIN orders[db] :
        LET index == GetShardIndexFromId(id) IN
        /\ index = GetShardIndexByKey(orders[db][id].user)
        /\ Pick(index) = db

\* Orders never vanish and never change hands: a new order arrives awaiting
\* payment or failed, an old one keeps its user and items, and changes to a
\* final status only (the primary key that Create meets, SetStatus).
MoveForward ==
    \A db \in Dbs :
        /\ DOMAIN orders[db] \subseteq DOMAIN orders'[db]
        /\ \A id \in DOMAIN orders'[db] :
            LET now == orders'[db][id] IN
            IF id \in DOMAIN orders[db]
            THEN \/ now = orders[db][id]
                 \/ /\ now = [orders[db][id] EXCEPT !.status = now.status]
                    /\ now.status \in {Paid, Canceled}
            ELSE now.status \in {Awaiting, Failed}

OrdersOnlyMoveForward == [][MoveForward]_vars
-----------------------------------------------------------------------------
(* The strengthening that makes the invariants above inductive.            *)

\* What a request knows about itself.  A create has a user and, from insert
\* on, an id of the user's shard; the others have the index that is in the id.
RequestOK(w) ==
    LET r == req[w] IN
    /\ pc[w] # "idle" => r.op # "none"
    /\ pc[w] \in {"generateId", "insert"} => r.op = "create"
    /\ pc[w] = "getOrder" => r.op # "create"
    /\ pc[w] \in {"generateId", "insert", "getOrder"} => r.i = 1
    /\ r.op = "create" =>
         /\ r.user \in Users
         /\ r.index = GetShardIndexByKey(r.user)
         /\ r.items # <<>>
    /\ r.op \in {"pay", "cancel"} => r.index = GetShardIndexFromId(r.id)
    /\ pc[w] \in {"insert", "check", "read", "write", "setStatus", "commitShard"} =>
         GetShardIndexFromId(r.id) = r.index
    /\ pc[w] \in {"check", "read", "write"} => r.i \in DOMAIN r.items
    /\ pc[w] = "check" => \A j \in 1 .. (r.i - 1) : r.items[j].sku \in Skus
    /\ pc[w] \in {"read", "write"} => \A j \in DOMAIN r.items : r.items[j].sku \in Skus

\* What its shard transaction has written, statement by statement.
ShardTxOK(w) ==
    LET r == req[w] IN
    /\ pc[w] \in {"idle", "generateId", "insert", "getOrder"} => shardTx[w] = NoShardTx
    /\ pc[w] \in {"check", "read", "write", "setStatus"} =>
         shardTx[w] = IF r.op = "create" THEN [status |-> New, events |-> {New}]
                                         ELSE NoShardTx
    /\ pc[w] = "commitShard" =>
         shardTx[w] = [status |-> Target[r.op],
                       events |-> IF r.op = "create" THEN {New, Awaiting}
                                                     ELSE {Target[r.op]}]
    /\ pc[w] = "commitStocks" => shardTx[w] = NoShardTx

\* An order exists exactly for the requests that found it; the row of a new
\* order is locked by the one create that inserted it.
OrderRowOK(w) ==
    /\ pc[w] \in {"check", "read", "write", "setStatus", "commitShard"} =>
         (req[w].id \in DOMAIN orders[Db(w)] <=> req[w].op # "create")
    /\ \A v \in Workers \ {w} :
         shardTx[w].status # "none" => ~ HoldsOrder(v, Db(w), req[w].id)

\* A stored order has items, and is none that failed: that one is rolled back.
StoredOrdersOK ==
    \A db \in Dbs : \A id \in DOMAIN orders[db] :
        /\ orders[db][id].items # <<>>
        /\ orders[db][id].status # Failed

Inv ==
    /\ TypeOK
    /\ \A w \in Workers : RequestOK(w) /\ ShardTxOK(w) /\ OrderRowOK(w)
    /\ StoredOrdersOK
    /\ EventsMatchOrders
    /\ OrdersAreRoutable
=============================================================================
