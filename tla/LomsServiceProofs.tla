------------------------- MODULE LomsServiceProofs --------------------------
(***************************************************************************)
(* Proofs about LomsService for every number of workers, shards, products  *)
(* and orders, and every choice of faults; then two properties of          *)
(* LomsProperties, who waits for whom and what an answer means.            *)
(***************************************************************************)
EXTENDS LomsProperties, SequenceTheorems, TLAPS

\* A generated id is a natural number that routes back to the shard it was
\* generated for, whatever order was the last of the database (generateId,
\* GenerateUniqId against GetShardIndexFromId).
THEOREM GeneratedIdsRouteBack ==
    ASSUME NEW ids \in SUBSET Nat, NEW index \in ShardIndexes,
           NEW id \in GeneratedIds(ids, index)
    PROVE  id \in Nat /\ GetShardIndexFromId(id) = index
<1>1. index \in 0 .. 999
  BY ShardCountAssumption DEF ShardIndexes, MaxShards
<1>2. PICK last \in Nat : id = (last - (last % 1000)) + 1000 + index
  <2>1. CASE ids = {}
    <3>1. id = (1000 - (1000 % 1000)) + 1000 + index
      BY <2>1 DEF GeneratedIds, GenerateUniqId, MaxShards
    <3> QED  BY <3>1
  <2>2. CASE ids # {}
    BY <2>2 DEF GeneratedIds, GenerateUniqId, MaxShards
  <2> QED  BY <2>1, <2>2
<1>3. PICK q \in Nat : last - (last % 1000) = 1000 * q
  <2>1. last = 1000 * (last \div 1000) + (last % 1000) /\ last \div 1000 \in Nat
    OBVIOUS
  <2> QED  BY <2>1
<1>4. id = 1000 * (q + 1) + index
  BY <1>1, <1>2, <1>3
<1> QED  BY <1>1, <1>4 DEF GetShardIndexFromId

\* A shard index names one of the databases.
LEMMA PickType == \A index \in ShardIndexes : Pick(index) \in Dbs
BY ShardsAssumption DEF Pick

\* Writing entries of a type into a table of that type.
LEMMA OverlayType ==
    ASSUME NEW S, NEW T, NEW f, NEW g, IsPartial(f, S, T), IsPartial(g, S, T)
    PROVE  IsPartial(Overlay(f, g), S, T)
BY DEF IsPartial, Overlay

\* The conversion to uint16 stays within 16 bits.
LEMMA Uint16Type == \A n \in Nat : uint16(n) \in Uint16s
BY SMTT(60) DEF uint16, Uint16s

\* Counts can be computed with.
LEMMA Uint16Int == \A n \in Uint16s : n \in Int
BY DEF Uint16s

\* prepareModelItems turns wire items into rows, as many as it got.
LEMMA ModelItemsType ==
    ASSUME NEW cart \in Seq([sku : Products, count : Nat \ {0}]), cart # <<>>
    PROVE  prepareModelItems(cart) \in Seq(ItemRow) /\ prepareModelItems(cart) # <<>>
<1>1. Len(cart) \in Nat /\ Len(cart) > 0 /\ DOMAIN cart = 1 .. Len(cart)
  OBVIOUS
<1>2. ASSUME NEW i \in 1 .. Len(cart)
      PROVE  [sku |-> cart[i].sku, count |-> uint16(cart[i].count)] \in ItemRow
  <2>1. cart[i] \in [sku : Products, count : Nat \ {0}]
    BY ElementOfSeq
  <2>2. cart[i].sku \in Products /\ cart[i].count \in Nat
    BY <2>1
  <2> QED  BY <2>2, Uint16Type DEF ItemRow
<1>3. prepareModelItems(cart) \in [1 .. Len(cart) -> ItemRow]
  BY <1>1, <1>2 DEF prepareModelItems
<1>4. prepareModelItems(cart) \in Seq(ItemRow)
  BY <1>1, <1>3
<1>5. DOMAIN prepareModelItems(cart) # {}
  BY <1>1, <1>3
<1> QED  BY <1>4, <1>5

\* The invariant holds before the first request.
LEMMA InitInv == Init => Inv
<1> SUFFICES ASSUME Init PROVE Inv
  OBVIOUS
<1> USE DEF Init
<1>1. DOMAIN NoRows = {} /\ \A S, T : IsPartial(NoRows, S, T)
  BY DEF NoRows, IsPartial
<1>2. NoRequest \in Request
  BY ShardCountAssumption DEF NoRequest, Request, ShardIndexes, NoRow, StockRow
<1>3. TypeOK
  BY <1>1, <1>2, InitStockAssumption DEF TypeOK, NoShardTx, PcValues
<1>4. \A w \in Workers : RequestOK(w) /\ ShardTxOK(w) /\ OrderRowOK(w)
  BY DEF RequestOK, ShardTxOK, OrderRowOK, NoRequest, NoShardTx
<1>5. EventsMatchOrders /\ OrdersAreRoutable /\ StoredOrdersOK
  BY <1>1 DEF EventsMatchOrders, OrdersAreRoutable, StoredOrdersOK
<1> QED  BY <1>3, <1>4, <1>5 DEF Inv

-----------------------------------------------------------------------------
\* A step of w that leaves the committed orders and events alone has only its
\* own request to answer for.
LEMMA LocalStep ==
    ASSUME Inv, TypeOK', NEW w \in Workers, UNCHANGED <<orders, events>>,
           \A v \in Workers \ {w} : /\ pc'[v] = pc[v]
                                    /\ req'[v] = req[v]
                                    /\ shardTx'[v] = shardTx[v],
           RequestOK(w)', ShardTxOK(w)', OrderRowOK(w)'
    PROVE  Inv'
<1>1. ASSUME NEW v \in Workers, v # w
      PROVE  RequestOK(v)' /\ ShardTxOK(v)' /\ OrderRowOK(v)'
  <2>1. RequestOK(v) /\ ShardTxOK(v) /\ OrderRowOK(v)
    BY DEF Inv
  <2>2. RequestOK(v)' /\ ShardTxOK(v)'
    <3>1. pc'[v] = pc[v] /\ req'[v] = req[v] /\ shardTx'[v] = shardTx[v]
      BY <1>1
    <3>2. RequestOK(v)'
      BY <2>1, <3>1 DEF RequestOK
    <3>3. ShardTxOK(v)'
      BY <2>1, <3>1 DEF ShardTxOK
    <3> QED  BY <3>2, <3>3
  <2>3. ASSUME NEW u \in Workers \ {v}, shardTx'[v].status # "none"
        PROVE  ~ HoldsOrder(u, Db(v), req[v].id)'
    <3>1. CASE u = w
      BY <1>1, <3>1, <2>3 DEF OrderRowOK, HoldsOrder
    <3>2. CASE u # w
      BY <1>1, <3>2, <2>1, <2>3 DEF OrderRowOK, HoldsOrder, Db
    <3> QED  BY <3>1, <3>2
  <2>4. OrderRowOK(v)'
    BY <1>1, <2>1, <2>3 DEF OrderRowOK, Db
  <2> QED  BY <2>2, <2>4
<1>2. StoredOrdersOK' /\ EventsMatchOrders' /\ OrdersAreRoutable'
  BY DEF Inv, StoredOrdersOK, EventsMatchOrders, OrdersAreRoutable
<1> QED  BY <1>1, <1>2 DEF Inv

\* The types of a step that moves w on and changes its request at most.
LEMMA RequestType ==
    ASSUME TypeOK, NEW w \in Workers, NEW label \in PcValues, GoTo(w, label),
           req' \in [Workers -> Request],
           UNCHANGED <<orders, events, stock, shardTx, stocksTx, acked, lost>>
    PROVE  TypeOK'
<1>1. pc' \in [Workers -> PcValues]
  BY DEF TypeOK, GoTo
<1> QED  BY <1>1 DEF TypeOK

\* Answering a request leaves its handler idle, with nothing written.
LEMMA FinishStep ==
    ASSUME Inv, NEW w \in Workers, Finish(w), UNCHANGED <<orders, events>>,
           stock' \in [Skus -> StockRow], acked' \subseteq Ops \X Nat,
           lost' \subseteq {"shard", "stocks"} \X Ops \X Nat
    PROVE  Inv'
<1>1. NoRequest \in Request /\ IsPartial(NoRows, Skus, StockRow)
  BY ShardCountAssumption
     DEF NoRequest, Request, ShardIndexes, NoRow, StockRow, NoRows, IsPartial
<1>2. TypeOK'
  BY <1>1 DEF Inv, TypeOK, Finish, GoTo, PcValues, NoShardTx
<1>3. /\ pc'[w] = "idle" /\ req'[w] = NoRequest /\ shardTx'[w] = NoShardTx
      /\ \A v \in Workers \ {w} : /\ pc'[v] = pc[v]
                                  /\ req'[v] = req[v]
                                  /\ shardTx'[v] = shardTx[v]
  BY DEF Inv, TypeOK, Finish, GoTo
<1>4. RequestOK(w)' /\ ShardTxOK(w)' /\ OrderRowOK(w)'
  BY <1>3 DEF RequestOK, ShardTxOK, OrderRowOK, NoRequest, NoShardTx
<1> QED  BY <1>2, <1>3, <1>4, LocalStep

\* After an error the request only waits for its rollback.
LEMMA GoToRollback ==
    ASSUME Inv, NEW w \in Workers, pc[w] # "idle", GoTo(w, "rollback"),
           UNCHANGED <<orders, events, stock, req, stocksTx, acked, lost>>,
           NEW tx \in [status : Statuses \cup {"none"}, events : SUBSET Statuses],
           shardTx' = [shardTx EXCEPT ![w] = tx],
           tx.status # "none" =>
               \A v \in Workers \ {w} : ~ HoldsOrder(v, Db(w), req[w].id)
    PROVE  Inv'
<1>1. TypeOK'
  BY DEF Inv, TypeOK, GoTo, PcValues, Statements
<1>2. /\ pc'[w] = "rollback" /\ shardTx'[w] = tx
      /\ \A v \in Workers \ {w} : pc'[v] = pc[v] /\ shardTx'[v] = shardTx[v]
  BY DEF Inv, TypeOK, GoTo
<1>3. RequestOK(w)
  BY DEF Inv
<1>4. RequestOK(w)' /\ ShardTxOK(w)'
  BY <1>2, <1>3 DEF RequestOK, ShardTxOK
<1>5. OrderRowOK(w)'
  BY <1>2 DEF OrderRowOK, HoldsOrder, Db
<1> QED  BY <1>1, <1>2, <1>4, <1>5, LocalStep

\* OrderCreate starts with the shard of its user and at least one item.
LEMMA BeginCreateStep ==
    ASSUME Inv, NEW w \in Workers, BeginCreate(w)
    PROVE  Inv'
<1>1. PICK user \in Users, cart \in WireCarts :
        req' = [req EXCEPT ![w] =
                  [NoRequest EXCEPT !.op = "create", !.user = user,
                                    !.index = GetShardIndexByKey(user),
                                    !.items = prepareModelItems(cart)]]
  BY DEF BeginCreate
<1> DEFINE items == prepareModelItems(cart)
<1>2. items \in Seq(ItemRow) /\ items # <<>>
  <2>1. cart \in Seq([sku : Products, count : Nat \ {0}]) /\ cart # <<>>
    BY WireCartsAssumption
  <2> QED  BY <2>1, ModelItemsType
<1>3. GetShardIndexByKey(user) \in ShardIndexes
  BY ShardCountAssumption, HashAssumption
     DEF GetShardIndexByKey, ShardIndexes, MaxShards
<1>4. req'[w] = [op |-> "create", user |-> user,
                 index |-> GetShardIndexByKey(user), id |-> 0, items |-> items,
                 i |-> 1, row |-> NoRow]
  BY <1>1 DEF Inv, TypeOK, NoRequest
<1>5. req'[w] \in Request
  BY <1>2, <1>3, <1>4, UsersAssumption DEF Request, Ops, NoRow, StockRow
<1>6. req' \in [Workers -> Request]
  BY <1>1, <1>5 DEF Inv, TypeOK
<1>7. TypeOK'
  <2>1. GoTo(w, "generateId") /\ UNCHANGED <<orders, events, stock, shardTx, stocksTx, acked, lost>>
    BY DEF BeginCreate
  <2>2. "generateId" \in PcValues
    BY DEF PcValues, Statements
  <2> QED  BY <1>6, <2>1, <2>2, RequestType DEF Inv
<1>8. /\ pc[w] = "idle" /\ pc'[w] = "generateId" /\ UNCHANGED <<orders, events, shardTx>>
      /\ \A v \in Workers \ {w} : pc'[v] = pc[v] /\ req'[v] = req[v]
  BY <1>1 DEF Inv, TypeOK, BeginCreate, GoTo
<1>9. RequestOK(w)' /\ ShardTxOK(w)' /\ OrderRowOK(w)'
  <2>1. ShardTxOK(w)
    BY DEF Inv
  <2>2. RequestOK(w)'
    BY <1>2, <1>4, <1>8 DEF RequestOK
  <2>3. ShardTxOK(w)' /\ OrderRowOK(w)'
    BY <1>8, <2>1 DEF ShardTxOK, OrderRowOK, NoShardTx
  <2> QED  BY <2>2, <2>3
<1> QED  BY <1>7, <1>8, <1>9, LocalStep

\* OrderPay and OrderCancel start with the shard that is in the id.
LEMMA BeginUpdateStep ==
    ASSUME Inv, NEW w \in Workers, BeginUpdate(w)
    PROVE  Inv'
<1>1. PICK op \in ClientOps \ {"create"}, id \in ClientIds \cap Nat :
        /\ InRange(GetShardIndexFromId(id))
        /\ req' = [req EXCEPT ![w] = [NoRequest EXCEPT !.op = op, !.id = id,
                                        !.index = GetShardIndexFromId(id)]]
  BY DEF BeginUpdate
<1>2. op \in Ops \ {"create"} /\ id \in Nat
  BY ClientOpsAssumption
<1>3. GetShardIndexFromId(id) \in ShardIndexes
  BY <1>1, <1>2, ShardCountAssumption
     DEF InRange, GetShardIndexFromId, ShardIndexes, MaxShards
<1>4. req'[w] = [op |-> op, user |-> 0, index |-> GetShardIndexFromId(id),
                 id |-> id, items |-> <<>>, i |-> 1, row |-> NoRow]
  BY <1>1 DEF Inv, TypeOK, NoRequest
<1>5. req'[w] \in Request
  BY <1>2, <1>3, <1>4 DEF Request, Ops, NoRow, StockRow
<1>6. req' \in [Workers -> Request]
  BY <1>1, <1>5 DEF Inv, TypeOK
<1>7. TypeOK'
  <2>1. GoTo(w, "getOrder") /\ UNCHANGED <<orders, events, stock, shardTx, stocksTx, acked, lost>>
    BY DEF BeginUpdate
  <2>2. "getOrder" \in PcValues
    BY DEF PcValues, Statements
  <2> QED  BY <1>6, <2>1, <2>2, RequestType DEF Inv
<1>8. /\ pc[w] = "idle" /\ pc'[w] = "getOrder" /\ UNCHANGED <<orders, events, shardTx>>
      /\ \A v \in Workers \ {w} : pc'[v] = pc[v] /\ req'[v] = req[v]
  BY <1>1 DEF Inv, TypeOK, BeginUpdate, GoTo
<1>9. RequestOK(w)' /\ ShardTxOK(w)' /\ OrderRowOK(w)'
  <2>1. ShardTxOK(w)
    BY DEF Inv
  <2>2. RequestOK(w)'
    BY <1>2, <1>4, <1>8 DEF RequestOK, Ops
  <2>3. ShardTxOK(w)' /\ OrderRowOK(w)'
    BY <1>8, <2>1 DEF ShardTxOK, OrderRowOK, NoShardTx
  <2> QED  BY <2>2, <2>3
<1> QED  BY <1>7, <1>8, <1>9, LocalStep

\* The id of a new order is one of the user's shard.
LEMMA GenerateIdStep ==
    ASSUME Inv, NEW w \in Workers, GenerateId(w)
    PROVE  Inv'
<1>1. req[w] \in Request /\ Db(w) \in Dbs
  BY PickType DEF Inv, TypeOK, Db, Request
<1>2. PICK id \in GeneratedIds(DOMAIN orders[Db(w)], req[w].index) :
        req' = [req EXCEPT ![w].id = id]
  BY DEF GenerateId
<1>3. id \in Nat /\ GetShardIndexFromId(id) = req[w].index
  <2>1. DOMAIN orders[Db(w)] \in SUBSET Nat
    BY <1>1 DEF Inv, TypeOK, IsPartial
  <2>2. req[w].index \in ShardIndexes
    BY <1>1 DEF Request
  <2> QED  BY <2>1, <2>2, GeneratedIdsRouteBack
<1>4. req'[w] = [req[w] EXCEPT !.id = id] /\ req'[w] \in Request
  BY <1>1, <1>2, <1>3 DEF Inv, TypeOK, Request
<1>5. TypeOK'
  <2>1. req' \in [Workers -> Request]
    BY <1>2, <1>4 DEF Inv, TypeOK
  <2>2. GoTo(w, "insert") /\ UNCHANGED <<orders, events, stock, shardTx, stocksTx, acked, lost>>
    BY DEF GenerateId
  <2>3. "insert" \in PcValues
    BY DEF PcValues, Statements
  <2> QED  BY <2>1, <2>2, <2>3, RequestType DEF Inv
<1>6. /\ pc[w] = "generateId" /\ pc'[w] = "insert" /\ UNCHANGED <<orders, events, shardTx>>
      /\ \A v \in Workers \ {w} : pc'[v] = pc[v] /\ req'[v] = req[v]
  BY <1>2 DEF Inv, TypeOK, GenerateId, GoTo
<1>7. RequestOK(w)' /\ ShardTxOK(w)' /\ OrderRowOK(w)'
  <2>1. RequestOK(w) /\ ShardTxOK(w)
    BY DEF Inv
  <2>2. RequestOK(w)'
    BY <1>1, <1>3, <1>4, <1>6, <2>1 DEF RequestOK, Request
  <2>3. ShardTxOK(w)' /\ OrderRowOK(w)'
    BY <1>6, <2>1 DEF ShardTxOK, OrderRowOK, NoShardTx
  <2> QED  BY <2>2, <2>3
<1> QED  BY <1>5, <1>6, <1>7, LocalStep

\* The loops over a request's items.
LEMMA ItemType ==
    ASSUME Inv, NEW w \in Workers, pc[w] \in {"check", "read", "write"}
    PROVE  /\ req[w] \in Request /\ Item(w) \in ItemRow
           /\ DOMAIN req[w].items = 1 .. Len(req[w].items) /\ Len(req[w].items) \in Nat
           /\ req[w].i \in 1 .. Len(req[w].items)
<1>1. req[w] \in Request
  BY DEF Inv, TypeOK
<1>2. req[w].items \in Seq(ItemRow) /\ req[w].i \in DOMAIN req[w].items
  BY <1>1 DEF Inv, RequestOK, Request
<1>3. DOMAIN req[w].items = 1 .. Len(req[w].items) /\ Len(req[w].items) \in Nat
  BY <1>2
<1> QED  BY <1>1, <1>2, <1>3, ElementOfSeq DEF Item

\* In the loops over the items, the index names an item.
LEMMA AtItem ==
    ASSUME NEW r \in Request, NEW n \in Nat \ {0}
    PROVE  [r EXCEPT !.i = n, !.row = NoRow] \in Request
<1>1. NoRow \in StockRow
  BY DEF NoRow, StockRow
<1>2. [r EXCEPT !.i = n] \in Request
  BY DEF Request
<1>3. \A q \in Request : [q EXCEPT !.row = NoRow] \in Request
  BY <1>1 DEF Request
<1> QED  BY <1>2, <1>3

\* Moving on in a loop: the next item, or the first one of the next loop.
LEMMA NextItemLoop ==
    ASSUME Inv, NEW w \in Workers, pc[w] \in {"check", "read", "write"},
           NEW again \in PcValues, NEW done \in PcValues, NextItem(w, again, done)
    PROVE  /\ pc' \in [Workers -> PcValues] /\ req' \in [Workers -> Request]
           /\ \A v \in Workers \ {w} : pc'[v] = pc[v] /\ req'[v] = req[v]
           /\ \/ /\ pc'[w] = done /\ req[w].i = Len(req[w].items)
                 /\ req'[w] = [req[w] EXCEPT !.i = 1, !.row = NoRow]
              \/ /\ pc'[w] = again /\ req[w].i < Len(req[w].items)
                 /\ req'[w] = [req[w] EXCEPT !.i = req[w].i + 1, !.row = NoRow]
<1>1. req[w] \in Request /\ req[w].i \in 1 .. Len(req[w].items) /\ Len(req[w].items) \in Nat
  BY ItemType
<1>2. /\ [req[w] EXCEPT !.i = 1, !.row = NoRow] \in Request
      /\ [req[w] EXCEPT !.i = req[w].i + 1, !.row = NoRow] \in Request
  <2>1. 1 \in Nat \ {0} /\ req[w].i + 1 \in Nat \ {0}
    BY <1>1
  <2>2. [req[w] EXCEPT !.i = 1, !.row = NoRow] \in Request
    BY <1>1, <2>1, AtItem
  <2>3. [req[w] EXCEPT !.i = req[w].i + 1, !.row = NoRow] \in Request
    BY <1>1, <2>1, AtItem
  <2> QED  BY <2>2, <2>3
<1>3. ASSUME NEW label \in PcValues, NEW r \in Request,
             req' = [req EXCEPT ![w] = r], GoTo(w, label)
      PROVE  /\ pc' \in [Workers -> PcValues] /\ req' \in [Workers -> Request]
             /\ pc'[w] = label /\ req'[w] = r
             /\ \A v \in Workers \ {w} : pc'[v] = pc[v] /\ req'[v] = req[v]
  BY <1>3 DEF Inv, TypeOK, GoTo
<1>4. CASE IsLastItem(w)
  <2>1. /\ req' = [req EXCEPT ![w] = [req[w] EXCEPT !.i = 1, !.row = NoRow]]
        /\ GoTo(w, done)
    BY <1>4 DEF NextItem, Inv, TypeOK
  <2> QED  BY <1>2, <1>3, <1>4, <2>1 DEF IsLastItem
<1>5. CASE ~ IsLastItem(w)
  <2>1. /\ req' = [req EXCEPT ![w] =
                      [req[w] EXCEPT !.i = req[w].i + 1, !.row = NoRow]]
        /\ GoTo(w, again)
    BY <1>5 DEF NextItem, Inv, TypeOK
  <2>2. req[w].i < Len(req[w].items)
    BY <1>1, <1>5 DEF IsLastItem
  <2> QED  BY <1>2, <1>3, <2>1, <2>2
<1> QED  BY <1>4, <1>5

\* An insert that meets no conflict locks an order that did not exist.
LEMMA InsertStep ==
    ASSUME Inv, NEW w \in Workers, Insert(w)
    PROVE  Inv'
<1>1. /\ pc[w] = "insert" /\ shardTx[w] = NoShardTx /\ req[w] \in Request
      /\ RequestOK(w) /\ ShardTxOK(w) /\ UNCHANGED <<orders, events, stock, req, stocksTx, acked, lost>>
      /\ \A v \in Workers \ {w} : ~ HoldsOrder(v, Db(w), req[w].id)
  BY DEF Inv, TypeOK, Insert, ShardTxOK, WaitsForOrder
<1>2. CASE InsertConflicts(w)
  <2>1. GoTo(w, "rollback") /\ UNCHANGED shardTx
    BY <1>2 DEF Insert
  <2>2. shardTx' = [shardTx EXCEPT ![w] = shardTx[w]]
    BY <2>1 DEF Inv, TypeOK
  <2>3. shardTx[w] \in [status : Statuses \cup {"none"}, events : SUBSET Statuses]
    BY DEF Inv, TypeOK
  <2> QED  BY <1>1, <2>1, <2>2, <2>3, GoToRollback
<1>3. CASE ~ InsertConflicts(w)
  <2>1. /\ shardTx' = [shardTx EXCEPT ![w] = [status |-> New, events |-> {New}]]
        /\ GoTo(w, "check")
    BY <1>3 DEF Insert
  <2>2. TypeOK'
    BY <1>1, <2>1 DEF Inv, TypeOK, GoTo, PcValues, Statements, Statuses
  <2>3. /\ pc'[w] = "check" /\ shardTx'[w] = [status |-> New, events |-> {New}]
        /\ \A v \in Workers \ {w} : pc'[v] = pc[v] /\ shardTx'[v] = shardTx[v]
    BY <2>1 DEF Inv, TypeOK, GoTo
  <2>4. req[w].id \notin DOMAIN orders[Db(w)]
    BY <1>3 DEF InsertConflicts
  <2>5. req[w].op = "create" /\ req[w].items # <<>>
    BY <1>1 DEF RequestOK
  <2>6. req[w].i \in DOMAIN req[w].items /\ 1 .. (req[w].i - 1) = {}
    <3>1. req[w].i = 1 /\ req[w].items \in Seq(ItemRow)
      BY <1>1 DEF RequestOK, Request
    <3>2. 1 \in DOMAIN req[w].items
      BY <2>5, <3>1
    <3> QED  BY <3>1, <3>2
  <2>7. RequestOK(w)'
    BY <1>1, <2>3, <2>5, <2>6 DEF RequestOK
  <2>8. ShardTxOK(w)'
    BY <1>1, <2>3, <2>5 DEF ShardTxOK
  <2>9. OrderRowOK(w)'
    BY <1>1, <2>3, <2>4, <2>5 DEF OrderRowOK, HoldsOrder, Db
  <2> QED  BY <1>1, <2>2, <2>3, <2>7, <2>8, <2>9, LocalStep
<1> QED  BY <1>2, <1>3

\* A pay or a cancel goes on only with an order that it found.
LEMMA GetOrderStep ==
    ASSUME Inv, NEW w \in Workers, GetOrder(w)
    PROVE  Inv'
<1> DEFINE id == req[w].id
           order == orders[Db(w)][id]
<1>1. /\ pc[w] = "getOrder" /\ shardTx[w] = NoShardTx /\ req[w] \in Request
      /\ Db(w) \in Dbs /\ RequestOK(w)
      /\ UNCHANGED <<orders, events, stock, shardTx, stocksTx, acked, lost>>
  BY PickType DEF Inv, TypeOK, GetOrder, ShardTxOK, Db, Request
<1>2. CASE id \in DOMAIN orders[Db(w)] /\ order.status = Awaiting
  <2>1. req' = [req EXCEPT ![w].items = order.items] /\ GoTo(w, "check")
    BY <1>2 DEF GetOrder
  <2>2. order \in OrderRow /\ order.items # <<>>
    BY <1>1, <1>2 DEF Inv, TypeOK, IsPartial, StoredOrdersOK
  <2>3. order.items \in Seq(ItemRow) /\ 1 \in DOMAIN order.items
    <3>1. order.items \in Seq(ItemRow)
      BY <2>2 DEF OrderRow
    <3> QED  BY <2>2, <3>1
  <2>4. req'[w] = [req[w] EXCEPT !.items = order.items]
    BY <2>1 DEF Inv, TypeOK
  <2>5. [req[w] EXCEPT !.items = order.items] \in Request
    BY <1>1, <2>3 DEF Request
  <2>6. req' \in [Workers -> Request]
    BY <2>1, <2>5 DEF Inv, TypeOK
  <2>7. TypeOK'
    <3>1. "check" \in PcValues
      BY DEF PcValues, Statements
    <3> QED  BY <1>1, <2>1, <2>6, <3>1, RequestType DEF Inv
  <2>8. /\ pc'[w] = "check"
        /\ \A v \in Workers \ {w} : pc'[v] = pc[v] /\ req'[v] = req[v]
    BY <2>1 DEF Inv, TypeOK, GoTo
  <2>9. /\ req[w].op \in {"pay", "cancel"} /\ req[w].i = 1
        /\ req[w].index = GetShardIndexFromId(id)
    BY <1>1 DEF RequestOK, Request, Ops
  <2>10. /\ req'[w].op = req[w].op /\ req'[w].i = 1 /\ req'[w].id = id
         /\ req'[w].index = req[w].index /\ req'[w].items = order.items
    BY <1>1, <2>4, <2>9 DEF Request
  <2>11. RequestOK(w)'
    BY <2>3, <2>8, <2>9, <2>10 DEF RequestOK
  <2>12. ShardTxOK(w)' /\ OrderRowOK(w)'
    BY <1>1, <1>2, <2>8, <2>9, <2>10 DEF ShardTxOK, OrderRowOK, NoShardTx, Db
  <2> QED  BY <1>1, <2>7, <2>8, <2>11, <2>12, LocalStep
<1>3. CASE ~ (id \in DOMAIN orders[Db(w)] /\ order.status = Awaiting)
  <2>1. GoTo(w, "rollback") /\ UNCHANGED req
    BY <1>3 DEF GetOrder
  <2>2. /\ shardTx' = [shardTx EXCEPT ![w] = shardTx[w]]
        /\ shardTx[w] \in [status : Statuses \cup {"none"}, events : SUBSET Statuses]
    BY <1>1 DEF Inv, TypeOK
  <2>3. shardTx[w].status = "none"
    BY <1>1 DEF NoShardTx
  <2> QED  BY <1>1, <2>1, <2>2, <2>3, GoToRollback
<1> QED  BY <1>2, <1>3

\* The checking loop has seen a stocks row of every item it passed.
LEMMA CheckItemStep ==
    ASSUME Inv, NEW w \in Workers, CheckItem(w)
    PROVE  Inv'
<1>1. /\ pc[w] = "check" /\ Item(w).sku \in Skus /\ NextItem(w, "check", "read")
      /\ UNCHANGED <<orders, events, stock, shardTx, stocksTx, acked, lost>>
  BY DEF CheckItem, Stocked
<1>2. "check" \in PcValues /\ "read" \in PcValues
  BY DEF PcValues, Statements
<1>3. /\ req[w] \in Request /\ req[w].i \in 1 .. Len(req[w].items)
      /\ DOMAIN req[w].items = 1 .. Len(req[w].items) /\ Len(req[w].items) \in Nat
  BY <1>1, ItemType
<1>4. /\ pc' \in [Workers -> PcValues] /\ req' \in [Workers -> Request]
      /\ \A v \in Workers \ {w} : pc'[v] = pc[v] /\ req'[v] = req[v]
      /\ \/ /\ pc'[w] = "read" /\ req[w].i = Len(req[w].items)
            /\ req'[w] = [req[w] EXCEPT !.i = 1, !.row = NoRow]
         \/ /\ pc'[w] = "check" /\ req[w].i < Len(req[w].items)
            /\ req'[w] = [req[w] EXCEPT !.i = req[w].i + 1, !.row = NoRow]
  BY <1>1, <1>2, NextItemLoop
<1>5. TypeOK'
  BY <1>1, <1>4 DEF Inv, TypeOK
<1>6. RequestOK(w) /\ ShardTxOK(w) /\ OrderRowOK(w)
  BY DEF Inv
<1>7. \A j \in 1 .. req[w].i : req[w].items[j].sku \in Skus
  BY <1>1, <1>3, <1>6 DEF RequestOK, Item
<1>8. /\ req'[w].op = req[w].op /\ req'[w].user = req[w].user
      /\ req'[w].id = req[w].id /\ req'[w].index = req[w].index
      /\ req'[w].items = req[w].items
  BY <1>3, <1>4 DEF Request
<1>9. RequestOK(w)'
  <2>1. CASE pc'[w] = "read"
    <3>1. req'[w].i = 1 /\ req[w].i = Len(req[w].items)
      BY <1>3, <1>4, <2>1 DEF Request
    <3> QED  BY <1>1, <1>3, <1>6, <1>7, <1>8, <2>1, <3>1 DEF RequestOK
  <2>2. CASE pc'[w] = "check"
    <3>1. req'[w].i = req[w].i + 1 /\ req[w].i < Len(req[w].items)
      BY <1>3, <1>4, <2>2 DEF Request
    <3>2. req'[w].i \in DOMAIN req[w].items /\ 1 .. (req'[w].i - 1) = 1 .. req[w].i
      BY <1>3, <3>1
    <3> QED  BY <1>1, <1>6, <1>7, <1>8, <2>2, <3>2 DEF RequestOK
  <2> QED  BY <1>4, <2>1, <2>2
<1>10. ShardTxOK(w)' /\ OrderRowOK(w)'
  BY <1>1, <1>4, <1>6, <1>8 DEF ShardTxOK, OrderRowOK, HoldsOrder, Db
<1> QED  BY <1>1, <1>4, <1>5, <1>9, <1>10, LocalStep

\* An error of the stocks leads to the rollback, with the order marked failed.
LEMMA MarkFailedStep ==
    ASSUME Inv, NEW w \in Workers, pc[w] \in {"check", "read", "write"},
           MarkFailed(w), GoTo(w, "rollback"),
           UNCHANGED <<orders, events, stock, req, stocksTx, acked, lost>>
    PROVE  Inv'
<1>1. /\ ShardTxOK(w) /\ OrderRowOK(w)
      /\ shardTx[w] \in [status : Statuses \cup {"none"}, events : SUBSET Statuses]
  BY DEF Inv, TypeOK
<1>2. CASE req[w].op = "create"
  <2>1. shardTx[w] = [status |-> New, events |-> {New}]
    BY <1>1, <1>2 DEF ShardTxOK
  <2> DEFINE tx == [status |-> Failed, events |-> {New, Failed}]
  <2>2. shardTx' = [shardTx EXCEPT ![w] = tx]
    BY <1>2, <2>1 DEF Inv, TypeOK, MarkFailed, WriteStatus
  <2>3. tx \in [status : Statuses \cup {"none"}, events : SUBSET Statuses]
    BY DEF Statuses
  <2>4. \A v \in Workers \ {w} : ~ HoldsOrder(v, Db(w), req[w].id)
    BY <1>1, <2>1 DEF OrderRowOK, New
  <2> HIDE DEF tx
  <2> QED  BY <2>2, <2>3, <2>4, GoToRollback
<1>3. CASE req[w].op # "create"
  <2>1. shardTx' = [shardTx EXCEPT ![w] = shardTx[w]]
    BY <1>3 DEF Inv, TypeOK, MarkFailed
  <2>2. shardTx[w].status = "none"
    BY <1>1, <1>3 DEF ShardTxOK, NoShardTx
  <2> QED  BY <1>1, <2>1, <2>2, GoToRollback
<1> QED  BY <1>2, <1>3

\* A failed check.
LEMMA StockFailureStep ==
    ASSUME Inv, NEW w \in Workers, StockFailure(w)
    PROVE  Inv'
  BY MarkFailedStep DEF StockFailure

\* Reading a row changes only the request that reads it.
LEMMA ReadRowStep ==
    ASSUME Inv, NEW w \in Workers, ReadRow(w)
    PROVE  Inv'
<1> DEFINE row == stock[Item(w).sku]
<1>1. /\ pc[w] = "read" /\ GoTo(w, "write") /\ req' = [req EXCEPT ![w].row = row]
      /\ UNCHANGED <<orders, events, stock, shardTx, stocksTx, acked, lost>>
      /\ RequestOK(w) /\ ShardTxOK(w) /\ OrderRowOK(w) /\ req[w] \in Request
  BY DEF Inv, TypeOK, ReadRow
<1>2. row \in StockRow
  <2>1. Item(w).sku \in Skus
    BY <1>1 DEF RequestOK, Item
  <2> QED  BY <2>1 DEF Inv, TypeOK
<1> HIDE DEF row
<1>3. req'[w] = [req[w] EXCEPT !.row = row] /\ req'[w] \in Request
  BY <1>1, <1>2 DEF Inv, TypeOK, Request
<1>4. TypeOK'
  <2>1. req' \in [Workers -> Request]
    BY <1>1, <1>3 DEF Inv, TypeOK
  <2>2. "write" \in PcValues
    BY DEF PcValues, Statements
  <2> QED  BY <1>1, <2>1, <2>2, RequestType DEF Inv
<1>5. /\ pc'[w] = "write"
      /\ \A v \in Workers \ {w} : pc'[v] = pc[v] /\ req'[v] = req[v]
  BY <1>1 DEF Inv, TypeOK, GoTo
<1>6. /\ req'[w].op = req[w].op /\ req'[w].user = req[w].user
      /\ req'[w].id = req[w].id /\ req'[w].index = req[w].index
      /\ req'[w].items = req[w].items /\ req'[w].i = req[w].i
  BY <1>1, <1>3 DEF Request
<1>7. RequestOK(w)'
  BY <1>1, <1>5, <1>6 DEF RequestOK
<1>8. ShardTxOK(w)' /\ OrderRowOK(w)'
  BY <1>1, <1>5, <1>6 DEF ShardTxOK, OrderRowOK, HoldsOrder, Db
<1> QED  BY <1>1, <1>4, <1>5, <1>7, <1>8, LocalStep

\* What an UPDATE writes is a stocks row again.
LEMMA WrittenType ==
    ASSUME NEW op \in Ops, NEW snap \in StockRow, NEW cur \in StockRow, NEW n \in Int
    PROVE  Written(op, snap, cur, n) \in StockRow
BY DEF Written, ReserveItem, RemoveItem, CancelItem, StockRow, Ops

\* Writing a row changes only the request's own stocks transaction.
LEMMA WriteRowStep ==
    ASSUME Inv, NEW w \in Workers, WriteRow(w)
    PROVE  Inv'
<1> DEFINE sku == Item(w).sku
           row == Written(req[w].op, req[w].row, stock[sku], Item(w).count)
           written == [s \in {sku} |-> row]
<1>1. /\ pc[w] = "write" /\ NextItem(w, "read", "setStatus")
      /\ stocksTx' = [stocksTx EXCEPT ![w] = Overlay(stocksTx[w], written)]
      /\ UNCHANGED <<orders, events, stock, shardTx, acked, lost>>
      /\ RequestOK(w) /\ ShardTxOK(w) /\ OrderRowOK(w)
  BY DEF Inv, TypeOK, WriteRow
<1>2. "read" \in PcValues /\ "setStatus" \in PcValues
  BY DEF PcValues, Statements
<1>3. /\ req[w] \in Request /\ req[w].i \in 1 .. Len(req[w].items) /\ Item(w) \in ItemRow
      /\ DOMAIN req[w].items = 1 .. Len(req[w].items) /\ Len(req[w].items) \in Nat
  BY <1>1, ItemType
<1>4. /\ pc' \in [Workers -> PcValues] /\ req' \in [Workers -> Request]
      /\ \A v \in Workers \ {w} : pc'[v] = pc[v] /\ req'[v] = req[v]
      /\ \/ /\ pc'[w] = "setStatus" /\ req[w].i = Len(req[w].items)
            /\ req'[w] = [req[w] EXCEPT !.i = 1, !.row = NoRow]
         \/ /\ pc'[w] = "read" /\ req[w].i < Len(req[w].items)
            /\ req'[w] = [req[w] EXCEPT !.i = req[w].i + 1, !.row = NoRow]
  BY <1>1, <1>2, NextItemLoop
<1>5. row \in StockRow /\ sku \in Skus
  <2>1. sku \in Skus
    BY <1>1, <1>3 DEF RequestOK, Item
  <2>2. stock[sku] \in StockRow
    BY <2>1 DEF Inv, TypeOK
  <2>3. req[w].op \in Ops /\ req[w].row \in StockRow
    BY <1>1, <1>3 DEF RequestOK, Request
  <2>4. Item(w).count \in Int
    <3>1. Item(w).count \in Uint16s
      BY <1>3 DEF ItemRow
    <3> QED  BY <3>1, Uint16Int
  <2> QED  BY <2>1, <2>2, <2>3, <2>4, WrittenType
<1> HIDE DEF row, sku
<1>6. TypeOK'
  <2>1. IsPartial(written, Skus, StockRow)
    BY <1>5 DEF IsPartial
  <2>2. IsPartial(stocksTx[w], Skus, StockRow)
    BY DEF Inv, TypeOK
  <2>3. IsPartial(Overlay(stocksTx[w], written), Skus, StockRow)
    BY <2>1, <2>2, OverlayType
  <2> HIDE DEF written
  <2>4. /\ stocksTx' = [v \in Workers |-> stocksTx'[v]]
        /\ \A v \in Workers : IsPartial(stocksTx'[v], Skus, StockRow)
    BY <1>1, <2>3 DEF Inv, TypeOK
  <2> QED  BY <1>1, <1>4, <2>4 DEF Inv, TypeOK
<1>7. /\ req'[w].op = req[w].op /\ req'[w].user = req[w].user
      /\ req'[w].id = req[w].id /\ req'[w].index = req[w].index
      /\ req'[w].items = req[w].items
  BY <1>3, <1>4 DEF Request
<1>8. RequestOK(w)'
  <2>1. CASE pc'[w] = "setStatus"
    BY <1>1, <1>7, <2>1 DEF RequestOK
  <2>2. CASE pc'[w] = "read"
    <3>1. req'[w].i = req[w].i + 1 /\ req[w].i < Len(req[w].items)
      BY <1>3, <1>4, <2>2 DEF Request
    <3>2. req'[w].i \in DOMAIN req[w].items
      BY <1>3, <3>1
    <3> QED  BY <1>1, <1>7, <2>2, <3>2 DEF RequestOK
  <2> QED  BY <1>4, <2>1, <2>2
<1>9. ShardTxOK(w)' /\ OrderRowOK(w)'
  BY <1>1, <1>4, <1>7 DEF ShardTxOK, OrderRowOK, HoldsOrder, Db
<1> QED  BY <1>1, <1>4, <1>6, <1>8, <1>9, LocalStep

\* The new status and its event are written together, or rolled back.
LEMMA SetStatusStep ==
    ASSUME Inv, NEW w \in Workers, SetStatus(w)
    PROVE  Inv'
<1> DEFINE status == Target[req[w].op]
           tx == [status |-> status, events |-> shardTx[w].events \cup {status}]
<1>1. /\ pc[w] = "setStatus" /\ UNCHANGED <<orders, events, stock, req, stocksTx, acked, lost>>
      /\ RequestOK(w) /\ ShardTxOK(w) /\ OrderRowOK(w) /\ req[w].op \in Ops
      /\ \A v \in Workers \ {w} : ~ HoldsOrder(v, Db(w), req[w].id)
  BY DEF Inv, TypeOK, SetStatus, WaitsForOrder, RequestOK, Request
<1>2. shardTx' = [shardTx EXCEPT ![w] = tx]
  BY DEF Inv, TypeOK, SetStatus, WriteStatus
<1>3. status \in Statuses /\ status \in {Awaiting, Paid, Canceled}
  BY <1>1 DEF Target, Ops, Statuses
<1>4. tx \in [status : Statuses \cup {"none"}, events : SUBSET Statuses]
  BY <1>3 DEF Inv, TypeOK
<1>5. CASE GoTo(w, "rollback")
  <2> HIDE DEF tx
  <2> QED  BY <1>1, <1>2, <1>4, <1>5, GoToRollback
<1>6. CASE GoTo(w, "commitShard")
  <2>1. /\ pc'[w] = "commitShard" /\ shardTx'[w] = tx
        /\ \A v \in Workers \ {w} : pc'[v] = pc[v] /\ shardTx'[v] = shardTx[v]
    BY <1>2, <1>6 DEF Inv, TypeOK, GoTo
  <2>2. TypeOK'
    BY <1>1, <1>2, <1>4, <1>6 DEF Inv, TypeOK, GoTo, PcValues
  <2>3. tx.events = IF req[w].op = "create" THEN {New, Awaiting} ELSE {status}
    BY <1>1 DEF ShardTxOK, NoShardTx, Target
  <2>4. RequestOK(w)' /\ ShardTxOK(w)'
    BY <1>1, <2>1, <2>3 DEF RequestOK, ShardTxOK
  <2>5. OrderRowOK(w)'
    BY <1>1, <2>1 DEF OrderRowOK, HoldsOrder, Db
  <2> QED  BY <1>1, <2>1, <2>2, <2>4, <2>5, LocalStep
<1> QED  BY <1>5, <1>6 DEF SetStatus

\* The commit of the shard transaction, the one step that changes orders and
\* events: it adds a new order, or gives an order it knows its final status.
LEMMA CommitShardStep ==
    ASSUME Inv, NEW w \in Workers, CommitShard(w)
    PROVE  Inv'
<1> DEFINE db == Db(w)
           id == req[w].id
           order == InstalledOrder(w)
           status == Target[req[w].op]
<1>1. /\ pc[w] = "commitShard" /\ req[w] \in Request /\ db \in Dbs /\ id \in Nat
      /\ RequestOK(w) /\ ShardTxOK(w) /\ OrderRowOK(w)
      /\ UNCHANGED <<stock, req, stocksTx, acked, lost>> /\ GoTo(w, "commitStocks")
      /\ shardTx' = [shardTx EXCEPT ![w] = NoShardTx]
      /\ orders' = [orders EXCEPT ![db] = Overlay(orders[db], [x \in {id} |-> order])]
      /\ events' = [events EXCEPT ![db] = events[db] \cup ({id} \X shardTx[w].events)]
  BY PickType DEF Inv, TypeOK, CommitShard, Db, Request
<1>2. /\ req[w].op \in Ops /\ GetShardIndexFromId(id) = req[w].index
      /\ shardTx[w].status = status /\ status \in {Awaiting, Paid, Canceled}
      /\ shardTx[w].events = IF req[w].op = "create" THEN {New, Awaiting} ELSE {status}
      /\ req[w].op # "create" => status \in {Paid, Canceled}
  <2>1. req[w].op \in Ops /\ GetShardIndexFromId(id) = req[w].index
    BY <1>1 DEF RequestOK, Request
  <2>2. /\ shardTx[w].status = status
        /\ shardTx[w].events = IF req[w].op = "create" THEN {New, Awaiting} ELSE {status}
    <3>1. shardTx[w] = [status |-> status,
                        events |-> IF req[w].op = "create" THEN {New, Awaiting}
                                                           ELSE {status}]
      BY <1>1 DEF ShardTxOK
    <3> HIDE DEF status
    <3> QED  BY <3>1
  <2>3. /\ status \in {Awaiting, Paid, Canceled}
        /\ req[w].op # "create" => status \in {Paid, Canceled}
    BY <2>1 DEF Target, Ops
  <2> QED  BY <2>1, <2>2, <2>3
<1>3. id \in DOMAIN orders[db] <=> req[w].op # "create"
  BY <1>1 DEF OrderRowOK
<1>4. IsPartial(orders[db], Nat, OrderRow)
  BY <1>1 DEF Inv, TypeOK
<1>5. /\ order \in OrderRow /\ order.items # <<>> /\ order.status = status
      /\ GetShardIndexByKey(order.user) = req[w].index
  <2>1. CASE req[w].op = "create"
    <3>1. order = [user |-> req[w].user, status |-> status, items |-> req[w].items]
      BY <1>2, <2>1 DEF InstalledOrder
    <3>2. /\ req[w].user \in Users /\ req[w].items # <<>> /\ req[w].items \in Seq(ItemRow)
          /\ req[w].index = GetShardIndexByKey(req[w].user)
      BY <1>1, <2>1 DEF RequestOK, Request
    <3> QED  BY <1>2, <3>1, <3>2 DEF OrderRow, Statuses
  <2>2. CASE req[w].op # "create"
    <3>1. order = [orders[db][id] EXCEPT !.status = status]
      BY <1>2, <2>2 DEF InstalledOrder
    <3>2. orders[db][id] \in OrderRow /\ orders[db][id].items # <<>>
      BY <1>1, <1>3, <1>4, <2>2 DEF Inv, IsPartial, StoredOrdersOK
    <3>3. GetShardIndexByKey(orders[db][id].user) = req[w].index
      BY <1>1, <1>2, <1>3, <2>2 DEF Inv, OrdersAreRoutable
    <3> QED  BY <1>2, <3>1, <3>2, <3>3 DEF OrderRow, Statuses
  <2> QED  BY <2>1, <2>2
<1> HIDE DEF order, status
<1>6. /\ DOMAIN orders'[db] = DOMAIN orders[db] \cup {id}
      /\ orders'[db][id] = order
      /\ \A x \in DOMAIN orders[db] : x # id => orders'[db][x] = orders[db][x]
      /\ \A d \in Dbs : d # db => orders'[d] = orders[d]
      /\ IsPartial(orders'[db], Nat, OrderRow)
  <2>1. orders'[db] = Overlay(orders[db], [x \in {id} |-> order])
        /\ \A d \in Dbs : d # db => orders'[d] = orders[d]
    BY <1>1 DEF Inv, TypeOK
  <2>2. IsPartial([x \in {id} |-> order], Nat, OrderRow)
    BY <1>1, <1>5 DEF IsPartial
  <2>3. IsPartial(orders'[db], Nat, OrderRow)
    BY <1>4, <2>1, <2>2, OverlayType
  <2> QED  BY <2>1, <2>3 DEF Overlay
<1>7. /\ events'[db] = events[db] \cup ({id} \X shardTx[w].events)
      /\ \A d \in Dbs : d # db => events'[d] = events[d]
      /\ shardTx'[w] = NoShardTx /\ pc'[w] = "commitStocks"
      /\ \A v \in Workers \ {w} : shardTx'[v] = shardTx[v] /\ pc'[v] = pc[v]
  BY <1>1 DEF Inv, TypeOK, GoTo
<1>8. TypeOK'
  <2>1. DOMAIN orders' = Dbs /\ orders' = [d \in Dbs |-> orders'[d]]
    BY <1>1 DEF Inv, TypeOK
  <2>2. \A d \in Dbs : IsPartial(orders'[d], Nat, OrderRow)
    BY <1>6 DEF Inv, TypeOK
  <2>3. {id} \X shardTx[w].events \subseteq Nat \X Statuses
    BY <1>1 DEF Inv, TypeOK
  <2>4. events' \in [Dbs -> SUBSET (Nat \X Statuses)]
    BY <1>1, <2>3 DEF Inv, TypeOK
  <2>5. pc' \in [Workers -> PcValues]
    BY <1>1 DEF Inv, TypeOK, GoTo, PcValues
  <2>6. shardTx' \in [Workers -> [status : Statuses \cup {"none"}, events : SUBSET Statuses]]
    BY <1>1 DEF Inv, TypeOK, NoShardTx
  <2> QED  BY <1>1, <2>1, <2>2, <2>4, <2>5, <2>6 DEF Inv, TypeOK
<1>9. ASSUME NEW v \in Workers PROVE RequestOK(v)' /\ ShardTxOK(v)' /\ OrderRowOK(v)'
  <2>1. RequestOK(v) /\ ShardTxOK(v) /\ OrderRowOK(v)
    BY DEF Inv
  <2>2. CASE v = w
    <3>1. RequestOK(w)'
      BY <1>1, <1>7 DEF RequestOK
    <3>2. ShardTxOK(w)' /\ OrderRowOK(w)'
      BY <1>7 DEF ShardTxOK, OrderRowOK, NoShardTx
    <3> QED  BY <2>2, <3>1, <3>2
  <2>3. CASE v # w
    <3>1. RequestOK(v)'
      BY <1>1, <1>7, <2>1, <2>3 DEF RequestOK
    <3>2. ShardTxOK(v)'
      BY <1>1, <1>7, <2>1, <2>3 DEF ShardTxOK
    <3>3. Db(v)' = Db(v) /\ Db(v) \in Dbs /\ req'[v] = req[v]
      BY <1>1, PickType DEF Inv, TypeOK, Db, Request
    <3>4. ASSUME shardTx[v].status # "none" PROVE Db(v) # db \/ req[v].id # id
      BY <1>2, <2>1, <2>3, <3>4 DEF OrderRowOK, HoldsOrder, Awaiting, Paid, Canceled
    <3>5. ASSUME pc[v] \in {"check", "read", "write", "setStatus", "commitShard"}
          PROVE  req[v].id \in DOMAIN orders'[Db(v)] <=> req[v].op # "create"
      <4>1. req[v].op = "create" => shardTx[v].status # "none"
        BY <2>1, <3>5 DEF ShardTxOK, New, Target, Awaiting
      <4>2. req[v].id \in DOMAIN orders[Db(v)] <=> req[v].op # "create"
        BY <2>1, <3>5 DEF OrderRowOK
      <4> QED  BY <1>6, <3>3, <3>4, <4>1, <4>2
    <3>6. ASSUME NEW u \in Workers \ {v}, shardTx[v].status # "none"
          PROVE  ~ HoldsOrder(u, Db(v), req[v].id)'
      <4>1. ~ HoldsOrder(u, Db(v), req[v].id)
        BY <2>1, <3>6 DEF OrderRowOK
      <4>2. shardTx'[u] = NoShardTx \/ shardTx'[u] = shardTx[u]
        BY <1>7
      <4> QED  BY <1>1, <4>1, <4>2 DEF HoldsOrder, Db, NoShardTx
    <3>7. OrderRowOK(v)'
      BY <1>7, <2>3, <3>3, <3>5, <3>6 DEF OrderRowOK
    <3> QED  BY <3>1, <3>2, <3>7
  <2> QED  BY <2>2, <2>3
<1>10. StoredOrdersOK' /\ OrdersAreRoutable'
  <2>1. Pick(req[w].index) = db
    BY DEF Db
  <2>2. order.status # Failed
    BY <1>2, <1>5 DEF Awaiting, Failed, Paid, Canceled
  <2> QED  BY <1>2, <1>5, <1>6, <2>1, <2>2 DEF Inv, StoredOrdersOK, OrdersAreRoutable
<1>11. EventsMatchOrders'
  <2> SUFFICES ASSUME NEW d \in Dbs
               PROVE  /\ \A e \in events'[d] : e[1] \in DOMAIN orders'[d]
                      /\ \A x \in DOMAIN orders'[d] :
                           LET s == orders'[d][x].status IN
                           /\ {<<x, New>>, <<x, s>>} \subseteq events'[d]
                           /\ s # Failed => <<x, Awaiting>> \in events'[d]
                           /\ s = Awaiting =>
                                events'[d] \cap {<<x, Paid>>, <<x, Canceled>>} = {}
    BY DEF EventsMatchOrders
  <2>1. /\ \A e \in events[d] : e[1] \in DOMAIN orders[d]
        /\ \A x \in DOMAIN orders[d] :
             LET s == orders[d][x].status IN
             /\ {<<x, New>>, <<x, s>>} \subseteq events[d]
             /\ s # Failed => <<x, Awaiting>> \in events[d]
             /\ s = Awaiting => events[d] \cap {<<x, Paid>>, <<x, Canceled>>} = {}
    BY DEF Inv, EventsMatchOrders
  <2>2. CASE d # db
    BY <1>6, <1>7, <2>1, <2>2
  <2>3. CASE d = db
    <3>2. \A e \in events'[d] : e[1] \in DOMAIN orders'[d]
      BY <1>6, <1>7, <2>1, <2>3
    <3>3. ASSUME NEW x \in DOMAIN orders'[d], x # id
          PROVE  LET s == orders'[d][x].status IN
                 /\ {<<x, New>>, <<x, s>>} \subseteq events'[d]
                 /\ s # Failed => <<x, Awaiting>> \in events'[d]
                 /\ s = Awaiting => events'[d] \cap {<<x, Paid>>, <<x, Canceled>>} = {}
      BY <1>6, <1>7, <2>1, <2>3, <3>3
    <3>4. {<<id, New>>, <<id, Awaiting>>, <<id, status>>} \subseteq events'[d]
      <4>1. CASE req[w].op = "create"
        BY <1>2, <1>7, <2>3, <4>1 DEF status, Target
      <4>2. CASE req[w].op # "create"
        <5>1. id \in DOMAIN orders[d] /\ orders[d][id].status # Failed
          BY <1>3, <2>3, <4>2 DEF Inv, StoredOrdersOK
        <5>2. <<id, New>> \in events[d] /\ <<id, Awaiting>> \in events[d]
          BY <2>1, <5>1
        <5>3. <<id, status>> \in events'[d]
          BY <1>2, <1>7, <2>3, <4>2
        <5> QED  BY <1>7, <2>3, <5>2, <5>3
      <4> QED  BY <4>1, <4>2
    <3>5. status = Awaiting => events'[d] \cap {<<id, Paid>>, <<id, Canceled>>} = {}
      <4> SUFFICES ASSUME status = Awaiting
                   PROVE  <<id, Paid>> \notin events'[d] /\ <<id, Canceled>> \notin events'[d]
        OBVIOUS
      <4>1. req[w].op = "create"
        BY <1>2 DEF Awaiting, Paid, Canceled
      <4>2. <<id, Paid>> \notin events[d] /\ <<id, Canceled>> \notin events[d]
        BY <1>3, <2>1, <2>3, <4>1
      <4> QED  BY <1>2, <1>7, <2>3, <4>1, <4>2 DEF New, Awaiting, Paid, Canceled
    <3> QED  BY <1>5, <1>6, <2>3, <3>2, <3>3, <3>4, <3>5
  <2> QED  BY <2>2, <2>3
<1> QED  BY <1>8, <1>9, <1>10, <1>11 DEF Inv

\* What a COMMIT that fails is remembered as.
LEMMA LostType ==
    ASSUME Inv, NEW w \in Workers, pc[w] # "idle",
           NEW transaction \in {"shard", "stocks"}, LoseCommit(w, transaction)
    PROVE  lost' \subseteq {"shard", "stocks"} \X Ops \X Nat
<1>1. req[w].op \in Ops /\ req[w].id \in Nat
  BY DEF Inv, TypeOK, RequestOK, Request
<1> QED  BY <1>1 DEF Inv, TypeOK, LoseCommit

\* Both commits that end a request, whether or not Postgres keeps the rows.
LEMMA CommitStocksStep ==
    ASSUME Inv, NEW w \in Workers, CommitStocks(w) \/ CommitStocksLost(w)
    PROVE  Inv'
<1>1. pc[w] = "commitStocks" /\ Finish(w) /\ UNCHANGED <<orders, events>>
      /\ acked' = acked \cup {<<req[w].op, req[w].id>>}
  BY DEF CommitStocks, CommitStocksLost
<1>2. acked' \subseteq Ops \X Nat
  <2>1. req[w].op \in Ops /\ req[w].id \in Nat
    BY <1>1 DEF Inv, TypeOK, RequestOK, Request
  <2> QED  BY <1>1, <2>1 DEF Inv, TypeOK
<1>3. stock' \in [Skus -> StockRow]
  <2>1. IsPartial(stock, Skus, StockRow) /\ IsPartial(stocksTx[w], Skus, StockRow)
    BY DEF Inv, TypeOK, IsPartial
  <2>2. Overlay(stock, stocksTx[w]) \in [Skus -> StockRow]
    <3>1. DOMAIN stock \cup DOMAIN stocksTx[w] = Skus
      BY <2>1 DEF Inv, TypeOK, IsPartial
    <3> QED  BY <2>1, <3>1 DEF IsPartial, Overlay
  <2> QED  BY <2>2 DEF Inv, TypeOK, CommitStocks, CommitStocksLost
<1>4. lost' \subseteq {"shard", "stocks"} \X Ops \X Nat
  BY <1>1, LostType DEF Inv, TypeOK, CommitStocks, CommitStocksLost
<1> QED  BY <1>1, <1>2, <1>3, <1>4, FinishStep

\* A shard commit that is lost leaves orders and events as they were.
LEMMA CommitShardLostStep ==
    ASSUME Inv, NEW w \in Workers, CommitShardLost(w)
    PROVE  Inv'
<1>1. /\ pc[w] = "commitShard" /\ GoTo(w, "commitStocks") /\ RequestOK(w)
      /\ shardTx' = [shardTx EXCEPT ![w] = NoShardTx]
      /\ UNCHANGED <<orders, events, stock, req, stocksTx, acked>>
  BY DEF Inv, CommitShardLost
<1>2. TypeOK'
  <2>1. lost' \subseteq {"shard", "stocks"} \X Ops \X Nat
    BY <1>1, LostType DEF Inv, CommitShardLost
  <2> QED  BY <1>1, <2>1 DEF Inv, TypeOK, GoTo, PcValues, NoShardTx
<1>3. /\ pc'[w] = "commitStocks" /\ shardTx'[w] = NoShardTx
      /\ \A v \in Workers \ {w} : pc'[v] = pc[v] /\ shardTx'[v] = shardTx[v]
  BY <1>1 DEF Inv, TypeOK, GoTo
<1>4. RequestOK(w)'
  BY <1>1, <1>3 DEF RequestOK
<1>5. ShardTxOK(w)' /\ OrderRowOK(w)'
  BY <1>3 DEF ShardTxOK, OrderRowOK, NoShardTx
<1> QED  BY <1>1, <1>2, <1>3, <1>4, <1>5, LocalStep

\* A failed statement, or one that Postgres fails to break a deadlock.
LEMMA StatementFailsStep ==
    ASSUME Inv, NEW w \in Workers, StatementFails(w) \/ DeadlockVictim(w)
    PROVE  Inv'
<1>1. GoTo(w, "rollback") /\ UNCHANGED <<orders, events, stock, req, stocksTx, acked, lost>>
  BY DEF StatementFails, DeadlockVictim
<1>2. CASE pc[w] \in Statements /\ UNCHANGED shardTx
  <2>1. /\ shardTx' = [shardTx EXCEPT ![w] = shardTx[w]]
        /\ shardTx[w] \in [status : Statuses \cup {"none"}, events : SUBSET Statuses]
    BY <1>2 DEF Inv, TypeOK
  <2>2. ASSUME shardTx[w].status # "none"
        PROVE  \A v \in Workers \ {w} : ~ HoldsOrder(v, Db(w), req[w].id)
    BY <2>2 DEF Inv, OrderRowOK
  <2>3. pc[w] # "idle"
    BY <1>2 DEF Statements
  <2> QED  BY <1>1, <2>1, <2>2, <2>3, GoToRollback
<1>3. CASE pc[w] \in {"check", "read", "write"} /\ MarkFailed(w)
  BY <1>1, <1>3, MarkFailedStep
<1>4. DeadlockVictim(w) => pc[w] = "write"
  <2> SUFFICES ASSUME DeadlockVictim(w) PROVE pc[w] = "write"
    OBVIOUS
  <2>1. \E u \in Workers : WaitsForStock(w, u)
    BY DEF DeadlockVictim, WaitRing
  <2> QED  BY <2>1 DEF WaitsForStock
<1>5. CASE StatementFails(w)
  BY <1>2, <1>3, <1>5 DEF StatementFails
<1>6. CASE DeadlockVictim(w)
  BY <1>3, <1>4, <1>6 DEF DeadlockVictim
<1> QED  BY <1>5, <1>6

\* A crash forgets the requests and nothing that was committed.
LEMMA CrashStep == Inv /\ ProcessDies => Inv'
<1> SUFFICES ASSUME Inv, ProcessDies PROVE Inv'
  OBVIOUS
<1>1. /\ pc' = [w \in Workers |-> "idle"] /\ req' = [w \in Workers |-> NoRequest]
      /\ shardTx' = [w \in Workers |-> NoShardTx] /\ stocksTx' = [w \in Workers |-> NoRows]
      /\ UNCHANGED <<orders, events, stock, acked, lost>>
  BY DEF ProcessDies
<1>2. NoRequest \in Request /\ IsPartial(NoRows, Skus, StockRow)
  BY ShardCountAssumption
     DEF NoRequest, Request, ShardIndexes, NoRow, StockRow, NoRows, IsPartial
<1>3. TypeOK'
  BY <1>1, <1>2 DEF Inv, TypeOK, PcValues, NoShardTx
<1>4. \A w \in Workers : RequestOK(w)' /\ ShardTxOK(w)' /\ OrderRowOK(w)'
  BY <1>1 DEF RequestOK, ShardTxOK, OrderRowOK, NoRequest, NoShardTx
<1>5. StoredOrdersOK' /\ EventsMatchOrders' /\ OrdersAreRoutable'
  BY <1>1 DEF Inv, StoredOrdersOK, EventsMatchOrders, OrdersAreRoutable
<1> QED  BY <1>3, <1>4, <1>5 DEF Inv

\* Every step of the service keeps the invariant.
LEMMA NextInv == Inv /\ [Next]_vars => Inv'
<1> SUFFICES ASSUME Inv, [Next]_vars PROVE Inv'
  OBVIOUS
<1>1. ASSUME NEW w \in Workers, BeginCreate(w) PROVE Inv'
  BY <1>1, BeginCreateStep
<1>2. ASSUME NEW w \in Workers, BeginUpdate(w) PROVE Inv'
  BY <1>2, BeginUpdateStep
<1>3. ASSUME NEW w \in Workers, LockingStep(w) PROVE Inv'
  BY <1>3, InsertStep, WriteRowStep, SetStatusStep DEF LockingStep
<1>4. ASSUME NEW w \in Workers, Rollback(w) PROVE Inv'
  BY <1>4, FinishStep DEF Rollback, Inv, TypeOK
<1>5. ASSUME NEW w \in Workers, PlainStep(w) PROVE Inv'
  BY <1>4, <1>5, GenerateIdStep, GetOrderStep, CheckItemStep, StockFailureStep,
     ReadRowStep, CommitShardStep, CommitStocksStep, StatementFailsStep DEF PlainStep
<1>6. ASSUME NEW w \in Workers, Fault(w) PROVE Inv'
  BY <1>6, StatementFailsStep, CommitShardLostStep, CommitStocksStep DEF Fault
<1>7. CASE Crash \/ NegativeId
  BY <1>7, CrashStep DEF Crash, NegativeId
<1>8. CASE UNCHANGED vars
  <2>1. UNCHANGED <<orders, events, stock, pc, req, shardTx, stocksTx, acked, lost>>
    BY <1>8 DEF vars
  <2>2. TypeOK' /\ StoredOrdersOK' /\ EventsMatchOrders' /\ OrdersAreRoutable'
    BY <2>1 DEF Inv, TypeOK, StoredOrdersOK, EventsMatchOrders, OrdersAreRoutable
  <2>3. ASSUME NEW w \in Workers PROVE RequestOK(w)' /\ ShardTxOK(w)' /\ OrderRowOK(w)'
    <3>1. RequestOK(w) /\ ShardTxOK(w) /\ OrderRowOK(w)
      BY DEF Inv
    <3>2. RequestOK(w)'
      BY <2>1, <3>1 DEF RequestOK
    <3>3. ShardTxOK(w)'
      BY <2>1, <3>1 DEF ShardTxOK
    <3>4. OrderRowOK(w)'
      BY <2>1, <3>1 DEF OrderRowOK, HoldsOrder, Db
    <3> QED  BY <3>2, <3>3, <3>4
  <2> QED  BY <2>2, <2>3 DEF Inv
<1> QED  BY <1>1, <1>2, <1>3, <1>5, <1>6, <1>7, <1>8 DEF Next

-----------------------------------------------------------------------------
\* The inductive invariant holds in every state the service reaches.
THEOREM InvHolds == Spec => []Inv
<1> QED  BY InitInv, NextInv, PTL DEF Spec

\* Every variable keeps its type.
THEOREM TypeCorrect == Spec => []TypeOK
<1>1. Inv => TypeOK
  BY DEF Inv
<1> QED  BY <1>1, InvHolds, PTL

\* The outbox and the orders never disagree, under crashes, failed statements
\* and failed commits alike (Publish and SetStatus in one transaction).
THEOREM OutboxIsConsistent == Spec => []EventsMatchOrders
<1>1. Inv => EventsMatchOrders
  BY DEF Inv
<1> QED  BY <1>1, InvHolds, PTL

\* Every stored order is found again by its id (generateId, GetByOrderId).
THEOREM OrdersStayRoutable == Spec => []OrdersAreRoutable
<1>1. Inv => OrdersAreRoutable
  BY DEF Inv
<1> QED  BY <1>1, InvHolds, PTL

\* Only the commit of a shard transaction changes the orders.
LEMMA CommitShardMovesForward ==
    ASSUME Inv, NEW w \in Workers, CommitShard(w)
    PROVE  MoveForward
<1> DEFINE db == Db(w)
           id == req[w].id
           order == InstalledOrder(w)
<1>1. /\ pc[w] = "commitShard" /\ req[w] \in Request /\ db \in Dbs
      /\ RequestOK(w) /\ ShardTxOK(w) /\ OrderRowOK(w)
      /\ orders' = [orders EXCEPT ![db] = Overlay(orders[db], [x \in {id} |-> order])]
  BY PickType DEF Inv, TypeOK, CommitShard, Db, Request
<1>2. /\ shardTx[w].status = Target[req[w].op] /\ req[w].op \in Ops
      /\ id \in DOMAIN orders[db] <=> req[w].op # "create"
  <2>1. shardTx[w] = [status |-> Target[req[w].op],
                      events |-> IF req[w].op = "create" THEN {New, Awaiting}
                                                         ELSE {Target[req[w].op]}]
    BY <1>1 DEF ShardTxOK
  <2> QED  BY <1>1, <2>1 DEF RequestOK, OrderRowOK, Request
<1>3. CASE req[w].op = "create"
  <2>1. order.status = Awaiting
    BY <1>2, <1>3 DEF InstalledOrder, Target
  <2> HIDE DEF order
  <2> QED  BY <1>1, <1>2, <1>3, <2>1 DEF Inv, TypeOK, MoveForward, Overlay
<1>4. CASE req[w].op # "create"
  <2>1. order = [orders[db][id] EXCEPT !.status = Target[req[w].op]]
    BY <1>2, <1>4 DEF InstalledOrder
  <2>2. Target[req[w].op] \in {Paid, Canceled}
    BY <1>2, <1>4 DEF Target, Ops
  <2>3. orders[db][id] \in OrderRow
    BY <1>1, <1>2, <1>4 DEF Inv, TypeOK, IsPartial
  <2>4. /\ order.status \in {Paid, Canceled}
        /\ order = [orders[db][id] EXCEPT !.status = order.status]
    BY <2>1, <2>2, <2>3 DEF OrderRow
  <2> HIDE DEF order
  <2> QED  BY <1>1, <1>2, <1>4, <2>4 DEF Inv, TypeOK, MoveForward, Overlay
<1> QED  BY <1>3, <1>4

\* No step of any client, fault or crash takes an order back or rewrites it.
THEOREM OrdersMoveForward == Spec => OrdersOnlyMoveForward
<1>1. Inv /\ [Next]_vars => MoveForward
  <2> SUFFICES ASSUME Inv, [Next]_vars PROVE MoveForward
    OBVIOUS
  <2>1. CASE \E w \in Workers : CommitShard(w)
    BY <2>1, CommitShardMovesForward
  <2>2. CASE orders' = orders
    BY <2>2 DEF MoveForward
  <2>3. (\E w \in Workers : CommitShard(w)) \/ orders' = orders
    BY DEF Next, vars, BeginCreate, BeginUpdate, PlainStep, LockingStep, Fault,
           GenerateId, Insert, GetOrder, CheckItem, StockFailure, ReadRow, WriteRow,
           SetStatus, CommitStocks, CommitShardLost, CommitStocksLost, Rollback,
           StatementFails, DeadlockVictim, Crash, NegativeId, ProcessDies
  <2> QED  BY <2>1, <2>2, <2>3
<1> QED  BY <1>1, InvHolds, PTL DEF Spec, OrdersOnlyMoveForward
-----------------------------------------------------------------------------
\* The stock rows that w's open transaction has written, statement by
\* statement; a row written by one transaction is locked for the others.
StocksTxOK(w) ==
    LET r == req[w] IN
    /\ pc[w] \in {"idle", "generateId", "insert", "getOrder", "check"} =>
         DOMAIN stocksTx[w] = {}
    /\ pc[w] \in {"read", "write"} =>
         DOMAIN stocksTx[w] = {r.items[j].sku : j \in 1 .. (r.i - 1)}
    /\ pc[w] \in {"setStatus", "commitShard", "commitStocks"} =>
         DOMAIN stocksTx[w] = SkusOf(r.items)
    /\ DOMAIN stocksTx[w] \subseteq SkusOf(r.items)
    /\ \A v \in Workers \ {w} : DOMAIN stocksTx[v] \cap DOMAIN stocksTx[w] = {}

LockInv == Inv /\ \A w \in Workers : StocksTxOK(w)

\* Others keep their rows; w answers for its own.
LEMMA LockLocal ==
    ASSUME LockInv, Inv', NEW w \in Workers, StocksTxOK(w)',
           \A v \in Workers \ {w} : /\ pc'[v] = pc[v]
                                    /\ req'[v] = req[v]
                                    /\ stocksTx'[v] = stocksTx[v]
    PROVE  LockInv'
<1>1. ASSUME NEW v \in Workers, v # w PROVE StocksTxOK(v)'
  <2>1. StocksTxOK(v) /\ pc'[v] = pc[v] /\ req'[v] = req[v] /\ stocksTx'[v] = stocksTx[v]
    BY <1>1 DEF LockInv
  <2>2. \A u \in Workers \ {v} : DOMAIN stocksTx'[u] \cap DOMAIN stocksTx'[v] = {}
    <3>1. DOMAIN stocksTx'[v] \cap DOMAIN stocksTx'[w] = {}
      BY <1>1 DEF StocksTxOK
    <3>2. \A u \in Workers \ {v} : DOMAIN stocksTx[u] \cap DOMAIN stocksTx[v] = {}
      BY <2>1 DEF StocksTxOK
    <3> QED  BY <2>1, <3>1, <3>2
  <2> QED  BY <2>1, <2>2 DEF StocksTxOK
<1> QED  BY <1>1 DEF LockInv

\* A step of w that writes no stock row keeps the locks as they are.
LEMMA LockKept ==
    ASSUME LockInv, Inv', NEW w \in Workers, stocksTx' = stocksTx,
           \A v \in Workers \ {w} : pc'[v] = pc[v] /\ req'[v] = req[v],
           LET r == req'[w] IN
           /\ pc'[w] \in {"idle", "generateId", "insert", "getOrder", "check"} =>
                DOMAIN stocksTx[w] = {}
           /\ pc'[w] \in {"read", "write"} =>
                DOMAIN stocksTx[w] = {r.items[j].sku : j \in 1 .. (r.i - 1)}
           /\ pc'[w] \in {"setStatus", "commitShard", "commitStocks"} =>
                DOMAIN stocksTx[w] = SkusOf(r.items)
           /\ DOMAIN stocksTx[w] \subseteq SkusOf(r.items)
    PROVE  LockInv'
<1>1. StocksTxOK(w)
  BY DEF LockInv
<1>2. StocksTxOK(w)'
  BY <1>1 DEF StocksTxOK
<1> QED  BY <1>2, LockLocal

\* A request that is answered gives up its rows.
LEMMA LockFinish ==
    ASSUME LockInv, Inv', NEW w \in Workers, Finish(w)
    PROVE  LockInv'
<1>1. /\ pc'[w] = "idle" /\ req'[w] = NoRequest /\ stocksTx'[w] = NoRows
      /\ \A v \in Workers \ {w} : /\ pc'[v] = pc[v]
                                  /\ req'[v] = req[v]
                                  /\ stocksTx'[v] = stocksTx[v]
  BY DEF LockInv, Inv, TypeOK, Finish, GoTo
<1>2. DOMAIN NoRows = {}
  BY DEF NoRows
<1>3. StocksTxOK(w)'
  BY <1>1, <1>2 DEF StocksTxOK
<1> QED  BY <1>1, <1>3, LockLocal

\* UPDATE waits for the row's lock and takes it.
LEMMA LockWriteRow ==
    ASSUME LockInv, Inv', NEW w \in Workers, WriteRow(w)
    PROVE  LockInv'
<1> DEFINE sku == Item(w).sku
           items == req[w].items
           i == req[w].i
<1>1. /\ pc[w] = "write" /\ NextItem(w, "read", "setStatus") /\ StocksTxOK(w)
      /\ \A v \in Workers \ {w} : sku \notin DOMAIN stocksTx[v]
      /\ \A v \in Workers \ {w} : stocksTx'[v] = stocksTx[v]
      /\ DOMAIN stocksTx'[w] = DOMAIN stocksTx[w] \cup {sku}
  BY DEF LockInv, Inv, TypeOK, WriteRow, WaitsForStock, Overlay
<1>2. "read" \in PcValues /\ "setStatus" \in PcValues /\ Inv
  BY DEF PcValues, Statements, LockInv
<1>3. /\ req[w] \in Request /\ i \in 1 .. Len(items)
      /\ DOMAIN items = 1 .. Len(items) /\ Len(items) \in Nat
  BY <1>1, <1>2, ItemType
<1>4. /\ \A v \in Workers \ {w} : pc'[v] = pc[v] /\ req'[v] = req[v]
      /\ \/ /\ pc'[w] = "setStatus" /\ i = Len(items)
            /\ req'[w] = [req[w] EXCEPT !.i = 1, !.row = NoRow]
         \/ /\ pc'[w] = "read" /\ i < Len(items)
            /\ req'[w] = [req[w] EXCEPT !.i = i + 1, !.row = NoRow]
  BY <1>1, <1>2, NextItemLoop
<1>5. req'[w].items = items
  BY <1>3, <1>4 DEF Request
<1>6. DOMAIN stocksTx'[w] = {items[j].sku : j \in 1 .. i}
  <2>1. DOMAIN stocksTx[w] = {items[j].sku : j \in 1 .. (i - 1)}
    BY <1>1 DEF StocksTxOK
  <2>2. 1 .. i = (1 .. (i - 1)) \cup {i}
    BY <1>3
  <2> QED  BY <1>1, <2>1, <2>2 DEF Item
<1>7. \A v \in Workers \ {w} : DOMAIN stocksTx'[v] \cap DOMAIN stocksTx'[w] = {}
  BY <1>1 DEF StocksTxOK
<1>8. DOMAIN stocksTx'[w] \subseteq SkusOf(items)
  BY <1>3, <1>6 DEF SkusOf
<1> HIDE DEF items, i
<1>9. StocksTxOK(w)'
  <2>1. CASE pc'[w] = "setStatus"
    <3>1. DOMAIN stocksTx'[w] = SkusOf(items)
      BY <1>3, <1>4, <1>6, <2>1 DEF SkusOf
    <3> QED  BY <1>5, <1>7, <2>1, <3>1 DEF StocksTxOK
  <2>2. CASE pc'[w] = "read"
    <3>1. req'[w] = [req[w] EXCEPT !.i = i + 1, !.row = NoRow] /\ i \in Int
      BY <1>3, <1>4, <2>2
    <3>2. req'[w].i = i + 1 /\ (i + 1) - 1 = i
      BY <1>3, <3>1 DEF Request
    <3>3. DOMAIN stocksTx'[w] = {req'[w].items[j].sku : j \in 1 .. (req'[w].i - 1)}
      BY <1>5, <1>6, <3>2
    <3> QED  BY <1>5, <1>7, <1>8, <2>2, <3>3 DEF StocksTxOK
  <2> QED  BY <1>4, <2>1, <2>2
<1> QED  BY <1>1, <1>4, <1>9, LockLocal

\* An error leaves what was written to the rollback.
LEMMA LockRollback ==
    ASSUME LockInv, Inv', NEW w \in Workers, GoTo(w, "rollback"),
           UNCHANGED <<req, stocksTx>>
    PROVE  LockInv'
<1>1. pc'[w] = "rollback" /\ \A v \in Workers \ {w} : pc'[v] = pc[v]
  BY DEF LockInv, Inv, TypeOK, GoTo
<1>2. StocksTxOK(w)
  BY DEF LockInv
<1> QED  BY <1>1, <1>2, LockKept DEF StocksTxOK

\* The statements before the first write.
LEMMA LockBefore ==
    ASSUME LockInv, Inv', NEW w \in Workers, DOMAIN stocksTx[w] = {}, stocksTx' = stocksTx,
           \A v \in Workers \ {w} : pc'[v] = pc[v] /\ req'[v] = req[v],
           pc'[w] \in {"generateId", "insert", "getOrder", "check", "rollback"}
    PROVE  LockInv'
BY LockKept

\* Handing on the same rows: SetStatus and the first commit.
LEMMA LockHandOn ==
    ASSUME LockInv, Inv', NEW w \in Workers, NEW label \in {"commitShard", "commitStocks"},
           pc[w] \in {"setStatus", "commitShard"}, GoTo(w, label),
           UNCHANGED <<req, stocksTx>>
    PROVE  LockInv'
<1>1. pc'[w] = label /\ \A v \in Workers \ {w} : pc'[v] = pc[v]
  BY DEF LockInv, Inv, TypeOK, GoTo
<1>2. DOMAIN stocksTx[w] = SkusOf(req[w].items)
  BY DEF LockInv, StocksTxOK
<1> QED  BY <1>1, <1>2, LockKept

\* The check of the last item opens the writing loop, with nothing written.
LEMMA LockCheckItem ==
    ASSUME LockInv, Inv', NEW w \in Workers, CheckItem(w)
    PROVE  LockInv'
<1>1. /\ pc[w] = "check" /\ NextItem(w, "check", "read") /\ stocksTx' = stocksTx
      /\ Inv /\ "check" \in PcValues /\ "read" \in PcValues
  BY DEF CheckItem, PcValues, Statements, LockInv
<1>2. DOMAIN stocksTx[w] = {}
  BY <1>1 DEF LockInv, StocksTxOK
<1>3. /\ \A v \in Workers \ {w} : pc'[v] = pc[v] /\ req'[v] = req[v]
      /\ \/ /\ pc'[w] = "read"
            /\ req'[w] = [req[w] EXCEPT !.i = 1, !.row = NoRow]
         \/ pc'[w] = "check"
  BY <1>1, NextItemLoop
<1>4. CASE pc'[w] = "check"
  BY <1>1, <1>2, <1>3, <1>4, LockBefore
<1>5. CASE pc'[w] = "read"
  <2>1. req'[w].i = 1
    BY <1>3, <1>5 DEF LockInv, Inv, TypeOK, Request
  <2>2. {req'[w].items[j].sku : j \in 1 .. (req'[w].i - 1)} = {}
    BY <2>1
  <2> QED  BY <1>1, <1>2, <1>3, <1>5, <2>2, LockKept
<1> QED  BY <1>3, <1>4, <1>5

\* Reading a row locks nothing.
LEMMA LockReadRow ==
    ASSUME LockInv, Inv', NEW w \in Workers, ReadRow(w)
    PROVE  LockInv'
<1>1. /\ pc[w] = "read" /\ pc'[w] = "write" /\ stocksTx' = stocksTx /\ StocksTxOK(w)
      /\ req'[w].items = req[w].items /\ req'[w].i = req[w].i
      /\ \A v \in Workers \ {w} : pc'[v] = pc[v] /\ req'[v] = req[v]
  BY DEF LockInv, Inv, TypeOK, Request, ReadRow, GoTo
<1> QED  BY <1>1, LockKept DEF StocksTxOK

\* Every step keeps the row locks in order.
LEMMA LockNext == LockInv /\ [Next]_vars => LockInv'
<1> SUFFICES ASSUME LockInv, [Next]_vars PROVE LockInv'
  OBVIOUS
<1>1. Inv /\ Inv'
  BY NextInv DEF LockInv
<1>2. \A w \in Workers : StocksTxOK(w)
  BY DEF LockInv
<1>3. ASSUME NEW w \in Workers, BeginCreate(w) \/ BeginUpdate(w) \/ GenerateId(w)
      PROVE  LockInv'
  <2>1. /\ pc[w] \in {"idle", "generateId"} /\ stocksTx' = stocksTx
        /\ pc'[w] \in {"generateId", "insert", "getOrder"}
        /\ \A v \in Workers \ {w} : pc'[v] = pc[v] /\ req'[v] = req[v]
    BY <1>1, <1>3 DEF Inv, TypeOK, BeginCreate, BeginUpdate, GenerateId, GoTo
  <2> QED  BY <1>1, <1>2, <2>1, LockBefore DEF StocksTxOK
<1>4. ASSUME NEW w \in Workers, Insert(w) \/ GetOrder(w) PROVE LockInv'
  <2>1. /\ pc[w] \in {"insert", "getOrder"} /\ stocksTx' = stocksTx
        /\ pc'[w] \in {"check", "rollback"}
        /\ \A v \in Workers \ {w} : pc'[v] = pc[v] /\ req'[v] = req[v]
    BY <1>1, <1>4 DEF Inv, TypeOK, Insert, GetOrder, GoTo
  <2> QED  BY <1>1, <1>2, <2>1, LockBefore DEF StocksTxOK
<1>5. ASSUME NEW w \in Workers, SetStatus(w) \/ CommitShard(w) \/ CommitShardLost(w)
      PROVE  LockInv'
  <2>1. CASE GoTo(w, "rollback")
    BY <1>1, <1>5, <2>1, LockRollback DEF SetStatus, CommitShard, CommitShardLost
  <2>2. CASE GoTo(w, "commitShard") \/ GoTo(w, "commitStocks")
    BY <1>1, <1>5, <2>2, LockHandOn DEF SetStatus, CommitShard, CommitShardLost
  <2> QED  BY <1>5, <2>1, <2>2 DEF SetStatus, CommitShard, CommitShardLost
<1>6. ASSUME NEW w \in Workers, StockFailure(w) \/ StatementFails(w) \/ DeadlockVictim(w)
      PROVE  LockInv'
  BY <1>1, <1>6, LockRollback DEF StockFailure, StatementFails, DeadlockVictim
<1>7. ASSUME NEW w \in Workers, CommitStocks(w) \/ CommitStocksLost(w) \/ Rollback(w)
      PROVE  LockInv'
  BY <1>1, <1>7, LockFinish DEF CommitStocks, CommitStocksLost, Rollback
<1>8. CASE Crash \/ NegativeId
  <2>1. /\ pc' = [w \in Workers |-> "idle"] /\ req' = [w \in Workers |-> NoRequest]
        /\ stocksTx' = [w \in Workers |-> NoRows]
    BY <1>8 DEF Crash, NegativeId, ProcessDies
  <2>2. DOMAIN NoRows = {}
    BY DEF NoRows
  <2>3. \A w \in Workers : StocksTxOK(w)'
    BY <2>1, <2>2 DEF StocksTxOK
  <2> QED  BY <1>1, <2>3 DEF LockInv
<1>9. CASE UNCHANGED vars
  <2>1. pc' = pc /\ req' = req /\ stocksTx' = stocksTx
    BY <1>9 DEF vars
  <2>2. \A w \in Workers : StocksTxOK(w)'
    BY <1>2, <2>1 DEF StocksTxOK
  <2> QED  BY <1>1, <2>2 DEF LockInv
<1>10. ASSUME NEW w \in Workers, PlainStep(w) \/ LockingStep(w) \/ Fault(w) PROVE LockInv'
  BY <1>1, <1>3, <1>4, <1>5, <1>6, <1>7, <1>10, LockCheckItem, LockReadRow, LockWriteRow
     DEF PlainStep, LockingStep, Fault
<1> QED  BY <1>3, <1>8, <1>9, <1>10 DEF Next

\* The row locks of the stocks transactions, in every reachable state.
THEOREM LocksHold == Spec => []LockInv
<1>1. Init => LockInv
  <2> SUFFICES ASSUME Init PROVE LockInv
    OBVIOUS
  <2>1. DOMAIN NoRows = {}
    BY DEF NoRows
  <2>2. \A w \in Workers : StocksTxOK(w)
    BY <2>1 DEF Init, StocksTxOK
  <2> QED  BY <2>2, InitInv DEF LockInv
<1> QED  BY <1>1, LockNext, PTL DEF Spec

\* A request waits for an order's row last, and one that waits to insert its
\* order holds nothing: whoever waits in a ring waits for a row of stocks, so
\* Postgres, which knows the rows of that database, sees every deadlock.
THEOREM DeadlocksAreLocal == Spec => []NoDistributedDeadlock
<1>1. LockInv => NoDistributedDeadlock
  <2> SUFFICES ASSUME LockInv, NEW S \in (SUBSET Workers) \ {{}},
                      WaitRing(S, WaitsFor)
               PROVE  WaitRing(S, WaitsForStock)
    BY DEF NoDistributedDeadlock
  <2>1. \A v \in S : /\ v \in Workers /\ StocksTxOK(v) /\ RequestOK(v)
                     /\ ShardTxOK(v) /\ OrderRowOK(v)
                     /\ req[v].op \in Ops \cup {"none"}
    BY DEF LockInv, Inv, TypeOK, Request
  <2>2. \A v \in S : /\ \E u \in S : WaitsForOrder(v, u) \/ WaitsForStock(v, u)
                     /\ \E u \in S : WaitsForOrder(u, v) \/ WaitsForStock(u, v)
    BY DEF WaitRing, WaitsFor
  <2>3. \A v \in S : pc[v] \in {"insert", "setStatus", "write"}
    BY <2>2 DEF WaitsForOrder, WaitsForStock
  <2>4. \A v \in S : pc[v] # "insert"
    <3> SUFFICES ASSUME NEW v \in S, pc[v] = "insert" PROVE FALSE
      OBVIOUS
    <3>1. shardTx[v] = NoShardTx /\ DOMAIN stocksTx[v] = {}
      BY <2>1 DEF StocksTxOK, ShardTxOK
    <3>2. PICK u \in S : WaitsForOrder(u, v) \/ WaitsForStock(u, v)
      BY <2>2
    <3> QED  BY <3>1, <3>2 DEF WaitsForOrder, WaitsForStock, HoldsOrder, NoShardTx
  <2>5. ASSUME NEW v \in S, NEW u \in S, WaitsForOrder(v, u) PROVE FALSE
    <3>1. /\ pc[v] = "setStatus" /\ u # v /\ pc[u] \in {"setStatus", "write"}
          /\ HoldsOrder(u, Db(v), req[v].id)
      BY <2>3, <2>4, <2>5 DEF WaitsForOrder
    <3>2. shardTx[u].status # "none" /\ Db(u) = Db(v) /\ req[u].id = req[v].id
      BY <3>1 DEF HoldsOrder
    <3>3. req[u].op = "create"
      <4>1. shardTx[u] = IF req[u].op = "create" THEN [status |-> New, events |-> {New}]
                                                 ELSE NoShardTx
        BY <2>1, <3>1 DEF ShardTxOK
      <4> QED  BY <3>2, <4>1 DEF NoShardTx
    <3>4. req[u].id \notin DOMAIN orders[Db(u)]
      BY <2>1, <3>1, <3>3 DEF OrderRowOK
    <3>5. CASE req[v].op = "create"
      <4>1. shardTx[v] = [status |-> New, events |-> {New}]
        BY <2>1, <3>1, <3>5 DEF ShardTxOK
      <4>2. shardTx[v].status # "none"
        BY <4>1 DEF New
      <4> QED  BY <2>1, <3>1, <4>2 DEF OrderRowOK
    <3>6. CASE req[v].op # "create"
      BY <2>1, <3>1, <3>2, <3>4, <3>6 DEF OrderRowOK
    <3> QED  BY <3>5, <3>6
  <2> QED  BY <2>2, <2>5 DEF WaitRing
<1> QED  BY <1>1, LocksHold, PTL
-----------------------------------------------------------------------------
\* Between its two commits a request is recorded, under the id it answers for,
\* or its first COMMIT failed.
RecordedOK(w) ==
    LET r == req[w] IN
    pc[w] = "commitStocks" =>
        /\ GetShardIndexFromId(r.id) = r.index
        /\ \/ <<"shard", r.op, r.id>> \in lost
           \/ /\ r.id \in DOMAIN orders[Db(w)]
              /\ <<r.id, Target[r.op]>> \in events[Db(w)]

RecordInv ==
    /\ Inv
    /\ \A w \in Workers : RecordedOK(w)
    /\ \A a \in acked : GetShardIndexFromId(a[2]) \in ShardIndexes
    /\ lost # {} => "commit" \in Faults
    /\ AckedIsRecorded

\* What the first commit of a request does to the tables.
LEMMA CommitShardEffect ==
    ASSUME Inv, NEW w \in Workers, CommitShard(w)
    PROVE  LET db == Db(w)
               id == req[w].id
               op == req[w].op
           IN
           /\ db \in Dbs /\ op \in Ops /\ GetShardIndexFromId(id) = req[w].index
           /\ id \in DOMAIN orders[db] <=> op # "create"
           /\ DOMAIN orders'[db] = DOMAIN orders[db] \cup {id}
           /\ \A x \in DOMAIN orders[db] \ {id} : orders'[db][x] = orders[db][x]
           /\ \A d \in Dbs \ {db} : orders'[d] = orders[d]
           /\ op = "create" => orders'[db][id] = [user |-> req[w].user, status |-> Awaiting,
                                                 items |-> req[w].items]
           /\ op # "create" => /\ orders'[db][id] = [orders[db][id] EXCEPT !.status = Target[op]]
                               /\ orders[db][id] \in OrderRow
                               /\ Target[op] \in {Paid, Canceled}
           /\ <<id, Target[op]>> \in events'[db]
           /\ \A d \in Dbs : events[d] \subseteq events'[d]
<1> DEFINE db == Db(w)
           id == req[w].id
           op == req[w].op
           order == InstalledOrder(w)
<1>1. /\ pc[w] = "commitShard" /\ req[w] \in Request /\ db \in Dbs
      /\ RequestOK(w) /\ ShardTxOK(w) /\ OrderRowOK(w)
      /\ orders' = [orders EXCEPT ![db] = Overlay(orders[db], [x \in {id} |-> order])]
      /\ events' = [events EXCEPT ![db] = events[db] \cup ({id} \X shardTx[w].events)]
  BY PickType DEF Inv, TypeOK, CommitShard, Db, Request
<1>2. op \in Ops /\ GetShardIndexFromId(id) = req[w].index
  BY <1>1 DEF RequestOK, Request
<1>3. id \in DOMAIN orders[db] <=> op # "create"
  BY <1>1 DEF OrderRowOK
<1>4. shardTx[w] = [status |-> Target[op],
                    events |-> IF op = "create" THEN {New, Awaiting} ELSE {Target[op]}]
  BY <1>1 DEF ShardTxOK
<1>5. Target[op] \in shardTx[w].events /\ shardTx[w].status = Target[op]
  <2>1. op = "create" => Target[op] = Awaiting
    BY DEF Target
  <2> HIDE DEF op
  <2> QED  BY <1>4, <2>1
<1>6. op = "create" => order = [user |-> req[w].user, status |-> Awaiting,
                                items |-> req[w].items]
  BY <1>5 DEF InstalledOrder, Target
<1>7. op # "create" => /\ order = [orders[db][id] EXCEPT !.status = Target[op]]
                       /\ orders[db][id] \in OrderRow
                       /\ Target[op] \in {Paid, Canceled}
  <2> SUFFICES ASSUME op # "create"
               PROVE  /\ order = [orders[db][id] EXCEPT !.status = Target[op]]
                      /\ orders[db][id] \in OrderRow
                      /\ Target[op] \in {Paid, Canceled}
    OBVIOUS
  <2>1. order = [orders[db][id] EXCEPT !.status = Target[op]]
    BY <1>5 DEF InstalledOrder
  <2>2. orders[db][id] \in OrderRow
    BY <1>1, <1>3 DEF Inv, TypeOK, IsPartial
  <2>3. Target[op] \in {Paid, Canceled}
    BY <1>2 DEF Ops, Target
  <2> QED  BY <2>1, <2>2, <2>3
<1> HIDE DEF order
<1>8. /\ DOMAIN orders'[db] = DOMAIN orders[db] \cup {id}
      /\ orders'[db][id] = order
      /\ \A x \in DOMAIN orders[db] \ {id} : orders'[db][x] = orders[db][x]
      /\ \A d \in Dbs \ {db} : orders'[d] = orders[d]
  BY <1>1 DEF Inv, TypeOK, Overlay
<1>9. /\ <<id, Target[op]>> \in events'[db]
      /\ \A d \in Dbs : events[d] \subseteq events'[d]
  BY <1>1, <1>5 DEF Inv, TypeOK
<1> QED  BY <1>1, <1>2, <1>3, <1>6, <1>7, <1>8, <1>9

\* Tables that only grow keep what was recorded in them.
LEMMA RecordKept ==
    ASSUME RecordInv, Inv', acked' = acked, lost \subseteq lost',
           lost' = lost \/ "commit" \in Faults,
           \A db \in Dbs : /\ DOMAIN orders[db] \subseteq DOMAIN orders'[db]
                           /\ events[db] \subseteq events'[db],
           \A v \in Workers : pc'[v] = "commitStocks" =>
               (pc[v] = "commitStocks" /\ req'[v] = req[v]) \/ RecordedOK(v)'
    PROVE  RecordInv'
<1>1. ASSUME NEW v \in Workers PROVE RecordedOK(v)'
  <2>1. RecordedOK(v) /\ req[v] \in Request
    BY DEF RecordInv, Inv, TypeOK
  <2>2. CASE pc'[v] = "commitStocks" /\ pc[v] = "commitStocks" /\ req'[v] = req[v]
    <3>1. Db(v)' = Db(v) /\ Db(v) \in Dbs
      BY <2>1, <2>2, PickType DEF Db, Request
    <3> QED  BY <2>1, <2>2, <3>1 DEF RecordedOK
  <2>3. CASE pc'[v] # "commitStocks"
    BY <2>3 DEF RecordedOK
  <2> QED  BY <2>2, <2>3
<1>2. AckedIsRecorded'
  <2> SUFFICES ASSUME NEW a \in acked
               PROVE  LET db == Pick(GetShardIndexFromId(a[2])) IN
                      \/ <<"shard", a[1], a[2]>> \in lost'
                      \/ /\ a[2] \in DOMAIN orders'[db]
                         /\ <<a[2], Target[a[1]]>> \in events'[db]
    BY DEF AckedIsRecorded
  <2> DEFINE db == Pick(GetShardIndexFromId(a[2]))
  <2>1. \/ <<"shard", a[1], a[2]>> \in lost
        \/ a[2] \in DOMAIN orders[db] /\ <<a[2], Target[a[1]]>> \in events[db]
    BY DEF RecordInv, AckedIsRecorded
  <2>2. db \in Dbs
    BY PickType DEF RecordInv
  <2> QED  BY <2>1, <2>2
<1> QED  BY <1>1, <1>2 DEF RecordInv

\* Every step keeps the record of what was answered.
LEMMA RecordNext ==
    ASSUME RecordInv, [Next]_vars
    PROVE  RecordInv'
<1>1. Inv /\ Inv'
  BY NextInv DEF RecordInv
<1>2. ASSUME NEW w \in Workers, CommitShard(w) PROVE RecordInv'
  <2> DEFINE db == Db(w)
             id == req[w].id
  <2>1. /\ db \in Dbs /\ GetShardIndexFromId(id) = req[w].index
        /\ DOMAIN orders'[db] = DOMAIN orders[db] \cup {id}
        /\ \A d \in Dbs \ {db} : orders'[d] = orders[d]
        /\ <<id, Target[req[w].op]>> \in events'[db]
        /\ \A d \in Dbs : events[d] \subseteq events'[d]
    BY <1>1, <1>2, CommitShardEffect
  <2>2. /\ acked' = acked /\ lost' = lost /\ req' = req
        /\ \A v \in Workers \ {w} : pc'[v] = pc[v]
    BY <1>1, <1>2 DEF CommitShard, GoTo, Inv, TypeOK
  <2>3. RecordedOK(w)'
    BY <2>1, <2>2 DEF RecordedOK, Db
  <2>4. \A d \in Dbs : DOMAIN orders[d] \subseteq DOMAIN orders'[d]
    BY <2>1
  <2> QED  BY <1>1, <2>1, <2>2, <2>3, <2>4, RecordKept
<1>3. ASSUME NEW w \in Workers, CommitStocks(w) \/ CommitStocksLost(w)
      PROVE  RecordInv'
  <2>1. /\ pc[w] = "commitStocks" /\ orders' = orders /\ events' = events
        /\ lost \subseteq lost' /\ (lost' = lost \/ "commit" \in Faults)
        /\ acked' = acked \cup {<<req[w].op, req[w].id>>}
        /\ pc'[w] = "idle" /\ \A v \in Workers \ {w} : pc'[v] = pc[v] /\ req'[v] = req[v]
    BY <1>1, <1>3 DEF CommitStocks, CommitStocksLost, LoseCommit, Finish, GoTo, Inv, TypeOK
  <2>2. RecordedOK(w) /\ req[w].index \in ShardIndexes
    BY <1>1 DEF RecordInv, Inv, TypeOK, Request
  <2>3. ASSUME NEW v \in Workers PROVE RecordedOK(v)'
    <3>1. CASE v = w
      BY <2>1, <3>1 DEF RecordedOK
    <3>2. CASE v # w
      <4>1. RecordedOK(v)
        BY DEF RecordInv
      <4> QED  BY <2>1, <3>2, <4>1 DEF RecordedOK, Db
    <3> QED  BY <3>1, <3>2
  <2>4. /\ AckedIsRecorded'
        /\ \A a \in acked' : GetShardIndexFromId(a[2]) \in ShardIndexes
    BY <2>1, <2>2 DEF RecordInv, AckedIsRecorded, RecordedOK, Db
  <2>5. lost' # {} => "commit" \in Faults
    BY <2>1 DEF RecordInv
  <2> QED  BY <1>1, <2>3, <2>4, <2>5 DEF RecordInv
<1>4. ASSUME UNCHANGED <<orders, events, acked, lost>>,
             \A v \in Workers : pc'[v] = "commitStocks" =>
                                  pc[v] = "commitStocks" /\ req'[v] = req[v]
      PROVE  RecordInv'
  BY <1>1, <1>4, RecordKept
<1>5. ASSUME NEW w \in Workers,
             \/ BeginCreate(w) \/ BeginUpdate(w) \/ GenerateId(w) \/ Insert(w) \/ GetOrder(w)
             \/ StockFailure(w) \/ ReadRow(w) \/ SetStatus(w) \/ Rollback(w)
             \/ StatementFails(w) \/ DeadlockVictim(w)
      PROVE  RecordInv'
  <2>1. /\ UNCHANGED <<orders, events, acked, lost>>
        /\ pc'[w] # "commitStocks"
        /\ \A v \in Workers \ {w} : pc'[v] = pc[v] /\ req'[v] = req[v]
    BY <1>1, <1>5 DEF Inv, TypeOK, BeginCreate, BeginUpdate, GenerateId, Insert, GetOrder,
       StockFailure, ReadRow, SetStatus, Rollback, StatementFails, DeadlockVictim,
       GoTo, Finish
  <2> QED  BY <1>4, <2>1
<1>6. ASSUME NEW w \in Workers, CheckItem(w) \/ WriteRow(w) PROVE RecordInv'
  <2>1. /\ UNCHANGED <<orders, events, acked, lost>>
        /\ pc[w] \in {"check", "read", "write"}
    BY <1>6 DEF CheckItem, WriteRow
  <2>2. "check" \in PcValues /\ "read" \in PcValues /\ "setStatus" \in PcValues
    BY DEF PcValues, Statements
  <2>3. /\ pc'[w] # "commitStocks"
        /\ \A v \in Workers \ {w} : pc'[v] = pc[v] /\ req'[v] = req[v]
    <3>1. CASE NextItem(w, "check", "read")
      BY <1>1, <2>1, <2>2, <3>1, NextItemLoop
    <3>2. CASE NextItem(w, "read", "setStatus")
      BY <1>1, <2>1, <2>2, <3>2, NextItemLoop
    <3> QED  BY <1>6, <3>1, <3>2 DEF CheckItem, WriteRow
  <2> QED  BY <1>4, <2>1, <2>3
<1>7. CASE Crash \/ NegativeId
  BY <1>4, <1>7 DEF Crash, NegativeId, ProcessDies
<1>8. CASE UNCHANGED vars
  BY <1>4, <1>8 DEF vars
<1>9. ASSUME NEW w \in Workers, CommitShardLost(w) PROVE RecordInv'
  <2>1. /\ pc[w] = "commitShard" /\ orders' = orders /\ events' = events
        /\ acked' = acked /\ req' = req /\ lost \subseteq lost'
        /\ <<"shard", req[w].op, req[w].id>> \in lost' /\ "commit" \in Faults
        /\ \A v \in Workers \ {w} : pc'[v] = pc[v]
    BY <1>1, <1>9 DEF CommitShardLost, LoseCommit, GoTo, Inv, TypeOK
  <2>2. GetShardIndexFromId(req[w].id) = req[w].index
    BY <1>1, <2>1 DEF Inv, RequestOK
  <2>3. RecordedOK(w)'
    BY <2>1, <2>2 DEF RecordedOK
  <2> QED  BY <1>1, <2>1, <2>3, RecordKept
<1> QED  BY <1>2, <1>3, <1>5, <1>6, <1>7, <1>8, <1>9
         DEF Next, PlainStep, LockingStep, Fault

\* Every success that a client was told stays in the tables of the database its
\* id names, whatever statements fail, deadlock or are cut off by a crash; what
\* is missing there is missing because its own shard COMMIT failed (the error
\* that WithTransactions drops), and for no other reason.
THEOREM AckedStaysRecorded == Spec => []AckedIsRecorded
<1>1. Init => RecordInv
  <2> SUFFICES ASSUME Init PROVE RecordInv
    OBVIOUS
  <2>1. \A w \in Workers : RecordedOK(w)
    BY DEF Init, RecordedOK
  <2>2. lost = {} /\ AckedIsRecorded /\ \A a \in acked : GetShardIndexFromId(a[2]) \in ShardIndexes
    BY DEF Init, AckedIsRecorded
  <2> QED  BY <2>1, <2>2, InitInv DEF RecordInv
<1>2. RecordInv /\ [Next]_vars => RecordInv'
  BY RecordNext
<1>3. RecordInv => AckedIsRecorded
  BY DEF RecordInv
<1> QED  BY <1>1, <1>2, <1>3, PTL DEF Spec
=============================================================================
