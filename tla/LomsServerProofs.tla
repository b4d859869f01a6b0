-------------------------- MODULE LomsServerProofs --------------------------
(***************************************************************************)
(* The connections of LOMS and the stop of its process, for any workers,   *)
(* shards, secondaries and connections per pgxpool.  The key to the waits  *)
(* is the order in which a transaction takes its connections: a worker     *)
(* that has one and wants another has the shard's and wants the stocks'.   *)
(***************************************************************************)
EXTENDS LomsServer, SequenceTheorems, TLAPS

Types == {"WriteOrRead", "ReadOnly"}

\* The pools of a transaction, from its start or from its second pool on.
PoolLists == {<<p>> : p \in Pools} \cup {<<s, Stocks>> : s \in Shards}
Transactions == [pools : PoolLists, type : Types]

\* Steps between two connections.
Dealing == {"testing", "dealing", "begin"}

\* A request has transactions left, and goes through their pools in order.
PlanOK(w) ==
    /\ plan[w] \in Seq(Transactions)
    /\ pc[w] # "idle" => plan[w] # <<>>

\* What a worker holds while it is dealt a connection.
PlaceOK(w) ==
    /\ pc[w] \in Dealing =>
         \/ held[w] = {} /\ todo[w] \in PoolLists
         \/ todo[w] = <<Stocks>> /\ \A c \in held[w] : c[2] \in Shards
    /\ pc[w] = "begin" => seen[w] < Size(role[w], Current(w))

PoolInv ==
    /\ PoolTypeOK
    /\ \A w \in Workers : PlanOK(w) /\ PlaceOK(w)
    /\ ConnectionsAccounted

ServerTypeOK ==
    /\ done \in BOOLEAN
    /\ main \in {"dialing", "waiting", "exited"}
    /\ grpc \in {"starting", "serving", "draining", "ended"}
    /\ gateway \in {"unborn", "starting", "serving", "ended"}
    /\ stopper \in {"unborn", "waiting", "stopping", "ended"}
    /\ closed \in BOOLEAN
    /\ expired \in BOOLEAN
    /\ sender \in {"unborn", "running", "ended"}

\* Requests are under way only between the start of the gRPC server and its
\* end, unless Stop has cut them off; main exits after that end.
StopInv ==
    /\ grpc \in {"starting", "ended"} /\ ~ expired => \A w \in Handlers : pc[w] = "idle"
    /\ main = "exited" => grpc = "ended"

Inv == PoolInv /\ ServerTypeOK /\ StopInv
-----------------------------------------------------------------------------
\* The pools are a finite list of names, the stocks' among them.
LEMMA PoolListFacts ==
    ASSUME NEW l \in PoolLists
    PROVE  /\ l \in Seq(Pools)
           /\ l # <<>>
           /\ Head(l) \in Pools
           /\ Len(l) # 1 => Head(l) \in Shards /\ Tail(l) = <<Stocks>>
<1>1. CASE \E p \in Pools : l = <<p>>
  BY <1>1
<1>2. CASE \E s \in Shards : l = <<s, Stocks>>
  BY <1>2 DEF Pools
<1> QED
  BY <1>1, <1>2 DEF PoolLists

\* A connection is known by its role, its pool, and its pgxpool's index.
LEMMA ConnectionFacts ==
    ASSUME NEW r \in Roles, NEW p \in Pools, NEW i \in Nat, i < Size(r, p),
           NEW n \in 1 .. MaxConns
    PROVE  <<r, p, i, n>> \in Connections
<1>1. Size(r, p) \in Nat
  BY SecondariesAssumption DEF Size
<1>2. i \in 0 .. Size(r, p) - 1
  BY <1>1
<1> DEFINE Of(rr, pp) == {<<rr, pp, j, k>> : j \in 0 .. Size(rr, pp) - 1, k \in 1 .. MaxConns}
<1>3. <<r, p, i, n>> \in Of(r, p)
  BY <1>2
<1>4. Connections = UNION {Of(rr, pp) : rr \in Roles, pp \in Pools}
  BY DEF Connections
<1> HIDE DEF Of
<1> QED
  BY <1>3, <1>4

\* Pools have sizes.
LEMMA SizeType == ASSUME NEW r \in Roles, NEW p \in Pools PROVE Size(r, p) \in Nat
  BY SecondariesAssumption DEF Size

\* Transactions have the shape that the type invariant asks of a plan.
LEMMA PlanType ==
    ASSUME NEW ts \in Seq(Transactions)
    PROVE  ts \in Seq([pools : Seq(Pools), type : Types])
<1>1. Transactions \subseteq [pools : Seq(Pools), type : Types]
  BY PoolListFacts DEF Transactions
<1> QED
  BY <1>1, SeqMonotonic

\* Every list of transactions in the code is well formed and not empty.
LEMMA RequestFacts ==
    ASSUME NEW ts \in Requests \cup {SendEvents}
    PROVE  ts \in Seq(Transactions) /\ ts # <<>>
<1>1. Shards \subseteq Pools /\ Stocks \in Pools
  BY DEF Pools
<1>2. \A p \in Pools, type \in Types : Transaction(<<p>>, type) \in Transactions
  BY DEF Transactions, Transaction, PoolLists
<1>3. \A s \in Shards, type \in Types : Transaction(<<s, Stocks>>, type) \in Transactions
  BY DEF Transactions, Transaction, PoolLists
<1>4. CASE ts = GetAvailableStocks
  BY <1>1, <1>2, <1>4 DEF GetAvailableStocks, Types
<1>5. CASE \E s \in Shards : ts \in {CreateOrder(s), PayOrder(s), CancelOrder(s), GetOrder(s)}
  <2>1. PICK s \in Shards : ts \in {CreateOrder(s), PayOrder(s), CancelOrder(s), GetOrder(s)}
    BY <1>5
  <2>2. PICK x \in Transactions : ts = <<x>>
    BY <1>1, <1>2, <1>3, <2>1 DEF CreateOrder, PayOrder, CancelOrder, GetOrder, Types
  <2> QED
    BY <2>2
<1>6. CASE \E s, t \in Shards : ts = GetOrders(<<s, t>>)
  <2>1. PICK s \in Shards, t \in Shards : ts = GetOrders(<<s, t>>)
    BY <1>6
  <2>2. ts = [i \in 1 .. 2 |-> Transaction(<<(<<s, t>>)[i]>>, "ReadOnly")]
    BY <2>1 DEF GetOrders
  <2>3. \A i \in 1 .. 2 : Transaction(<<(<<s, t>>)[i]>>, "ReadOnly") \in Transactions
    BY <1>1, <1>2 DEF Types
  <2>4. ts \in [1 .. 2 -> Transactions]
    BY <2>2, <2>3
  <2>5. ts \in Seq(Transactions)
    BY <2>4, SeqDef
  <2> QED
    <3>1. DOMAIN ts = 1 .. 2 /\ DOMAIN ts = 1 .. Len(ts)
      BY <2>4, <2>5, LenProperties
    <3>2. ts = <<>> => Len(ts) = 0
      BY EmptySeq
    <3> QED
      BY <2>5, <3>1, <3>2
<1>7. CASE ts = SendEvents
  <2>1. ShardPools \in Seq(STRING) /\ Len(ShardPools) \in Nat \ {0}
    BY ShardPoolsAssumption, EmptySeq
  <2>2. DOMAIN ShardPools = 1 .. Len(ShardPools)
    BY <2>1, LenProperties
  <2>3. ts = [i \in 1 .. Len(ShardPools) |-> Transaction(<<ShardPools[i]>>, "WriteOrRead")]
    BY <1>7, <2>2 DEF SendEvents
  <2>4. \A i \in 1 .. Len(ShardPools) :
           Transaction(<<ShardPools[i]>>, "WriteOrRead") \in Transactions
    BY <1>1, <1>2, <2>2 DEF Shards, Types
  <2>5. ts \in [1 .. Len(ShardPools) -> Transactions]
    BY <2>3, <2>4
  <2>6. ts \in Seq(Transactions)
    BY <2>1, <2>5, SeqDef
  <2> QED
    BY <2>1, <2>5, <2>6, LenProperties, EmptySeq
<1>8. CASE ts \in Requests
  <2> DEFINE One(s) == {CreateOrder(s), PayOrder(s), CancelOrder(s), GetOrder(s)}
             Ones == UNION {One(s) : s \in Shards}
             Twos == {GetOrders(<<s, t>>) : s, t \in Shards}
  <2>1. ts \in {GetAvailableStocks} \cup Ones \cup Twos
    BY <1>8 DEF Requests
  <2>2. ts \in Twos => \E s, t \in Shards : ts = GetOrders(<<s, t>>)
    OBVIOUS
  <2>3. ts \in Ones => \E s \in Shards : ts \in One(s)
    OBVIOUS
  <2> HIDE DEF Ones, Twos
  <2> QED
    BY <1>4, <1>5, <1>6, <2>1, <2>2, <2>3
<1> QED
  BY <1>7, <1>8
-----------------------------------------------------------------------------
\* A step of one worker keeps the types, and the place of the others.
LEMMA LocalStep ==
    ASSUME PoolInv, NEW w \in Workers,
           pc' = [pc EXCEPT ![w] = pc'[w]], plan' = [plan EXCEPT ![w] = plan'[w]],
           todo' = [todo EXCEPT ![w] = todo'[w]], role' = [role EXCEPT ![w] = role'[w]],
           seen' = [seen EXCEPT ![w] = seen'[w]], held' = [held EXCEPT ![w] = held'[w]],
           pc'[w] \in PcValues, todo'[w] \in Seq(Pools), role'[w] \in Roles,
           seen'[w] \in Nat, held'[w] \subseteq Connections, PlanOK(w)', PlaceOK(w)',
           pc'[w] = "dealing" => seen'[w] < Size(role'[w], Head(todo'[w])),
           turn' \in [Roles -> [Pools -> Nat]],
           \A r \in Roles, p \in Pools : turn'[r][p] <= Size(r, p),
           idle' \subseteq Connections, leaked' \subseteq Connections, panicked' \in BOOLEAN
    PROVE  PoolTypeOK' /\ \A v \in Workers : PlanOK(v)' /\ PlaceOK(v)'
<1>1. plan'[w] \in Seq([pools : Seq(Pools), type : Types])
  BY PlanType DEF PlanOK
<1>2. /\ pc' \in [Workers -> PcValues] /\ todo' \in [Workers -> Seq(Pools)]
      /\ role' \in [Workers -> Roles] /\ seen' \in [Workers -> Nat]
      /\ held' \in [Workers -> SUBSET Connections]
      /\ plan' \in [Workers -> Seq([pools : Seq(Pools), type : Types])]
  BY <1>1 DEF PoolInv, PoolTypeOK, Types
<1>3. ASSUME NEW v \in Workers \ {w}
      PROVE  UNCHANGED <<pc[v], plan[v], todo[v], role[v], seen[v], held[v]>>
  BY DEF PoolInv, PoolTypeOK
<1>4. \A v \in Workers : pc'[v] = "dealing" => seen'[v] < Size(role'[v], Head(todo'[v]))
  BY <1>3 DEF PoolInv, PoolTypeOK, Current
<1>5. PoolTypeOK'
  BY <1>2, <1>4 DEF PoolTypeOK, Types, Current
<1>6. ASSUME NEW v \in Workers \ {w} PROVE PlanOK(v)' /\ PlaceOK(v)'
  BY <1>3 DEF PoolInv, PlanOK, PlaceOK, Current
<1> QED
  BY <1>5, <1>6

\* As long as no connection moves, all stay accounted for.
LEMMA SameConnections ==
    ASSUME PoolInv, NEW w \in Workers, pc' = [pc EXCEPT ![w] = pc'[w]],
           UNCHANGED <<held, idle, leaked>>, pc'[w] = "idle" => held[w] = {}
    PROVE  ConnectionsAccounted'
<1>1. \A v \in Workers : pc'[v] = "idle" => held[v] = {}
  BY DEF PoolInv, PoolTypeOK, ConnectionsAccounted
<1> QED
  BY <1>1 DEF PoolInv, ConnectionsAccounted

\* A worker's connections change: it shares with the pgxpools, and with what
\* is lost, what they had between them before.
LEMMA MovedConnections ==
    ASSUME PoolInv, NEW w \in Workers, NEW h, held' = [held EXCEPT ![w] = h],
           pc' = [pc EXCEPT ![w] = pc'[w]], pc'[w] = "idle" => h = {},
           h \cup idle' \cup leaked' = held[w] \cup idle \cup leaked,
           idle' \cap leaked' = {}, h \cap (idle' \cup leaked') = {}
    PROVE  ConnectionsAccounted'
<1> DEFINE Others == UNION {held[v] : v \in Workers \ {w}}
<1>1. held'[w] = h /\ \A v \in Workers \ {w} : held'[v] = held[v] /\ pc'[v] = pc[v]
  BY DEF PoolInv, PoolTypeOK
<1>2. /\ Connections = idle \cup leaked \cup UNION {held[v] : v \in Workers}
      /\ \A v \in Workers : held[v] \cap (idle \cup leaked) = {}
      /\ \A v \in Workers : pc[v] = "idle" => held[v] = {}
      /\ \A v \in Workers : \A u \in Workers \ {v} : held[v] \cap held[u] = {}
  BY DEF PoolInv, ConnectionsAccounted
<1>3. UNION {held[v] : v \in Workers} = held[w] \cup Others
  OBVIOUS
<1>4. UNION {held'[v] : v \in Workers} = h \cup Others
  <2>1. UNION {held'[v] : v \in Workers} = held'[w] \cup UNION {held'[v] : v \in Workers \ {w}}
    OBVIOUS
  <2>2. {held'[v] : v \in Workers \ {w}} = {held[v] : v \in Workers \ {w}}
    BY <1>1
  <2> QED
    BY <1>1, <2>1, <2>2
<1> HIDE DEF Others
<1>5. Connections = idle' \cup leaked' \cup UNION {held'[v] : v \in Workers}
  BY <1>2, <1>3, <1>4
<1>6. Connections = Connections'
  BY DEF Connections
<1>7. ASSUME NEW v \in Workers \ {w}
      PROVE  /\ held'[v] \cap (idle' \cup leaked') = {}
             /\ held'[v] \cap held'[w] = {}
             /\ pc'[v] = "idle" => held'[v] = {}
             /\ \A u \in Workers \ {v} : held'[v] \cap held'[u] = {}
  <2>1. held[v] \cap (held[w] \cup idle \cup leaked) = {}
    BY <1>2
  <2>2. held[v] \cap (h \cup idle' \cup leaked') = {}
    BY <2>1
  <2> QED
    BY <1>1, <1>2, <2>2
<1>8. /\ h \cap (idle' \cup leaked') = {}
      /\ \A u \in Workers \ {w} : held'[w] \cap held'[u] = {}
  BY <1>7
<1>9. \A v \in Workers :
          /\ held'[v] \cap (idle' \cup leaked') = {}
          /\ pc'[v] = "idle" => held'[v] = {}
          /\ \A u \in Workers \ {v} : held'[v] \cap held'[u] = {}
  BY <1>1, <1>7, <1>8
<1> QED
  BY <1>5, <1>6, <1>9 DEF ConnectionsAccounted

\* Both steps that end a transaction leave the worker without a connection.
LEMMA StartWithOK ==
    ASSUME PoolInv, NEW w \in Workers, NEW ts \in Seq(Transactions), ts # <<>>,
           StartWith(w, ts), held' = [held EXCEPT ![w] = {}],
           UNCHANGED <<seen, turn, leaked, panicked>>, idle' \subseteq Connections
    PROVE  /\ PoolTypeOK' /\ \A v \in Workers : PlanOK(v)' /\ PlaceOK(v)'
           /\ pc' = [pc EXCEPT ![w] = "testing"]
<1>1. Head(ts) \in Transactions
  BY HeadTailProperties
<1>2. Head(ts).pools \in PoolLists /\ Head(ts).type \in Types
  BY <1>1 DEF Transactions
<1>3. /\ pc' = [pc EXCEPT ![w] = "testing"] /\ plan' = [plan EXCEPT ![w] = ts]
      /\ todo' = [todo EXCEPT ![w] = Head(ts).pools]
      /\ role' = [role EXCEPT ![w] = RoleFor(Head(ts).type)]
  BY DEF StartWith, GoTo
<1>4. /\ pc'[w] = "testing" /\ plan'[w] = ts /\ todo'[w] = Head(ts).pools
      /\ role'[w] = RoleFor(Head(ts).type) /\ held'[w] = {} /\ seen'[w] = seen[w]
      /\ seen' = [seen EXCEPT ![w] = seen'[w]] /\ seen[w] \in Nat
  BY <1>3 DEF PoolInv, PoolTypeOK
<1>5. PlanOK(w)' /\ PlaceOK(w)'
  BY <1>2, <1>4 DEF PlanOK, PlaceOK
<1>6. todo'[w] \in Seq(Pools) /\ role'[w] \in Roles /\ pc'[w] \in PcValues
  BY <1>2, <1>4, PoolListFacts DEF RoleFor, Roles, PcValues
<1>7. /\ turn' \in [Roles -> [Pools -> Nat]] /\ leaked' \subseteq Connections
      /\ \A r \in Roles, p \in Pools : turn'[r][p] <= Size(r, p)
      /\ panicked' \in BOOLEAN
  BY DEF PoolInv, PoolTypeOK
<1>8. PoolTypeOK' /\ \A v \in Workers : PlanOK(v)' /\ PlaceOK(v)'
  BY <1>3, <1>4, <1>5, <1>6, <1>7, LocalStep
<1> QED
  BY <1>3, <1>8

LEMMA FinishOK ==
    ASSUME PoolInv, NEW w \in Workers, Finish(w), held' = [held EXCEPT ![w] = {}],
           seen' = [seen EXCEPT ![w] = seen'[w]], seen'[w] \in Nat,
           UNCHANGED <<turn, panicked>>,
           idle' \subseteq Connections, leaked' \subseteq Connections
    PROVE  /\ PoolTypeOK' /\ \A v \in Workers : PlanOK(v)' /\ PlaceOK(v)'
           /\ pc' = [pc EXCEPT ![w] = "idle"]
<1>1. /\ pc' = [pc EXCEPT ![w] = "idle"] /\ plan' = [plan EXCEPT ![w] = <<>>]
      /\ todo' = [todo EXCEPT ![w] = <<>>] /\ role' = [role EXCEPT ![w] = "writer"]
  BY DEF Finish, GoTo
<1>2. /\ pc'[w] = "idle" /\ plan'[w] = <<>> /\ todo'[w] = <<>> /\ role'[w] = "writer"
      /\ held'[w] = {}
  BY <1>1 DEF PoolInv, PoolTypeOK
<1>3. PlanOK(w)' /\ PlaceOK(w)'
  BY <1>2, EmptySeq DEF PlanOK, PlaceOK, Dealing
<1>4. todo'[w] \in Seq(Pools) /\ role'[w] \in Roles /\ pc'[w] \in PcValues
  BY <1>2, EmptySeq DEF Roles, PcValues
<1>5. /\ turn' \in [Roles -> [Pools -> Nat]]
      /\ \A r \in Roles, p \in Pools : turn'[r][p] <= Size(r, p)
      /\ panicked' \in BOOLEAN
  BY DEF PoolInv, PoolTypeOK
<1>6. PoolTypeOK' /\ \A v \in Workers : PlanOK(v)' /\ PlaceOK(v)'
  BY <1>1, <1>2, <1>3, <1>4, <1>5, LocalStep
<1> QED
  BY <1>1, <1>6
-----------------------------------------------------------------------------
\* At the start every connection is in its pgxpool.
LEMMA InitPool == PoolInit => PoolInv
<1> SUFFICES ASSUME PoolInit PROVE PoolInv
  OBVIOUS
<1>1. PoolTypeOK
  <2>1. plan \in [Workers -> Seq([pools : Seq(Pools), type : Types])] /\ todo \in [Workers -> Seq(Pools)]
    BY EmptySeq DEF PoolInit
  <2>2. \A r \in Roles, p \in Pools : turn[r][p] <= Size(r, p)
    BY SizeType DEF PoolInit
  <2> QED
    BY <2>1, <2>2 DEF PoolInit, PoolTypeOK, PcValues, Roles, Types
<1>2. \A w \in Workers : PlanOK(w) /\ PlaceOK(w)
  BY EmptySeq DEF PoolInit, PlanOK, PlaceOK, Dealing
<1>3. UNION {held[w] : w \in Workers} = {}
  BY DEF PoolInit
<1>4. ConnectionsAccounted
  BY <1>3 DEF PoolInit, ConnectionsAccounted
<1> QED
  BY <1>1, <1>2, <1>4 DEF PoolInv

LEMMA StartRequestStep ==
    ASSUME PoolInv, NEW w \in Workers, NEW ts \in Requests \cup {SendEvents},
           StartRequest(w, ts)
    PROVE  PoolInv'
<1>1. ts \in Seq(Transactions) /\ ts # <<>>
  BY RequestFacts
<1>2. /\ pc[w] = "idle" /\ StartWith(w, ts)
      /\ UNCHANGED <<seen, held, turn, idle, leaked, panicked>>
  BY DEF StartRequest
<1>3. held[w] = {} /\ held' = [held EXCEPT ![w] = {}] /\ idle' \subseteq Connections
  BY <1>2 DEF PoolInv, PoolTypeOK, ConnectionsAccounted
<1>4. /\ PoolTypeOK' /\ \A v \in Workers : PlanOK(v)' /\ PlaceOK(v)'
      /\ pc' = [pc EXCEPT ![w] = "testing"]
  BY <1>1, <1>2, <1>3, StartWithOK
<1>5. pc' = [pc EXCEPT ![w] = pc'[w]]
  BY <1>4 DEF PoolInv, PoolTypeOK
<1>6. ConnectionsAccounted'
  BY <1>2, <1>3, <1>5, SameConnections
<1> QED
  BY <1>4, <1>6 DEF PoolInv

\* The worker's place, spelled out: where it is, it has a pool to go to.
LEMMA Place ==
    ASSUME PoolInv, NEW w \in Workers, pc[w] \in Dealing
    PROVE  /\ todo[w] \in PoolLists /\ Current(w) \in Pools /\ role[w] \in Roles
           /\ turn[role[w]][Current(w)] \in Nat
           /\ turn[role[w]][Current(w)] <= Size(role[w], Current(w))
           /\ Size(role[w], Current(w)) \in Nat
           /\ seen[w] \in Nat
<1>1. <<Stocks>> \in PoolLists
  BY DEF PoolLists, Pools
<1>2. todo[w] \in PoolLists /\ role[w] \in Roles /\ seen[w] \in Nat
  BY <1>1 DEF PoolInv, PlaceOK, PoolTypeOK
<1>3. Current(w) \in Pools
  BY <1>2, PoolListFacts DEF Current
<1> QED
  BY <1>2, <1>3, SizeType DEF PoolInv, PoolTypeOK

\* The test leaves a usable index, or sends a reader to the writers.
LEMMA TestStep == ASSUME PoolInv, NEW w \in Workers, Test(w) PROVE PoolInv'
<1> DEFINE r == role[w]
           p == Current(w)
           atEnd == turn[r][p] = Size(r, p)
<1>1. pc[w] = "testing" /\ pc[w] \in Dealing
  BY DEF Test, Dealing
<1>2. /\ todo[w] \in PoolLists /\ p \in Pools /\ r \in Roles /\ Size(r, p) \in Nat
      /\ turn[r][p] \in Nat /\ turn[r][p] <= Size(r, p) /\ seen[w] \in Nat
  BY <1>1, Place
<1>3. /\ turn' = IF atEnd THEN [turn EXCEPT ![r][p] = 0] ELSE turn
      /\ UNCHANGED <<plan, todo, held, idle, leaked, panicked>>
  BY DEF Test
<1>4. /\ turn' \in [Roles -> [Pools -> Nat]]
      /\ \A x \in Roles, q \in Pools : turn'[x][q] <= Size(x, q)
  BY <1>2, <1>3, SizeType DEF PoolInv, PoolTypeOK
<1>5. \/ pc' = pc /\ seen' = seen /\ role' = [role EXCEPT ![w] = "writer"]
      \/ /\ pc' = [pc EXCEPT ![w] = "dealing"] /\ role' = role
         /\ seen' = [seen EXCEPT ![w] = turn'[r][p]]
         /\ ~ (atEnd /\ r = "reader")
  BY DEF Test, GoTo
<1>6. /\ pc' = [pc EXCEPT ![w] = pc'[w]] /\ plan' = [plan EXCEPT ![w] = plan'[w]]
      /\ todo' = [todo EXCEPT ![w] = todo'[w]] /\ role' = [role EXCEPT ![w] = role'[w]]
      /\ seen' = [seen EXCEPT ![w] = seen'[w]] /\ held' = [held EXCEPT ![w] = held'[w]]
      /\ pc'[w] \in {"testing", "dealing"} /\ role'[w] \in Roles
      /\ plan'[w] = plan[w] /\ todo'[w] = todo[w] /\ held'[w] = held[w]
  BY <1>1, <1>2, <1>3, <1>5 DEF PoolInv, PoolTypeOK, Roles
<1>7. turn'[r][p] \in Nat
  BY <1>2, <1>4
<1>8. pc'[w] = "dealing" => seen'[w] < Size(role'[w], Head(todo'[w]))
  <2> SUFFICES ASSUME pc'[w] = "dealing" PROVE seen'[w] < Size(role'[w], Head(todo'[w]))
    OBVIOUS
  <2>1. role' = role /\ seen'[w] = turn'[r][p] /\ ~ (atEnd /\ r = "reader")
    BY <1>1, <1>5 DEF PoolInv, PoolTypeOK
  <2>2. Size(role'[w], Head(todo'[w])) = Size(r, p)
    BY <1>3, <2>1 DEF Current
  <2>3. CASE atEnd
    <3>1. turn'[r][p] = 0
      BY <1>2, <1>3, <2>3 DEF PoolInv, PoolTypeOK
    <3>2. Size(r, p) = 1
      BY <1>2, <2>1, <2>3 DEF Size, Roles
    <3> QED
      BY <2>1, <2>2, <3>1, <3>2
  <2>4. CASE ~ atEnd
    BY <1>2, <1>3, <2>1, <2>2, <2>4
  <2> QED
    BY <2>3, <2>4
<1>9. seen'[w] \in Nat
  BY <1>2, <1>5, <1>7 DEF PoolInv, PoolTypeOK
<1>10. PlanOK(w)' /\ PlaceOK(w)'
  BY <1>1, <1>6 DEF PoolInv, PlanOK, PlaceOK, Dealing
<1>11. /\ todo'[w] \in Seq(Pools) /\ pc'[w] \in PcValues /\ held'[w] \subseteq Connections
       /\ idle' \subseteq Connections /\ leaked' \subseteq Connections /\ panicked' \in BOOLEAN
  BY <1>3, <1>6 DEF PoolInv, PoolTypeOK, PcValues
<1>12. PoolTypeOK' /\ \A v \in Workers : PlanOK(v)' /\ PlaceOK(v)'
  BY <1>4, <1>6, <1>8, <1>9, <1>10, <1>11, LocalStep
<1>13. ConnectionsAccounted'
  BY <1>3, <1>6, SameConnections
<1> QED
  BY <1>12, <1>13 DEF PoolInv

\* Whichever index it uses, a worker goes on only with one that is in range.
LEMMA DealStep == ASSUME PoolInv, NEW w \in Workers, Deal(w) PROVE PoolInv'
<1> DEFINE r == role[w]
           p == Current(w)
<1>1. pc[w] = "dealing" /\ pc[w] \in Dealing
  BY DEF Deal, Dealing
<1>2. /\ todo[w] \in PoolLists /\ p \in Pools /\ r \in Roles /\ Size(r, p) \in Nat
      /\ turn[r][p] \in Nat /\ turn[r][p] <= Size(r, p) /\ seen[w] \in Nat
  BY <1>1, Place
<1>3. PICK i \in {seen[w], turn[r][p]} :
          IF i < Size(r, p)
          THEN /\ seen' = [seen EXCEPT ![w] = i]
               /\ turn' = [turn EXCEPT ![r][p] = i + 1]
               /\ pc' = [pc EXCEPT ![w] = "begin"]
               /\ UNCHANGED panicked
          ELSE /\ panicked' = TRUE
               /\ UNCHANGED <<seen, turn, pc>>
  BY DEF Deal, GoTo
<1>4. UNCHANGED <<plan, todo, role, held, idle, leaked>>
  BY DEF Deal
<1>5. i \in Nat
  BY <1>2
<1>6. /\ turn' \in [Roles -> [Pools -> Nat]]
      /\ \A x \in Roles, q \in Pools : turn'[x][q] <= Size(x, q)
      /\ panicked' \in BOOLEAN
  <2>1. /\ turn \in [Roles -> [Pools -> Nat]] /\ panicked \in BOOLEAN
        /\ \A x \in Roles, q \in Pools : turn[x][q] <= Size(x, q)
    BY DEF PoolInv, PoolTypeOK
  <2>2. CASE i < Size(r, p)
    <3>1. turn' = [turn EXCEPT ![r][p] = i + 1] /\ panicked' = panicked
      BY <1>3, <2>2
    <3>2. i + 1 \in Nat /\ i + 1 <= Size(r, p)
      BY <1>2, <1>5, <2>2
    <3>3. turn' \in [Roles -> [Pools -> Nat]]
      BY <1>2, <2>1, <3>1, <3>2
    <3>4. ASSUME NEW x \in Roles, NEW q \in Pools PROVE turn'[x][q] <= Size(x, q)
      <4>1. CASE x = r /\ q = p
        BY <1>2, <2>1, <3>1, <3>2, <4>1
      <4>2. CASE ~ (x = r /\ q = p)
        <5>1. turn'[x][q] = turn[x][q]
          BY <1>2, <2>1, <3>1, <4>2
        <5> QED
          BY <2>1, <5>1
      <4> QED
        BY <4>1, <4>2
    <3> QED
      BY <2>1, <3>1, <3>3, <3>4
  <2>3. CASE ~ (i < Size(r, p))
    BY <1>3, <2>1, <2>3
  <2> QED
    BY <2>2, <2>3
<1>7. /\ pc' = [pc EXCEPT ![w] = pc'[w]] /\ plan' = [plan EXCEPT ![w] = plan'[w]]
      /\ todo' = [todo EXCEPT ![w] = todo'[w]] /\ role' = [role EXCEPT ![w] = role'[w]]
      /\ seen' = [seen EXCEPT ![w] = seen'[w]] /\ held' = [held EXCEPT ![w] = held'[w]]
      /\ pc'[w] \in {"begin", "dealing"} /\ seen'[w] \in Nat
  BY <1>1, <1>2, <1>3, <1>4, <1>5 DEF PoolInv, PoolTypeOK
<1>8. pc'[w] = "dealing" => seen'[w] < Size(role'[w], Head(todo'[w]))
  BY <1>1, <1>3, <1>4 DEF PoolInv, PoolTypeOK, Current
<1>9. pc'[w] = "begin" => seen'[w] < Size(role'[w], Head(todo'[w]))
  BY <1>1, <1>3, <1>4 DEF PoolInv, PoolTypeOK, Current
<1>10. PlanOK(w)' /\ PlaceOK(w)'
  BY <1>1, <1>4, <1>7, <1>9 DEF PoolInv, PlanOK, PlaceOK, Dealing, Current
<1>11. /\ todo'[w] \in Seq(Pools) /\ pc'[w] \in PcValues /\ held'[w] \subseteq Connections
       /\ idle' \subseteq Connections /\ leaked' \subseteq Connections /\ role'[w] \in Roles
  BY <1>4, <1>7 DEF PoolInv, PoolTypeOK, PcValues
<1>12. PoolTypeOK' /\ \A v \in Workers : PlanOK(v)' /\ PlaceOK(v)'
  BY <1>6, <1>7, <1>8, <1>10, <1>11, LocalStep
<1>13. ConnectionsAccounted'
  BY <1>4, <1>7, SameConnections
<1> QED
  BY <1>12, <1>13 DEF PoolInv

\* A connection leaves its pgxpool for one worker; if there is another pool to
\* begin in, it is the stocks', and the connection is a shard's.
LEMMA BeginStep == ASSUME PoolInv, NEW w \in Workers, Begin(w) PROVE PoolInv'
<1>1. pc[w] = "begin" /\ pc[w] \in Dealing
  BY DEF Begin, Dealing
<1>2. /\ todo[w] \in PoolLists /\ Current(w) \in Pools /\ role[w] \in Roles
      /\ seen[w] \in Nat
  BY <1>1, Place
<1>3. PICK n \in 1 .. MaxConns :
          /\ <<role[w], Current(w), seen[w], n>> \in idle
          /\ idle' = idle \ {<<role[w], Current(w), seen[w], n>>}
          /\ held' = [held EXCEPT ![w] = @ \cup {<<role[w], Current(w), seen[w], n>>}]
  BY DEF Begin
<1> DEFINE c == <<role[w], Current(w), seen[w], n>>
<1>4. /\ todo' = [todo EXCEPT ![w] = Tail(@)]
      /\ role' = [role EXCEPT ![w] = RoleFor(Head(plan[w]).type)]
      /\ seen' = [seen EXCEPT ![w] = 0]
      /\ pc' = [pc EXCEPT ![w] = IF Len(todo[w]) = 1 THEN "working" ELSE "testing"]
      /\ UNCHANGED <<plan, turn, leaked, panicked>>
  BY DEF Begin, GoTo
<1>5. /\ todo'[w] = Tail(todo[w]) /\ role'[w] = RoleFor(Head(plan[w]).type) /\ seen'[w] = 0
      /\ pc'[w] = IF Len(todo[w]) = 1 THEN "working" ELSE "testing"
      /\ held'[w] = held[w] \cup {c}
  BY <1>3, <1>4 DEF PoolInv, PoolTypeOK
<1>6. /\ pc' = [pc EXCEPT ![w] = pc'[w]] /\ plan' = [plan EXCEPT ![w] = plan'[w]]
      /\ todo' = [todo EXCEPT ![w] = todo'[w]] /\ role' = [role EXCEPT ![w] = role'[w]]
      /\ seen' = [seen EXCEPT ![w] = seen'[w]] /\ held' = [held EXCEPT ![w] = held'[w]]
  BY <1>3, <1>4, <1>5 DEF PoolInv, PoolTypeOK
<1>7. /\ todo'[w] \in Seq(Pools) /\ pc'[w] \in {"working", "testing"} /\ role'[w] \in Roles
      /\ held'[w] \subseteq Connections /\ idle' \subseteq Connections
      /\ leaked' \subseteq Connections /\ panicked' \in BOOLEAN
      /\ turn' \in [Roles -> [Pools -> Nat]]
      /\ \A x \in Roles, q \in Pools : turn'[x][q] <= Size(x, q)
  <2>1. todo'[w] \in Seq(Pools)
    BY <1>2, <1>5, PoolListFacts, HeadTailProperties
  <2> QED
    BY <1>3, <1>4, <1>5, <2>1 DEF PoolInv, PoolTypeOK, RoleFor, Roles
<1>8. pc'[w] = "testing" => held[w] = {} /\ todo'[w] = <<Stocks>> /\ Current(w) \in Shards
  <2> SUFFICES ASSUME pc'[w] = "testing" PROVE held[w] = {} /\ todo'[w] = <<Stocks>> /\ Current(w) \in Shards
    OBVIOUS
  <2>1. Len(todo[w]) # 1
    BY <1>5
  <2>2. todo[w] # <<Stocks>>
    BY <2>1
  <2> QED
    BY <1>1, <1>2, <1>5, <2>1, <2>2, PoolListFacts DEF PoolInv, PlaceOK, Current
<1>9. PlaceOK(w)'
  BY <1>5, <1>7, <1>8 DEF PlaceOK, Dealing
<1>10. PlanOK(w)'
  BY <1>1, <1>4, <1>7 DEF PoolInv, PlanOK
<1>11. PoolTypeOK' /\ \A v \in Workers : PlanOK(v)' /\ PlaceOK(v)'
  <2>1. pc'[w] \in PcValues /\ seen'[w] \in Nat /\ pc'[w] # "dealing"
    BY <1>5, <1>7 DEF PcValues
  <2> QED
    BY <1>6, <1>7, <1>9, <1>10, <2>1, LocalStep
<1>12. ConnectionsAccounted'
  <2>1. c \in idle /\ idle' = idle \ {c} /\ leaked' = leaked
    BY <1>3, <1>4
  <2>2. held' = [held EXCEPT ![w] = held[w] \cup {c}]
    BY <1>3
  <2>3. idle \cap leaked = {} /\ held[w] \cap (idle \cup leaked) = {}
    BY DEF PoolInv, ConnectionsAccounted
  <2> HIDE DEF c
  <2>4. /\ (held[w] \cup {c}) \cup idle' \cup leaked' = held[w] \cup idle \cup leaked
        /\ idle' \cap leaked' = {} /\ (held[w] \cup {c}) \cap (idle' \cup leaked') = {}
    BY <2>1, <2>3
  <2>5. pc'[w] # "idle"
    BY <1>7
  <2> QED
    BY <1>6, <2>2, <2>4, <2>5, MovedConnections
<1> QED
  BY <1>11, <1>12 DEF PoolInv

\* What was begun before is lost, and only that.
LEMMA BeginFailsStep == ASSUME PoolInv, NEW w \in Workers, BeginFails(w) PROVE PoolInv'
<1>1. /\ leaked' = leaked \cup held[w] /\ held' = [held EXCEPT ![w] = {}]
      /\ seen' = [seen EXCEPT ![w] = 0] /\ Finish(w) /\ UNCHANGED <<turn, idle, panicked>>
  BY DEF BeginFails
<1>2. /\ seen'[w] = 0 /\ held'[w] = {} /\ idle' \subseteq Connections
      /\ leaked' \subseteq Connections /\ seen' = [seen EXCEPT ![w] = seen'[w]]
      /\ seen'[w] \in Nat /\ turn' = turn /\ panicked' = panicked
  BY <1>1 DEF PoolInv, PoolTypeOK
<1>3. /\ PoolTypeOK' /\ \A v \in Workers : PlanOK(v)' /\ PlaceOK(v)'
      /\ pc' = [pc EXCEPT ![w] = "idle"]
  <2>1. Finish(w) /\ held' = [held EXCEPT ![w] = {}]
    BY <1>1
  <2> QED
    BY <1>2, <2>1, FinishOK
<1>4. ConnectionsAccounted'
  <2>1. pc' = [pc EXCEPT ![w] = pc'[w]]
    BY <1>3 DEF PoolInv, PoolTypeOK
  <2>2. idle \cap leaked = {} /\ held[w] \cap (idle \cup leaked) = {}
    BY DEF PoolInv, ConnectionsAccounted
  <2>3. /\ {} \cup idle' \cup leaked' = held[w] \cup idle \cup leaked
        /\ idle' \cap leaked' = {} /\ {} \cap (idle' \cup leaked') = {}
    BY <1>1, <2>2
  <2> QED
    BY <1>1, <2>1, <2>3, MovedConnections
<1> QED
  BY <1>3, <1>4 DEF PoolInv

\* What is left of a plan with more than one transaction.
LEMMA RestOfPlan ==
    ASSUME NEW ts \in Seq(Transactions), Len(ts) > 1
    PROVE  Tail(ts) \in Seq(Transactions) /\ Tail(ts) # <<>>
<1>1. ts # <<>>
  BY EmptySeq
<1>2. Tail(ts) \in Seq(Transactions) /\ Len(Tail(ts)) = Len(ts) - 1
  BY <1>1, HeadTailProperties
<1>3. Len(Tail(ts)) # 0
  BY <1>2, LenProperties
<1>4. Tail(ts) = <<>> => Len(Tail(ts)) = 0
  BY EmptySeq
<1> QED
  BY <1>2, <1>3, <1>4

\* A connection goes back; with the last one the transaction is over.
LEMMA CloseStep == ASSUME PoolInv, NEW w \in Workers, Close(w) PROVE PoolInv'
<1>1. PICK c \in held[w] : idle' = idle \cup {c} /\ held' = [held EXCEPT ![w] = @ \ {c}]
  BY DEF Close
<1>2. /\ pc[w] = "working" /\ UNCHANGED <<seen, turn, leaked, panicked>>
      /\ IF held'[w] # {} THEN UNCHANGED <<pc, plan, todo, role>> ELSE GoOn(w)
  BY DEF Close
<1>3. /\ held'[w] = held[w] \ {c} /\ held \in [Workers -> SUBSET Connections]
      /\ idle' \subseteq Connections /\ leaked' \subseteq Connections
      /\ seen' = [seen EXCEPT ![w] = seen'[w]] /\ seen'[w] \in Nat
  BY <1>1, <1>2 DEF PoolInv, PoolTypeOK
<1>4. /\ PoolTypeOK' /\ \A v \in Workers : PlanOK(v)' /\ PlaceOK(v)'
      /\ pc' = [pc EXCEPT ![w] = pc'[w]]
      /\ pc'[w] = "idle" => held'[w] = {}
  <2>1. CASE held'[w] # {}
    <3>1. UNCHANGED <<pc, plan, todo, role>>
      BY <1>2, <2>1
    <3>2. /\ pc' = [pc EXCEPT ![w] = pc'[w]] /\ plan' = [plan EXCEPT ![w] = plan'[w]]
          /\ todo' = [todo EXCEPT ![w] = todo'[w]] /\ role' = [role EXCEPT ![w] = role'[w]]
          /\ held' = [held EXCEPT ![w] = held'[w]] /\ pc'[w] = "working"
      BY <1>1, <1>2, <1>3, <3>1 DEF PoolInv, PoolTypeOK
    <3>3. PlanOK(w)' /\ PlaceOK(w)'
      BY <1>2, <3>1, <3>2 DEF PoolInv, PlanOK, PlaceOK, Dealing
    <3>4. /\ todo'[w] \in Seq(Pools) /\ role'[w] \in Roles /\ pc'[w] \in PcValues
          /\ held'[w] \subseteq Connections /\ panicked' \in BOOLEAN
          /\ turn' \in [Roles -> [Pools -> Nat]]
          /\ \A x \in Roles, q \in Pools : turn'[x][q] <= Size(x, q)
      BY <1>2, <1>3, <3>1, <3>2 DEF PoolInv, PoolTypeOK
    <3>5. PoolTypeOK' /\ \A v \in Workers : PlanOK(v)' /\ PlaceOK(v)'
      BY <1>3, <3>2, <3>3, <3>4, LocalStep
    <3> QED
      BY <3>2, <3>5
  <2>2. CASE held'[w] = {}
    <3>1. GoOn(w) /\ held' = [held EXCEPT ![w] = {}]
      BY <1>1, <1>2, <1>3, <2>2
    <3>2. CASE Len(plan[w]) > 1 /\ StartWith(w, Tail(plan[w]))
      <4>1. plan[w] \in Seq(Transactions) /\ plan[w] # <<>>
        BY <1>2 DEF PoolInv, PlanOK
      <4>2. Len(plan[w]) > 1
        BY <3>2
      <4>4. Tail(plan[w]) \in Seq(Transactions) /\ Tail(plan[w]) # <<>>
        BY <4>1, <4>2, RestOfPlan
      <4>5. /\ PoolTypeOK' /\ \A v \in Workers : PlanOK(v)' /\ PlaceOK(v)'
            /\ pc' = [pc EXCEPT ![w] = "testing"]
        BY <1>2, <1>3, <3>1, <3>2, <4>4, StartWithOK
      <4> QED
        BY <2>2, <4>5 DEF PoolInv, PoolTypeOK
    <3>3. CASE Finish(w)
      <4>1. /\ PoolTypeOK' /\ \A v \in Workers : PlanOK(v)' /\ PlaceOK(v)'
            /\ pc' = [pc EXCEPT ![w] = "idle"]
        BY <1>2, <1>3, <3>1, <3>3, FinishOK
      <4> QED
        BY <2>2, <4>1 DEF PoolInv, PoolTypeOK
    <3> QED
      BY <3>1, <3>2, <3>3 DEF GoOn
  <2> QED
    BY <2>1, <2>2
<1>5. ConnectionsAccounted'
  <2>1. idle \cap leaked = {} /\ held[w] \cap (idle \cup leaked) = {}
    BY DEF PoolInv, ConnectionsAccounted
  <2>2. /\ (held[w] \ {c}) \cup idle' \cup leaked' = held[w] \cup idle \cup leaked
        /\ idle' \cap leaked' = {} /\ (held[w] \ {c}) \cap (idle' \cup leaked') = {}
    BY <1>1, <1>2, <2>1
  <2>3. held' = [held EXCEPT ![w] = held[w] \ {c}]
    BY <1>1
  <2> QED
    BY <1>3, <1>4, <2>2, <2>3, MovedConnections
<1> QED
  BY <1>4, <1>5 DEF PoolInv

\* Whatever a worker does keeps the invariant of the pools.
LEMMA WorkerStepInv ==
    ASSUME PoolInv, NEW w \in Workers, WorkerStep(w) \/ BeginFails(w)
    PROVE  PoolInv'
  BY TestStep, DealStep, BeginStep, BeginFailsStep, CloseStep DEF WorkerStep

\* The tasks of the process leave the pools alone.
LEMMA PoolUnchanged == ASSUME PoolInv, UNCHANGED poolVars PROVE PoolInv'
<1>1. UNCHANGED <<pc, plan, todo, role, seen, held, turn, idle, leaked, panicked>>
  BY DEF poolVars
<1>2. PoolTypeOK' /\ ConnectionsAccounted'
  BY <1>1 DEF PoolInv, PoolTypeOK, ConnectionsAccounted, Current
<1>3. \A v \in Workers : PlanOK(v)' /\ PlaceOK(v)'
  BY <1>1 DEF PoolInv, PlanOK, PlaceOK, Current
<1> QED
  BY <1>2, <1>3 DEF PoolInv
-----------------------------------------------------------------------------
\* A worker moves itself only, and an idle one does not.
LEMMA OwnStep ==
    ASSUME PoolInv, NEW w \in Workers, WorkerStep(w) \/ BeginFails(w)
    PROVE  pc[w] # "idle" /\ \A v \in Workers \ {w} : pc'[v] = pc[v]
<1>1. CASE Test(w)
  BY <1>1 DEF Test, GoTo, PoolInv, PoolTypeOK
<1>2. CASE Deal(w)
  BY <1>2 DEF Deal, GoTo, PoolInv, PoolTypeOK
<1>3. CASE Begin(w)
  BY <1>3 DEF Begin, GoTo, PoolInv, PoolTypeOK
<1>4. CASE Close(w)
  BY <1>4 DEF Close, GoOn, StartWith, Finish, GoTo, PoolInv, PoolTypeOK
<1>5. CASE BeginFails(w)
  BY <1>5 DEF BeginFails, Finish, GoTo, PoolInv, PoolTypeOK
<1> QED
  BY <1>1, <1>2, <1>3, <1>4, <1>5 DEF WorkerStep

\* Handlers are idle before the gRPC server serves, and after it has ended.
LEMMA WorkInv ==
    ASSUME Inv, NEW w \in Workers, WorkerStep(w) \/ BeginFails(w), UNCHANGED serverVars
    PROVE  Inv'
<1>1. PoolInv'
  BY WorkerStepInv DEF Inv
<1>2. ServerTypeOK'
  BY DEF Inv, ServerTypeOK, serverVars
<1>3. pc[w] # "idle" /\ \A v \in Workers \ {w} : pc'[v] = pc[v]
  BY OwnStep DEF Inv
<1>4. StopInv'
  BY <1>3 DEF Inv, StopInv, serverVars, Handlers
<1> QED
  BY <1>1, <1>2, <1>4 DEF Inv

LEMMA ReceiveInv == ASSUME Inv, NEW w \in Handlers, Receive(w) PROVE Inv'
<1>1. PICK ts \in Requests : StartRequest(w, ts)
  BY DEF Receive
<1>2. PoolInv'
  BY <1>1, StartRequestStep DEF Inv, Handlers
<1>3. ServerTypeOK' /\ StopInv'
  BY DEF Inv, Receive, ServerTypeOK, StopInv, serverVars
<1> QED
  BY <1>2, <1>3 DEF Inv

LEMMA TickInv == ASSUME Inv, Tick PROVE Inv'
<1>1. StartRequest(Sender, SendEvents) /\ UNCHANGED serverVars
  BY DEF Tick
<1>2. PoolInv'
  BY <1>1, StartRequestStep, SenderAssumption DEF Inv
<1>3. \A v \in Handlers : pc'[v] = pc[v]
  BY <1>1 DEF StartRequest, StartWith, GoTo, Handlers, Inv, PoolInv, PoolTypeOK
<1>4. ServerTypeOK' /\ StopInv'
  BY <1>1, <1>3 DEF Inv, ServerTypeOK, StopInv, serverVars
<1> QED
  BY <1>2, <1>4 DEF Inv

\* The tasks of the process: no one but the stopper and the gRPC server itself
\* ends the gRPC server.
LEMMA TaskInv ==
    ASSUME Inv, Lifecycle \/ DialOther \/ Interrupt \/ SenderEnds
    PROVE  Inv'
<1>1. ASSUME UNCHANGED poolVars, ServerTypeOK', StopInv' PROVE Inv'
  BY <1>1, PoolUnchanged DEF Inv
<1> USE DEF Inv, ServerTypeOK, StopInv
<1>2. CASE Listen
  BY <1>1, <1>2 DEF Listen, poolVars
<1>3. CASE ListenFails
  BY <1>1, <1>3 DEF ListenFails, poolVars
<1>4. CASE DialOwn
  BY <1>1, <1>4 DEF DialOwn, Dialed, poolVars
<1>5. CASE DialOther
  BY <1>1, <1>5 DEF DialOther, Dialed, poolVars
<1>6. CASE GatewayStarts
  BY <1>1, <1>6 DEF GatewayStarts, poolVars
<1>7. CASE GatewayFails
  BY <1>1, <1>7 DEF GatewayFails, poolVars
<1>8. CASE GatewayEnds
  BY <1>1, <1>8 DEF GatewayEnds, poolVars
<1>9. CASE StopGrpc
  BY <1>1, <1>9 DEF StopGrpc, poolVars
<1>10. CASE GrpcEnds
  BY <1>1, <1>10 DEF GrpcEnds, poolVars
<1>11. CASE StopGateway
  BY <1>1, <1>11 DEF StopGateway, poolVars
<1>12. CASE StopTimesOut
  BY <1>1, <1>12 DEF StopTimesOut, poolVars
<1>13. CASE Exit
  BY <1>1, <1>13 DEF Exit, poolVars
<1>14. CASE Interrupt
  BY <1>1, <1>14 DEF Interrupt, poolVars
<1>15. CASE SenderEnds
  BY <1>1, <1>15 DEF SenderEnds, poolVars
<1> QED
  BY <1>2, <1>3, <1>4, <1>5, <1>6, <1>7, <1>8, <1>9, <1>10, <1>11, <1>12, <1>13,
     <1>14, <1>15 DEF Lifecycle

LEMMA NextInv == ASSUME Inv, [Next]_vars PROVE Inv'
<1>1. CASE Lifecycle \/ DialOther \/ Interrupt \/ SenderEnds
  BY <1>1, TaskInv
<1>2. CASE Tick
  BY <1>2, TickInv
<1>3. CASE \E w \in Handlers : Receive(w)
  BY <1>3, ReceiveInv
<1>4. CASE \E w \in Workers : Work(w) \/ WorkFails(w)
  BY <1>4, WorkInv DEF Work, WorkFails
<1>5. CASE UNCHANGED vars
  BY <1>5, PoolUnchanged DEF vars, serverVars, Inv, ServerTypeOK, StopInv, poolVars
<1> QED
  BY <1>1, <1>2, <1>3, <1>4, <1>5 DEF Next

LEMMA InitInv == Init => Inv
  BY InitPool DEF Init, PoolInit, Inv, ServerTypeOK, StopInv, Handlers

LEMMA InvHolds == Spec => []Inv
<1>1. Inv /\ [Next]_vars => Inv'
  BY NextInv
<1> QED
  BY InitInv, <1>1, PTL DEF Spec
-----------------------------------------------------------------------------
\* The type invariant: indices in range and connections of the pools at every
\* step of any number of workers.
THEOREM ServerTypeCorrect == Spec => []TypeOK
<1>1. Inv => TypeOK
  BY DEF Inv, PoolInv, ServerTypeOK, TypeOK
<1> QED
  BY <1>1, InvHolds, PTL

\* A connection is idle, or held by one transaction, or lost to a later Begin
\* that failed (WithTransaction, WithTransactions): with any number of pools,
\* secondaries, connections and requests.
THEOREM ConnectionsStayAccounted == Spec => []ConnectionsAccounted
<1>1. Inv => ConnectionsAccounted
  BY DEF Inv, PoolInv
<1> QED
  BY <1>1, InvHolds, PTL

\* No set of requests waits for connections only its own members hold.  If one
\* of them waits for the stocks', the others hold shards' connections alone; if
\* none does, none of them holds anything yet.
THEOREM NoRingOfWaits == Spec => []NoDeadlock
<1>1. Inv => NoDeadlock
  <2> SUFFICES ASSUME Inv, NEW blocked \in (SUBSET Workers) \ {{}},
                      \A w \in blocked : pc[w] = "begin",
                      \A w \in blocked : \A c \in Connections :
                          InPgxPool(c, w) => \E v \in blocked : c \in held[v]
               PROVE  FALSE
    BY Zenon DEF NoDeadlock
  <2>1. \A v \in blocked : pc[v] \in Dealing /\ pc[v] = "begin"
    BY DEF Dealing
  <2>2. \A v \in blocked :
           held[v] = {} \/ (todo[v] = <<Stocks>> /\ \A c \in held[v] : c[2] \in Shards)
    BY <2>1 DEF Inv, PoolInv, PlaceOK
  <2>3. ASSUME NEW w \in blocked
        PROVE  /\ <<role[w], Current(w), seen[w], 1>> \in Connections
               /\ InPgxPool(<<role[w], Current(w), seen[w], 1>>, w)
    <3>1. /\ Current(w) \in Pools /\ role[w] \in Roles /\ seen[w] \in Nat
      BY <2>1, Place DEF Inv
    <3>2. seen[w] < Size(role[w], Current(w))
      BY <2>1 DEF Inv, PoolInv, PlaceOK
    <3>3. 1 \in 1 .. MaxConns
      BY MaxConnsAssumption
    <3> QED
      BY <3>1, <3>2, <3>3, ConnectionFacts DEF InPgxPool
  <2>4. CASE \E w \in blocked : todo[w] = <<Stocks>>
    <3>1. PICK w \in blocked : todo[w] = <<Stocks>>
      BY <2>4
    <3>2. Current(w) = Stocks
      BY <3>1 DEF Current
    <3>3. PICK v \in blocked : <<role[w], Stocks, seen[w], 1>> \in held[v]
      BY <2>3, <3>2
    <3>4. Stocks \in Shards
      BY <2>2, <3>3
    <3> QED
      BY <3>4, ShardPoolsAssumption
  <2>5. CASE \A w \in blocked : todo[w] # <<Stocks>>
    <3>1. \A v \in blocked : held[v] = {}
      BY <2>2, <2>5
    <3>2. PICK w \in blocked : TRUE
      OBVIOUS
    <3>3. \E v \in blocked : <<role[w], Current(w), seen[w], 1>> \in held[v]
      BY <2>3
    <3> QED
      BY <3>1, <3>3
  <2> QED
    BY <2>4, <2>5
<1> QED
  BY <1>1, InvHolds, PTL

\* GracefulStop in time: no client's request is cut short by the exit of main.
THEOREM StopIsGraceful == Spec => []StopCutsNoRequest
<1>1. Inv => StopCutsNoRequest
  BY DEF Inv, StopInv, StopCutsNoRequest
<1> QED
  BY <1>1, InvHolds, PTL

\* getWriter and getReader run past the end of a pool only if another request
\* has moved the index between the test and the use.
THEOREM PanicNeedsRace == Spec => PanicsNeedARace
<1>1. ASSUME Inv, [Next]_vars, panicked', ~ panicked
      PROVE  \E w \in Workers : pc[w] = "dealing" /\ turn[role[w]][Current(w)] # seen[w]
  <2>1. ASSUME NEW w \in Workers, Deal(w)
        PROVE  pc[w] = "dealing" /\ turn[role[w]][Current(w)] # seen[w]
    <3>1. pc[w] = "dealing" /\ seen[w] < Size(role[w], Current(w))
      BY <1>1, <2>1 DEF Deal, Inv, PoolInv, PoolTypeOK
    <3>2. PICK i \in {seen[w], turn[role[w]][Current(w)]} : ~ (i < Size(role[w], Current(w)))
      BY <1>1, <2>1 DEF Deal
    <3> QED
      BY <3>1, <3>2
  <2>2. ASSUME NEW w \in Workers, Test(w) \/ Begin(w) \/ Close(w) \/ BeginFails(w)
        PROVE  UNCHANGED panicked
    BY <2>2 DEF Test, Begin, Close, BeginFails
  <2>3. CASE \E w \in Workers : Work(w) \/ WorkFails(w)
    BY <1>1, <2>1, <2>2, <2>3 DEF Work, WorkFails, WorkerStep
  <2>4. CASE Lifecycle \/ DialOther \/ Interrupt \/ SenderEnds
    BY <1>1, <2>4 DEF Lifecycle, DialOther, Interrupt, SenderEnds, Listen, ListenFails,
       DialOwn, Dialed, GatewayStarts, GatewayFails, GatewayEnds, StopGrpc, GrpcEnds,
       StopGateway, StopTimesOut, Exit, poolVars
  <2>5. CASE Tick \/ \E w \in Handlers : Receive(w)
    BY <1>1, <2>5 DEF Tick, Receive, StartRequest
  <2>6. CASE UNCHANGED vars
    BY <1>1, <2>6 DEF vars, poolVars
  <2> QED
    BY <1>1, <2>3, <2>4, <2>5, <2>6 DEF Next
<1>2. Inv /\ [Next]_vars =>
          [panicked' /\ ~ panicked =>
               \E w \in Workers : pc[w] = "dealing" /\ turn[role[w]][Current(w)] # seen[w]]_poolVars
  BY <1>1
<1> QED
  BY <1>2, InvHolds, PTL DEF Spec, PanicsNeedARace
=============================================================================
