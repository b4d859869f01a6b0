-------------------------------- MODULE DbPool --------------------------------
(***************************************************************************)
(* Connections to the databases of LOMS (infra/db).  A Pool deals its      *)
(* callers the pgxpools of its primary and of its secondaries in turn, by  *)
(* an index that no lock protects: a request tests it, and perhaps resets  *)
(* it, in one step, and uses and increments it in another.  A pgxpool has  *)
(* MaxConns connections, and Begin waits for one.  WithTransaction holds   *)
(* one, WithTransactions one for each of its pools, begun in order; a      *)
(* request of the service is the list of its transactions.                 *)
(***************************************************************************)
EXTENDS Integers, Sequences

CONSTANTS
    Workers,       \* goroutines that use the pools
    ShardPools,    \* the pools of the shards, in order
    Secondaries,   \* pool -> how many secondaries it has
    MaxConns       \* connections of a pgxpool

Stocks == "stocks"
Shards == {ShardPools[i] : i \in DOMAIN ShardPools}
Pools == Shards \cup {Stocks}

ASSUME ShardPoolsAssumption == ShardPools \in Seq(STRING) \ {<<>>} /\ Stocks \notin Shards
ASSUME SecondariesAssumption == Secondaries \in [Pools -> Nat]
ASSUME MaxConnsAssumption == MaxConns \in Nat \ {0}

VARIABLES
    pc,         \* worker -> its next step
    plan,       \* worker -> transactions of its request, the current one first
    todo,       \* worker -> pools the current one has yet to begin in
    role,       \* worker -> whose turn Get takes, "writer" or "reader"
    seen,       \* worker -> the index it has read
    held,       \* worker -> connections its open transactions have
    turn,       \* role, pool -> currentWriterIdx, currentReaderIdx
    idle,       \* connections in their pgxpools
    leaked,     \* history: connections lost in transactions nobody ends
    panicked    \* an index out of range has ended the process

poolVars ==
    <<pc, plan, todo, role, seen, held, turn, idle, leaked, panicked>>

Roles == {"writer", "reader"}

\* A pool has one primary (NewPools, NewLomsGrpcServer).
Size(r, p) == IF r = "writer" THEN 1 ELSE Secondaries[p]

\* The n-th connection of a pool's i-th pgxpool of a role.
Connections ==
    UNION {{<<r, p, i, n>> : i \in 0 .. Size(r, p) - 1, n \in 1 .. MaxConns} :
               r \in Roles, p \in Pools}

PcValues == {"idle", "testing", "dealing", "begin", "working"}

Transaction(pools, type) == [pools |-> pools, type |-> type]

CreateOrder(s) == <<Transaction(<<s, Stocks>>, "WriteOrRead")>>
PayOrder(s) == <<Transaction(<<s, Stocks>>, "WriteOrRead")>>

\* Mutant: the goods first.
CancelStocksFirst(s) == <<Transaction(<<Stocks, s>>, "WriteOrRead")>>

CancelOrder(s) == <<Transaction(<<s, Stocks>>, "WriteOrRead")>>
GetOrder(s) == <<Transaction(<<s>>, "ReadOnly")>>
GetAvailableStocks == <<Transaction(<<Stocks>>, "ReadOnly")>>

\* One transaction after the other, in the shard of every order asked for.
GetOrders(shards) == [i \in DOMAIN shards |-> Transaction(<<shards[i]>>, "ReadOnly")]

\* A turn of the sender.
SendEvents == [i \in DOMAIN ShardPools |-> Transaction(<<ShardPools[i]>>, "WriteOrRead")]

Requests ==
    {GetAvailableStocks}
        \cup (UNION {{CreateOrder(s), PayOrder(s), CancelOrder(s), GetOrder(s)} : s \in Shards})
        \cup {GetOrders(<<s, t>>) : s, t \in Shards}

PoolInit ==
    /\ pc = [w \in Workers |-> "idle"]
    /\ plan = [w \in Workers |-> <<>>]
    /\ todo = [w \in Workers |-> <<>>]
    /\ role = [w \in Workers |-> "writer"]
    /\ seen = [w \in Workers |-> 0]
    /\ held = [w \in Workers |-> {}]
    /\ turn = [r \in Roles |-> [p \in Pools |-> 0]]
    /\ idle = Connections
    /\ leaked = {}
    /\ panicked = FALSE

GoTo(w, state) == pc' = [pc EXCEPT ![w] = state]
Current(w) == Head(todo[w])     \* the pool a worker is at

RoleFor(type) == IF type = "WriteOrRead" THEN "writer" ELSE "reader"

\* The first Get of the first of some transactions.
StartWith(w, transactions) ==
    /\ plan' = [plan EXCEPT ![w] = transactions]
    /\ todo' = [todo EXCEPT ![w] = Head(transactions).pools]
    /\ role' = [role EXCEPT ![w] = RoleFor(Head(transactions).type)]
    /\ GoTo(w, "testing")

\* The request is over; what is left in the worker's variables is forgotten.
Finish(w) ==
    /\ plan' = [plan EXCEPT ![w] = <<>>]
    /\ todo' = [todo EXCEPT ![w] = <<>>]
    /\ role' = [role EXCEPT ![w] = "writer"]
    /\ GoTo(w, "idle")

StartRequest(w, transactions) ==
    /\ pc[w] = "idle"
    /\ StartWith(w, transactions)
    /\ UNCHANGED <<seen, held, turn, idle, leaked, panicked>>

\* Mutant: the end is found one too late.
TestLate(w) ==
    LET r == role[w]
        p == Current(w)
        atEnd == turn[r][p] = Size(r, p) + 1 IN
    /\ pc[w] = "testing"
    /\ turn' = IF atEnd THEN [turn EXCEPT ![r][p] = 0] ELSE turn
    /\ IF atEnd /\ r = "reader"
       THEN role' = [role EXCEPT ![w] = "writer"] /\ UNCHANGED <<pc, seen>>
       ELSE seen' = [seen EXCEPT ![w] = turn'[r][p]] /\ GoTo(w, "dealing") /\ UNCHANGED role
    /\ UNCHANGED <<plan, todo, held, idle, leaked, panicked>>

\* Mutant: a writer at the end does not start over.
TestReader(w) ==
    LET r == role[w]
        p == Current(w) IN
    /\ pc[w] = "testing"
    /\ IF turn[r][p] = Size(r, p) /\ r = "reader"
       THEN /\ turn' = [turn EXCEPT ![r][p] = 0]
            /\ role' = [role EXCEPT ![w] = "writer"]
            /\ UNCHANGED <<pc, seen>>
       ELSE /\ seen' = [seen EXCEPT ![w] = turn[r][p]]
            /\ GoTo(w, "dealing")
            /\ UNCHANGED <<turn, role>>
    /\ UNCHANGED <<plan, todo, held, idle, leaked, panicked>>

\* At the end of the connections back to the first; a reader at the end of the
\* secondaries takes its turn among the writers, whose index it tests next.
Test(w) ==
    LET r == role[w]
        p == Current(w)
        atEnd == turn[r][p] = Size(r, p) IN
    /\ pc[w] = "testing"
    /\ turn' = IF atEnd THEN [turn EXCEPT ![r][p] = 0] ELSE turn
    /\ IF atEnd /\ r = "reader"
       THEN role' = [role EXCEPT ![w] = "writer"] /\ UNCHANGED <<pc, seen>>
       ELSE seen' = [seen EXCEPT ![w] = turn'[r][p]] /\ GoTo(w, "dealing") /\ UNCHANGED role
    /\ UNCHANGED <<plan, todo, held, idle, leaked, panicked>>

\* The index is a plain variable: its use after the test may read it again or
\* keep the value read before, as the compiler sees fit.
Deal(w) ==
    LET r == role[w]
        p == Current(w) IN
    /\ pc[w] = "dealing"
    /\ \E i \in {seen[w], turn[r][p]} :
          IF i < Size(r, p)
          THEN /\ seen' = [seen EXCEPT ![w] = i]
               /\ turn' = [turn EXCEPT ![r][p] = i + 1]
               /\ GoTo(w, "begin")
               /\ UNCHANGED panicked
          ELSE /\ panicked' = TRUE
               /\ UNCHANGED <<seen, turn, pc>>
    /\ UNCHANGED <<plan, todo, role, held, idle, leaked>>

\* Begin has a connection; the next pool, or fn.
Begin(w) ==
    /\ pc[w] = "begin"
    /\ \E n \in 1 .. MaxConns :
          LET c == <<role[w], Current(w), seen[w], n>> IN
          /\ c \in idle
          /\ idle' = idle \ {c}
          /\ held' = [held EXCEPT ![w] = @ \cup {c}]
    /\ todo' = [todo EXCEPT ![w] = Tail(@)]
    /\ role' = [role EXCEPT ![w] = RoleFor(Head(plan[w]).type)]
    /\ seen' = [seen EXCEPT ![w] = 0]
    /\ GoTo(w, IF Len(todo[w]) = 1 THEN "working" ELSE "testing")
    /\ UNCHANGED <<plan, turn, leaked, panicked>>

\* Begin fails: no database, or a context that is done while it waits.  The
\* transactions begun before are neither committed nor rolled back.
BeginFails(w) ==
    /\ pc[w] = "begin"
    /\ leaked' = leaked \cup held[w]
    /\ held' = [held EXCEPT ![w] = {}]
    /\ seen' = [seen EXCEPT ![w] = 0]
    /\ Finish(w)
    /\ UNCHANGED <<turn, idle, panicked>>

\* The last transaction is over: the request goes on if fn was content, and
\* ends if it was not or if this was all.
GoOn(w) ==
    \/ Len(plan[w]) > 1 /\ StartWith(w, Tail(plan[w]))
    \/ Finish(w)

\* Mutant: only one of the transactions is committed or rolled back.
CloseOne(w) ==
    /\ pc[w] = "working"
    /\ \E c \in held[w] : idle' = idle \cup {c}
    /\ held' = [held EXCEPT ![w] = {}]
    /\ GoOn(w)
    /\ UNCHANGED <<seen, turn, leaked, panicked>>

\* fn has returned.  Commit or Rollback, one transaction after the other, in
\* an order that does not matter here: whatever comes of it, the connection
\* goes back to its pgxpool.
Close(w) ==
    /\ pc[w] = "working"
    /\ \E c \in held[w] :
          /\ idle' = idle \cup {c}
          /\ held' = [held EXCEPT ![w] = @ \ {c}]
    /\ IF held'[w] # {} THEN UNCHANGED <<pc, plan, todo, role>> ELSE GoOn(w)
    /\ UNCHANGED <<seen, turn, leaked, panicked>>

WorkerStep(w) == Test(w) \/ Deal(w) \/ Begin(w) \/ Close(w)
-----------------------------------------------------------------------------
PoolTypeOK ==
    /\ pc \in [Workers -> PcValues]
    /\ plan \in [Workers -> Seq([pools : Seq(Pools), type : {"WriteOrRead", "ReadOnly"}])]
    /\ todo \in [Workers -> Seq(Pools)]
    /\ role \in [Workers -> Roles]
    /\ seen \in [Workers -> Nat]
    /\ held \in [Workers -> SUBSET Connections]
    /\ turn \in [Roles -> [Pools -> Nat]]
    /\ \A r \in Roles, p \in Pools : turn[r][p] <= Size(r, p)
    /\ \A w \in Workers : pc[w] = "dealing" => seen[w] < Size(role[w], Current(w))
    /\ idle \subseteq Connections
    /\ leaked \subseteq Connections
    /\ panicked \in BOOLEAN

\* A connection is in its pgxpool, or serves one transaction, or was lost when
\* a later Begin of the same request failed: no other path, with its commits,
\* its rollbacks and its loops, loses one or gives it to two.
ConnectionsAccounted ==
    /\ Connections = idle \cup leaked \cup UNION {held[w] : w \in Workers}
    /\ idle \cap leaked = {}
    /\ \A w \in Workers :
          /\ held[w] \cap (idle \cup leaked) = {}
          /\ pc[w] = "idle" => held[w] = {}
          /\ \A v \in Workers \ {w} : held[w] \cap held[v] = {}

\* No requests wait for connections that only they themselves hold: all take
\* the shard's before the stocks'.
InPgxPool(c, w) == c[1] = role[w] /\ c[2] = Current(w) /\ c[3] = seen[w]

NoDeadlock ==
    \A blocked \in (SUBSET Workers) \ {{}} :
        \E w \in blocked :
            pc[w] = "begin" =>
                \E c \in Connections :
                    InPgxPool(c, w) /\ \A v \in blocked : c \notin held[v]

\* The dealing in turn never runs past the end of a pool by itself: the process
\* panics only if another request has moved the index since this one tested it.
PanicsNeedARace ==
    [][panicked' /\ ~ panicked =>
           \E w \in Workers : pc[w] = "dealing" /\ turn[role[w]][Current(w)] # seen[w]]_poolVars
=============================================================================
