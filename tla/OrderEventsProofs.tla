-------------------------- MODULE OrderEventsProofs -------------------------
(***************************************************************************)
(* What holds of every order event on its way from the outbox to the       *)
(* notifier's log, for any databases, orders, partitions and faults.       *)
(***************************************************************************)
EXTENDS OrderEvents, FiniteSetTheorems, SequenceTheorems, TLAPS

AllEvents == UNION {Events(db) : db \in Dbs}

\* The sender's transaction has read its batch.
Busy == {"send", "mark", "commit"}

SenderRow ==
    [pc : {"wait", "retrieve"} \cup Busy, pool : DOMAIN Pools, items : Seq(AllEvents),
     i : Nat, marked : SUBSET AllEvents, nextPartition : Partitions]

\* Finitely many rows, and an order's first row is "new".
TableOK(db) ==
    LET rows == DOMAIN outbox[db] IN
    /\ rows \subseteq Events(db)
    /\ IsFiniteSet(rows)
    /\ \A e \in rows : outbox[db][e] \in {"awaiting", "completed"}
    /\ \A e \in rows : <<e[1], New>> \in rows

\* The batch holds rows that await sending, each once; the marks go over it
\* from the first to the last.
BatchOK ==
    LET s == sender
        rows == outbox[SenderDb]
    IN
    /\ s.pc \notin Busy => s.items = <<>> /\ s.marked = {} /\ s.i = 1
    /\ s.pc = "mark" => s.i \in DOMAIN s.items
    /\ s.pc = "send" => s.i = 1 /\ s.items # <<>>
    /\ s.pc = "commit" => s.i = Len(s.items) + 1
    /\ \A j \in DOMAIN s.items : s.items[j] \in DOMAIN rows /\ rows[s.items[j]] = "awaiting"
    /\ \A j, k \in DOMAIN s.items : s.items[j] = s.items[k] => j = k
    /\ s.marked \subseteq DOMAIN rows
    /\ \A e \in s.marked : \E j \in DOMAIN s.items : s.items[j][1] = e[1]
    /\ s.pc \in Busy => \A j \in DOMAIN s.items : j < s.i => s.items[j] \in s.marked

\* The offsets lie in the partition.
ClaimOK(p) ==
    /\ position[p] <= Len(topic[p])
    /\ committed[p] <= Len(topic[p])

EventsType ==
    /\ outbox = [db \in Dbs |-> outbox[db]]
    /\ sender \in SenderRow
    /\ topic \in [Partitions -> Seq(AllEvents)]
    /\ faults \in 0 .. MaxFaults
    /\ position \in [Partitions -> Nat]
    /\ committed \in [Partitions -> Nat]
    /\ log \in Seq(AllEvents)

EventsInv ==
    /\ EventsType
    /\ \A db \in Dbs : TableOK(db)
    /\ BatchOK
    /\ \A p \in Partitions : ClaimOK(p)

\* While the orders of the database are quiet, all that a mark can hit has been
\* sent.
QuietOK ==
    /\ sender.pc \in Busy =>
         \A e \in DOMAIN outbox[SenderDb] : \A j \in DOMAIN sender.items :
             sender.items[j][1] = e[1] /\ outbox[SenderDb][e] = "awaiting" =>
                 e \in ToSet(sender.items)
    /\ sender.pc \in {"mark", "commit"} => ToSet(sender.items) \subseteq Sent

QuietInv == EventsInv /\ QuietOK /\ CompletedWasSent

\* What a claim has handed over, or Kafka has an offset for, is in the log.
LoggedInv ==
    /\ EventsInv
    /\ \A p \in Partitions : \A k \in 1 .. Len(topic[p]) :
         k <= position[p] \/ k <= committed[p] => topic[p][k] \in ToSet(log)

\* While nothing fails: no event is in the topic twice, none is there that would
\* be sent again, and none is logged before it is handed over.
OnceOK ==
    /\ \A p, q \in Partitions : \A j \in DOMAIN topic[p] : \A k \in DOMAIN topic[q] :
         topic[p][j] = topic[q][k] => p = q /\ j = k
    /\ \A db \in Dbs : \A e \in DOMAIN outbox[db] :
         e \in Sent =>
            \/ outbox[db][e] = "completed"
            \/ sender.pc \in {"mark", "commit"} /\ e \in ToSet(sender.items)
    /\ Sent \subseteq Rows
    /\ \A j, k \in DOMAIN log : log[j] = log[k] => j = k
    /\ \A k \in DOMAIN log : \E p \in Partitions : \E j \in 1 .. position[p] :
         log[k] = topic[p][j]

OnceInv == EventsInv /\ (faults = 0 => OnceOK)
-----------------------------------------------------------------------------
\* The database the sender visits is one of the list.
LEMMA SenderDbIsDb ==
    ASSUME NEW k \in DOMAIN Pools
    PROVE  Pools[k] \in Dbs
BY DEF Dbs, ToSet

\* A list of all elements of a finite set names each of them once.
LEMMA EachOnce ==
    ASSUME NEW S, IsFiniteSet(S), NEW s \in SetToSeqs(S)
    PROVE  /\ s \in Seq(S)
           /\ DOMAIN s = 1 .. Len(s)
           /\ \A j, k \in DOMAIN s : s[j] = s[k] => j = k
           /\ ToSet(s) = S
<1> DEFINE n == Cardinality(S)
<1>1. n \in Nat
  BY FS_CardinalityType
<1>2. s \in [1 .. n -> S] /\ \A j, k \in 1 .. n : j # k => s[j] # s[k]
  BY DEF SetToSeqs
<1>3. s \in Seq(S) /\ Len(s) = n /\ DOMAIN s = 1 .. n
  BY <1>1, <1>2
<1>4. ASSUME NEW x \in S, \A j \in 1 .. n : s[j] # x PROVE FALSE
  <2>1. IsFiniteSet(S \ {x}) /\ Cardinality(S \ {x}) = n - 1
    BY <1>4, FS_RemoveElement
  <2>2. IsFiniteSet(1 .. n) /\ Cardinality(1 .. n) = n
    BY <1>1, FS_Interval
  <2>3. s \in [1 .. n -> S \ {x}]
    BY <1>2, <1>4
  <2>4. Cardinality(S \ {x}) < Cardinality(1 .. n)
    BY <1>1, <2>1, <2>2
  <2> HIDE DEF n
  <2>5. \E j, k \in 1 .. n : j # k /\ s[j] = s[k]
    BY <2>1, <2>2, <2>3, <2>4, FS_PigeonHole
  <2> QED  BY <1>2, <2>5
<1> HIDE DEF n
<1>5. ToSet(s) = S
  BY <1>2, <1>3, <1>4 DEF ToSet
<1> QED  BY <1>2, <1>3, <1>5

\* What reaches the topic stands behind what was there: each message of the
\* batch that arrived once, in one partition.
LEMMA DealEffect ==
    ASSUME EventsInv, NEW arrived \in SUBSET DOMAIN sender.items, Deal(arrived)
    PROVE  /\ topic' \in [Partitions -> Seq(AllEvents)]
           /\ \A p \in Partitions :
                /\ Len(topic[p]) <= Len(topic'[p])
                /\ \A k \in 1 .. Len(topic[p]) : topic'[p][k] = topic[p][k]
                /\ \A k \in DOMAIN topic'[p] : k > Len(topic[p]) =>
                     \E j \in arrived : topic'[p][k] = sender.items[j]
           /\ \A j \in arrived : \E p \in Partitions : \E k \in DOMAIN topic'[p] :
                topic'[p][k] = sender.items[j]
           /\ \A p, q \in Partitions : \A j \in DOMAIN topic'[p] : \A k \in DOMAIN topic'[q] :
                j > Len(topic[p]) /\ k > Len(topic[q]) /\ topic'[p][j] = topic'[q][k] =>
                    p = q /\ j = k
<1> DEFINE share(p) == {k \in arrived : (sender.nextPartition + k - 1) % NPartitions = p}
           inOrder(p) == {s \in SetToSeqs(share(p)) : \A i, j \in DOMAIN s : i < j => s[i] < s[j]}
<1>1. PICK dealt \in [Partitions -> UNION {inOrder(p) : p \in Partitions}] :
        /\ \A p \in Partitions : dealt[p] \in inOrder(p)
        /\ topic' = [p \in Partitions |->
                       topic[p] \o [j \in DOMAIN dealt[p] |-> sender.items[dealt[p][j]]]]
  BY DEF Deal
<1> DEFINE batch(p) == [j \in DOMAIN dealt[p] |-> sender.items[dealt[p][j]]]
<1>2. /\ sender.items \in Seq(AllEvents) /\ DOMAIN sender.items = 1 .. Len(sender.items)
      /\ Len(sender.items) \in Nat
      /\ \A p \in Partitions : topic[p] \in Seq(AllEvents)
      /\ \A j, k \in DOMAIN sender.items : sender.items[j] = sender.items[k] => j = k
      /\ sender.nextPartition \in Partitions
  BY DEF EventsInv, EventsType, SenderRow, BatchOK
<1>3. IsFiniteSet(arrived)
  <2>1. IsFiniteSet(1 .. Len(sender.items))
    BY <1>2, FS_Interval
  <2> QED  BY <1>2, <2>1, FS_Subset
<1>4. ASSUME NEW p \in Partitions
      PROVE  /\ dealt[p] \in Seq(share(p)) /\ DOMAIN dealt[p] = 1 .. Len(dealt[p])
             /\ \A j, k \in DOMAIN dealt[p] : dealt[p][j] = dealt[p][k] => j = k
             /\ ToSet(dealt[p]) = share(p)
  <2>1. IsFiniteSet(share(p))
    BY <1>3, FS_Subset
  <2>2. dealt[p] \in SetToSeqs(share(p))
    BY <1>1
  <2> HIDE DEF share, inOrder
  <2> QED  BY <2>1, <2>2, EachOnce
<1>5. ASSUME NEW p \in Partitions
      PROVE  /\ batch(p) \in Seq(AllEvents) /\ Len(batch(p)) = Len(dealt[p])
             /\ \A j \in 1 .. Len(dealt[p]) :
                  dealt[p][j] \in share(p) /\ batch(p)[j] = sender.items[dealt[p][j]]
  <2>1. \A j \in 1 .. Len(dealt[p]) : dealt[p][j] \in share(p)
    <3> HIDE DEF share
    <3> QED  BY <1>4
  <2>2. \A j \in 1 .. Len(dealt[p]) : sender.items[dealt[p][j]] \in AllEvents
    BY <1>2, <2>1
  <2>3. Len(dealt[p]) \in Nat /\ DOMAIN dealt[p] = 1 .. Len(dealt[p])
    <3> HIDE DEF share
    <3> QED  BY <1>4
  <2>4. batch(p) \in [1 .. Len(dealt[p]) -> AllEvents]
    BY <2>2, <2>3
  <2>5. batch(p) \in Seq(AllEvents) /\ Len(batch(p)) = Len(dealt[p])
    <3> HIDE DEF batch
    <3> QED  BY <2>3, <2>4
  <2> HIDE DEF share
  <2> QED  BY <2>1, <2>3, <2>5
<1>6. ASSUME NEW p \in Partitions
      PROVE  /\ topic'[p] \in Seq(AllEvents)
             /\ Len(topic'[p]) = Len(topic[p]) + Len(dealt[p])
             /\ \A k \in 1 .. Len(topic[p]) : topic'[p][k] = topic[p][k]
             /\ \A k \in DOMAIN topic'[p] : k > Len(topic[p]) =>
                  /\ k - Len(topic[p]) \in 1 .. Len(dealt[p])
                  /\ topic'[p][k] = sender.items[dealt[p][k - Len(topic[p])]]
  <2>1. topic'[p] = topic[p] \o batch(p) /\ Len(topic[p]) \in Nat /\ Len(dealt[p]) \in Nat
    BY <1>1, <1>2, <1>4
  <2>2. topic[p] \in Seq(AllEvents) /\ batch(p) \in Seq(AllEvents)
    BY <1>2, <1>5
  <2>3. /\ topic'[p] \in Seq(AllEvents)
        /\ Len(topic'[p]) = Len(topic[p]) + Len(dealt[p])
        /\ \A i \in 1 .. Len(topic[p]) + Len(dealt[p]) :
             topic'[p][i] = IF i <= Len(topic[p]) THEN topic[p][i] ELSE batch(p)[i - Len(topic[p])]
    <3>1. Len(batch(p)) = Len(dealt[p])
      BY <1>5
    <3> DEFINE t == topic[p]
               b == batch(p)
    <3>2. t \in Seq(AllEvents) /\ b \in Seq(AllEvents)
      BY <2>2
    <3> HIDE DEF batch, t, b
    <3>3. /\ t \o b \in Seq(AllEvents)
          /\ Len(t \o b) = Len(t) + Len(b)
          /\ \A i \in 1 .. Len(t) + Len(b) : (t \o b)[i] = IF i <= Len(t) THEN t[i] ELSE b[i - Len(t)]
      BY <3>2, ConcatProperties
    <3> QED  BY <2>1, <3>1, <3>3 DEF t, b
  <2>4. DOMAIN topic'[p] = 1 .. (Len(topic[p]) + Len(dealt[p]))
    BY <2>1, <2>3
  <2>5. \A j \in 1 .. Len(dealt[p]) : batch(p)[j] = sender.items[dealt[p][j]]
    BY <1>5
  <2> HIDE DEF batch
  <2>6. ASSUME NEW k \in DOMAIN topic'[p], k > Len(topic[p])
        PROVE  /\ k - Len(topic[p]) \in 1 .. Len(dealt[p])
               /\ topic'[p][k] = sender.items[dealt[p][k - Len(topic[p])]]
    <3> DEFINE m == Len(topic[p])
               n == Len(dealt[p])
    <3>1. m \in Nat /\ n \in Nat /\ k \in 1 .. m + n /\ k > m
      BY <2>1, <2>4, <2>6
    <3>2. topic'[p][k] = IF k <= m THEN topic[p][k] ELSE batch(p)[k - m]
      BY <2>3, <3>1
    <3> HIDE DEF m, n
    <3>3. ~ (k <= m) /\ k - m \in 1 .. n
      BY <3>1
    <3>4. topic'[p][k] = batch(p)[k - m]
      BY <3>2, <3>3
    <3>5. batch(p)[k - m] = sender.items[dealt[p][k - m]]
      BY <2>5, <3>3 DEF n
    <3> QED  BY <3>3, <3>4, <3>5 DEF m, n
  <2>7. \A k \in 1 .. Len(topic[p]) : topic'[p][k] = topic[p][k]
    BY <2>1, <2>3
  <2> QED  BY <2>3, <2>6, <2>7
<1>7. topic' \in [Partitions -> Seq(AllEvents)]
  BY <1>1, <1>6
<1>8. ASSUME NEW p \in Partitions
      PROVE  /\ Len(topic[p]) <= Len(topic'[p])
             /\ \A k \in 1 .. Len(topic[p]) : topic'[p][k] = topic[p][k]
             /\ \A k \in DOMAIN topic'[p] : k > Len(topic[p]) =>
                  \E j \in arrived : topic'[p][k] = sender.items[j]
  <2>1. Len(topic[p]) \in Nat /\ Len(dealt[p]) \in Nat
    BY <1>2, <1>4
  <2>2. \A j \in 1 .. Len(dealt[p]) : dealt[p][j] \in arrived
    BY <1>5
  <2> QED  BY <1>6, <2>1, <2>2
<1>9. ASSUME NEW j \in arrived
      PROVE  \E p \in Partitions : \E k \in DOMAIN topic'[p] : topic'[p][k] = sender.items[j]
  <2> DEFINE p == (sender.nextPartition + j - 1) % NPartitions
  <2>1. p \in Partitions /\ j \in share(p)
    BY <1>2, PartitionsAssumption DEF Partitions
  <2> HIDE DEF p
  <2>2. PICK k \in 1 .. Len(dealt[p]) : dealt[p][k] = j
    <3> HIDE DEF share
    <3>1. ToSet(dealt[p]) = share(p) /\ DOMAIN dealt[p] = 1 .. Len(dealt[p])
      BY <1>4, <2>1
    <3> QED  BY <2>1, <3>1 DEF ToSet
  <2>3. Len(topic[p]) \in Nat /\ Len(dealt[p]) \in Nat
    BY <1>2, <1>4, <2>1
  <2>4. /\ Len(topic[p]) + k \in DOMAIN topic'[p] /\ Len(topic[p]) + k > Len(topic[p])
        /\ Len(topic[p]) + k - Len(topic[p]) = k
    BY <1>6, <2>1, <2>3
  <2> QED  BY <1>6, <2>1, <2>2, <2>4
<1>10. ASSUME NEW p \in Partitions, NEW q \in Partitions,
              NEW j \in DOMAIN topic'[p], NEW k \in DOMAIN topic'[q],
              j > Len(topic[p]), k > Len(topic[q]), topic'[p][j] = topic'[q][k]
       PROVE  p = q /\ j = k
  <2> DEFINE a == j - Len(topic[p])
             b == k - Len(topic[q])
  <2>1. /\ a \in 1 .. Len(dealt[p]) /\ b \in 1 .. Len(dealt[q])
        /\ sender.items[dealt[p][a]] = sender.items[dealt[q][b]]
    BY <1>6, <1>10
  <2>2. dealt[p][a] \in share(p) /\ dealt[q][b] \in share(q)
    BY <1>5, <2>1
  <2>3. dealt[p][a] = dealt[q][b]
    BY <1>2, <2>1, <2>2
  <2>4. p = q
    BY <2>2, <2>3
  <2>5. a = b
    BY <1>4, <2>1, <2>3, <2>4
  <2> QED
    <3>1. j \in Int /\ k \in Int /\ Len(topic[p]) \in Nat
      BY <1>2, <1>6
    <3> QED  BY <2>4, <2>5, <3>1
<1> HIDE DEF share, inOrder, batch
<1> QED  BY <1>7, <1>8, <1>9, <1>10
-----------------------------------------------------------------------------
(* The steps, seen by the invariants.                                      *)

\* Rows that an order's transaction adds: none was there, and while orders are
\* quiet none belongs to an order that the sender's batch may name.
RowsAdded ==
    \E db \in Dbs : \E added \in SUBSET Events(db) :
        /\ IsFiniteSet(added)
        /\ added \cap DOMAIN outbox[db] = {}
        /\ \A e \in added : <<e[1], New>> \in added \cup DOMAIN outbox[db]
        /\ QuietOrders /\ sender.pc \in Busy /\ SenderDb = db =>
             \A e \in added : <<e[1], New>> \notin DOMAIN outbox[db]
        /\ AddEvents(db, added)
        /\ UNCHANGED <<sender, topic, faults, consumerVars>>

\* The sender is between two transactions, or before or after all of them.
Pause ==
    /\ sender' \in SenderRow
    /\ sender'.pc \notin Busy
    /\ sender'.items = <<>> /\ sender'.i = 1 /\ sender'.marked = {}
    /\ faults' \in {faults, faults + 1} \cap 0 .. MaxFaults
    /\ sender.pc \in Busy => faults' = faults + 1
    /\ UNCHANGED <<outbox, topic, consumerVars>>

BatchRead ==
    /\ sender.pc = "retrieve"
    /\ \E items \in SetToSeqs(Scheduled) :
         items # <<>> /\ sender' = [sender EXCEPT !.pc = "send", !.items = items]
    /\ UNCHANGED <<outbox, topic, faults, consumerVars>>

\* A turn leaves the sender without a batch.
LEMMA TurnPauses ==
    ASSUME EventsInv, NEW c \in {"wait", "retrieve"}, NEW k \in DOMAIN Pools,
           NEW n \in Partitions, Turn(c, k, n)
    PROVE  /\ sender' \in SenderRow
           /\ sender'.pc \notin Busy
    /\ sender'.items = <<>> /\ sender'.i = 1 /\ sender'.marked = {}
<1>1. sender' = [pc |-> c, pool |-> k, items |-> <<>>, i |-> 1, marked |-> {},
                 nextPartition |-> n]
  BY DEF Turn, IdleSender
<1>2. <<>> \in Seq(AllEvents) /\ 1 \in Nat /\ c \notin Busy
  BY DEF Busy
<1> QED  BY <1>1, <1>2 DEF SenderRow

\* So does the move to the next pool.
LEMMA NextPoolPauses ==
    ASSUME EventsInv, NextPool
    PROVE  /\ sender' \in SenderRow
           /\ sender'.pc \notin Busy
    /\ sender'.items = <<>> /\ sender'.i = 1 /\ sender'.marked = {}
<1>1. /\ 1 \in DOMAIN Pools
      /\ sender.nextPartition \in Partitions
      /\ sender.pool # Len(Pools) => sender.pool + 1 \in DOMAIN Pools
  BY PoolsAssumption DEF EventsInv, EventsType, SenderRow
<1> QED  BY <1>1, TurnPauses DEF NextPool, Abort

\* Order transactions add rows.
LEMMA OrdersAddRows ==
    ASSUME EventsInv, Orders, UNCHANGED consumerVars
    PROVE  RowsAdded
<1>1. PICK db \in Dbs : \E id \in OrderIds[db] :
        CommitCreate(db, id) \/ \E status \in FinalStatuses : CommitFinal(db, id, status)
  BY DEF Orders
<1>2. PICK id \in OrderIds[db] :
        CommitCreate(db, id) \/ \E status \in FinalStatuses : CommitFinal(db, id, status)
  BY <1>1
<1>3. \A e \in DOMAIN outbox[db] : <<e[1], New>> \in DOMAIN outbox[db]
  BY DEF EventsInv, TableOK
<1>4. CASE CommitCreate(db, id)
  <2> DEFINE added == {<<id, New>>, <<id, Awaiting>>}
  <2>1. added \subseteq Events(db) /\ IsFiniteSet(added)
    <3>1. IsFiniteSet({<<id, New>>})
      BY FS_Singleton
    <3>2. IsFiniteSet({<<id, New>>} \cup {<<id, Awaiting>>})
      BY <3>1, FS_AddElement
    <3>3. added = {<<id, New>>} \cup {<<id, Awaiting>>}
      OBVIOUS
    <3> HIDE DEF added
    <3>4. IsFiniteSet(added)
      BY <3>2, <3>3
    <3> QED  BY <3>4 DEF Events, Statuses, added
  <2>2. <<id, New>> \notin DOMAIN outbox[db] /\ <<id, Awaiting>> \notin DOMAIN outbox[db]
    BY <1>3, <1>4 DEF CommitCreate
  <2>3. \A e \in added : e[1] = id
    OBVIOUS
  <2> QED  BY <1>4, <2>1, <2>2, <2>3 DEF RowsAdded, CommitCreate
<1>5. ASSUME NEW status \in FinalStatuses, CommitFinal(db, id, status) PROVE RowsAdded
  <2> DEFINE added == {<<id, status>>}
  <2>1. IsFiniteSet(added)
    BY FS_Singleton
  <2>2. added \subseteq Events(db)
    BY DEF Events, Statuses
  <2>3. <<id, New>> \in DOMAIN outbox[db]
    BY <1>3, <1>5 DEF CommitFinal
  <2>4. added \cap DOMAIN outbox[db] = {}
    BY <1>5 DEF CommitFinal
  <2>5. ~ (QuietOrders /\ sender.pc \in Busy /\ SenderDb = db)
    BY <1>5, QuietOrdersAssumption DEF CommitFinal, Busy
  <2> QED  BY <1>5, <2>1, <2>3, <2>4, <2>5, <2>2 DEF RowsAdded, CommitFinal
<1> QED  BY <1>2, <1>4, <1>5

\* Every step is one of these.
LEMMA EventsSteps ==
    ASSUME EventsInv, [Next]_vars
    PROVE  \/ UNCHANGED vars
           \/ RowsAdded
           \/ Pause
           \/ BatchRead
           \/ (Send \/ SendFails \/ MarkAsSent \/ CommitMarks) /\ UNCHANGED consumerVars
           \/ \E p \in Partitions : Consume(p) \/ AutoCommit(p) \/ Reassign(p)
<1>1. /\ 1 \in DOMAIN Pools
      /\ 0 \in Partitions /\ sender.nextPartition \in Partitions
      /\ faults \in 0 .. MaxFaults
  BY PoolsAssumption, PartitionsAssumption DEF EventsInv, EventsType, SenderRow, Partitions
<1>2. Fault => faults' = faults + 1 /\ faults' \in 0 .. MaxFaults
  BY <1>1, MaxFaultsAssumption DEF Fault
<1>3. Orders /\ UNCHANGED consumerVars => RowsAdded
  BY OrdersAddRows
<1>4. ASSUME Tick, UNCHANGED consumerVars PROVE Pause
  BY <1>1, <1>4, TurnPauses DEF Tick, Pause, Busy
<1>5. ASSUME Retrieve, UNCHANGED consumerVars PROVE Pause \/ BatchRead
  <2>1. CASE Scheduled = {}
    BY <1>1, <1>5, <2>1, NextPoolPauses DEF Retrieve, Pause, Busy
  <2>2. CASE Scheduled # {}
    <3>1. PICK items \in SetToSeqs(Scheduled) :
            sender' = [sender EXCEPT !.pc = "send", !.items = items]
      BY <1>5, <2>2 DEF Retrieve
    <3>2. IsFiniteSet(Scheduled)
      <4>1. Scheduled \subseteq DOMAIN outbox[SenderDb] /\ SenderDb \in Dbs
        BY SenderDbIsDb DEF Scheduled, SenderDb, EventsInv, EventsType, SenderRow
      <4> QED  BY <4>1, FS_Subset DEF EventsInv, TableOK
    <3>3. ToSet(items) = Scheduled
      BY <3>2, EachOnce
    <3>4. items # <<>>
      BY <2>2, <3>3 DEF ToSet
    <3> QED  BY <1>5, <3>1, <3>4 DEF Retrieve, BatchRead
  <2> QED  BY <2>1, <2>2
<1>6. ASSUME RetrieveFails \/ CommitMarksLost, UNCHANGED consumerVars PROVE Pause
  BY <1>2, <1>6, NextPoolPauses DEF RetrieveFails, CommitMarksLost, Pause
<1>7. ASSUME BeginFails \/ MarkFails, UNCHANGED consumerVars PROVE Pause
  BY <1>1, <1>2, <1>7, TurnPauses DEF BeginFails, MarkFails, Abort, Pause
<1>8. ASSUME Restart, UNCHANGED consumerVars PROVE Pause
  <2>1. IdleSender \in SenderRow
    BY <1>1 DEF IdleSender, SenderRow
  <2> QED  BY <1>2, <1>8, <2>1 DEF Restart, Pause, IdleSender, Busy
<1> QED
  BY <1>3, <1>4, <1>5, <1>6, <1>7, <1>8 DEF Next, SenderStep, SenderFault
-----------------------------------------------------------------------------
(* The inductive invariant.                                                *)

\* It holds at first.
LEMMA EventsInit == Init => EventsInv
<1> SUFFICES ASSUME Init PROVE EventsInv
  OBVIOUS
<1> USE DEF Init, OutboxInit
<1>1. 1 \in DOMAIN Pools /\ 0 \in Partitions
  BY PoolsAssumption, PartitionsAssumption DEF Partitions
<1>2. EventsType
  <2>1. sender \in SenderRow
    BY <1>1 DEF IdleSender, SenderRow
  <2> QED  BY <2>1, MaxFaultsAssumption DEF EventsType
<1>3. ASSUME NEW db \in Dbs PROVE TableOK(db)
  <2>1. DOMAIN outbox[db] = {}
    OBVIOUS
  <2> QED  BY <2>1, FS_EmptySet DEF TableOK
<1>4. BatchOK
  BY DEF BatchOK, IdleSender, Busy
<1>5. \A p \in Partitions : ClaimOK(p)
  BY DEF ClaimOK
<1> QED  BY <1>2, <1>3, <1>4, <1>5 DEF EventsInv

\* The rows that were there keep their status when others are added.
LEMMA AddedRows ==
    ASSUME EventsInv, NEW db \in Dbs, NEW added \in SUBSET Events(db),
           added \cap DOMAIN outbox[db] = {}, AddEvents(db, added)
    PROVE  /\ outbox' = [d \in Dbs |-> outbox'[d]]
           /\ \A d \in Dbs \ {db} : outbox'[d] = outbox[d]
           /\ DOMAIN outbox'[db] = DOMAIN outbox[db] \cup added
           /\ \A e \in DOMAIN outbox[db] : outbox'[db][e] = outbox[db][e]
           /\ \A e \in added : outbox'[db][e] = "awaiting"
           /\ \A d \in Dbs : \A e \in DOMAIN outbox[d] :
                e \in DOMAIN outbox'[d] /\ outbox'[d][e] = outbox[d][e]
<1>1. /\ outbox = [d \in Dbs |-> outbox[d]]
      /\ outbox' = [outbox EXCEPT ![db] =
                      [e \in DOMAIN outbox[db] \cup added |->
                         IF e \in added THEN "awaiting" ELSE outbox[db][e]]]
  BY DEF AddEvents, EventsInv, EventsType
<1>2. outbox'[db] = [e \in DOMAIN outbox[db] \cup added |->
                       IF e \in added THEN "awaiting" ELSE outbox[db][e]]
  BY <1>1
<1>3. outbox' = [d \in Dbs |-> outbox'[d]] /\ \A d \in Dbs \ {db} : outbox'[d] = outbox[d]
  BY <1>1
<1>4. /\ DOMAIN outbox'[db] = DOMAIN outbox[db] \cup added
      /\ \A e \in DOMAIN outbox[db] : outbox'[db][e] = outbox[db][e]
      /\ \A e \in added : outbox'[db][e] = "awaiting"
  BY <1>2
<1> QED  BY <1>3, <1>4

\* New rows do not touch the batch.
LEMMA EventsRowsAdded ==
    ASSUME EventsInv, RowsAdded
    PROVE  EventsInv'
<1>1. PICK db \in Dbs : \E added \in SUBSET Events(db) :
        /\ IsFiniteSet(added)
        /\ added \cap DOMAIN outbox[db] = {}
        /\ \A e \in added : <<e[1], New>> \in added \cup DOMAIN outbox[db]
        /\ AddEvents(db, added)
        /\ UNCHANGED <<sender, topic, faults, consumerVars>>
  BY DEF RowsAdded
<1>2. PICK added \in SUBSET Events(db) :
        /\ IsFiniteSet(added)
        /\ added \cap DOMAIN outbox[db] = {}
        /\ \A e \in added : <<e[1], New>> \in added \cup DOMAIN outbox[db]
        /\ AddEvents(db, added)
        /\ UNCHANGED <<sender, topic, faults, consumerVars>>
  BY <1>1
<1>3. /\ outbox' = [d \in Dbs |-> outbox'[d]]
      /\ \A d \in Dbs \ {db} : outbox'[d] = outbox[d]
      /\ DOMAIN outbox'[db] = DOMAIN outbox[db] \cup added
      /\ \A e \in DOMAIN outbox[db] : outbox'[db][e] = outbox[db][e]
      /\ \A e \in added : outbox'[db][e] = "awaiting"
      /\ \A d \in Dbs : \A e \in DOMAIN outbox[d] :
           e \in DOMAIN outbox'[d] /\ outbox'[d][e] = outbox[d][e]
  BY <1>2, AddedRows
<1>4. EventsType'
  BY <1>2, <1>3 DEF EventsInv, EventsType, consumerVars
<1>5. ASSUME NEW d \in Dbs PROVE TableOK(d)'
  <2>1. TableOK(d)
    BY DEF EventsInv
  <2>2. CASE d # db
    BY <1>3, <2>1, <2>2 DEF TableOK
  <2>3. CASE d = db
    <3>1. IsFiniteSet(DOMAIN outbox'[db])
      <4>1. IsFiniteSet(DOMAIN outbox[db]) /\ IsFiniteSet(added)
        BY <1>2, <2>1, <2>3 DEF TableOK
      <4>2. IsFiniteSet(DOMAIN outbox[db] \cup added)
        BY <4>1, FS_Union
      <4> QED  BY <1>3, <4>2
    <3> QED  BY <1>2, <1>3, <2>1, <2>3, <3>1 DEF TableOK, Events
  <2> QED  BY <2>2, <2>3
<1>6. BatchOK'
  <2>1. sender' = sender /\ SenderDb' = SenderDb /\ SenderDb \in Dbs
    BY <1>2, SenderDbIsDb DEF SenderDb, EventsInv, EventsType, SenderRow
  <2>2. DOMAIN outbox[SenderDb] \subseteq DOMAIN outbox'[SenderDb]
    BY <1>3, <2>1
  <2> QED  BY <1>3, <2>1, <2>2 DEF BatchOK, EventsInv
<1>7. \A p \in Partitions : ClaimOK(p)'
  BY <1>2 DEF EventsInv, ClaimOK, consumerVars
<1> QED  BY <1>4, <1>5, <1>6, <1>7 DEF EventsInv

\* Nor does a pause touch anything else.
LEMMA EventsPause ==
    ASSUME EventsInv, Pause
    PROVE  EventsInv'
<1>1. EventsType'
  BY DEF Pause, EventsInv, EventsType, consumerVars
<1>2. \A db \in Dbs : TableOK(db)'
  BY DEF Pause, EventsInv, TableOK
<1>3. BatchOK'
  BY DEF Pause, BatchOK, Busy
<1>4. \A p \in Partitions : ClaimOK(p)'
  BY DEF Pause, EventsInv, ClaimOK, consumerVars
<1> QED  BY <1>1, <1>2, <1>3, <1>4 DEF EventsInv

\* What the sender reads awaits sending.
LEMMA BatchReadEffect ==
    ASSUME EventsInv, BatchRead
    PROVE  /\ sender.pc = "retrieve" /\ sender.i = 1 /\ sender.marked = {}
           /\ sender' = [sender EXCEPT !.pc = "send", !.items = sender'.items]
           /\ sender'.items \in Seq(Scheduled) /\ sender'.items # <<>>
           /\ DOMAIN sender'.items = 1 .. Len(sender'.items)
           /\ \A j, k \in DOMAIN sender'.items : sender'.items[j] = sender'.items[k] => j = k
           /\ ToSet(sender'.items) = Scheduled
<1>1. PICK items \in SetToSeqs(Scheduled) :
        items # <<>> /\ sender' = [sender EXCEPT !.pc = "send", !.items = items]
  BY DEF BatchRead
<1>2. SenderDb \in Dbs
  BY SenderDbIsDb DEF SenderDb, EventsInv, EventsType, SenderRow
<1>3. IsFiniteSet(Scheduled)
  <2>1. Scheduled \subseteq DOMAIN outbox[SenderDb]
    BY DEF Scheduled
  <2> QED  BY <1>2, <2>1, FS_Subset DEF EventsInv, TableOK
<1>4. /\ items \in Seq(Scheduled) /\ DOMAIN items = 1 .. Len(items)
      /\ \A j, k \in DOMAIN items : items[j] = items[k] => j = k
      /\ ToSet(items) = Scheduled
  BY <1>3, EachOnce
<1>5. sender'.items = items
  BY <1>1 DEF EventsInv, EventsType, SenderRow
<1>6. sender.pc = "retrieve" /\ sender.i = 1 /\ sender.marked = {}
  BY DEF BatchRead, EventsInv, BatchOK, Busy
<1> QED  BY <1>1, <1>4, <1>5, <1>6

\* A batch that has just been read.
LEMMA EventsBatchRead ==
    ASSUME EventsInv, BatchRead
    PROVE  EventsInv'
<1>1. SenderDb \in Dbs
  BY SenderDbIsDb DEF SenderDb, EventsInv, EventsType, SenderRow
<1>2. Scheduled \subseteq DOMAIN outbox[SenderDb] /\ Scheduled \subseteq AllEvents
  BY <1>1 DEF Scheduled, EventsInv, TableOK, AllEvents
<1>3. UNCHANGED <<outbox, topic, faults, consumerVars>>
  BY DEF BatchRead
<1>4. sender' \in SenderRow /\ SenderDb' = SenderDb /\ sender'.i = sender.i
      /\ sender'.marked = {} /\ sender'.pc = "send"
  <2>1. sender'.items \in Seq(AllEvents)
    BY <1>2, BatchReadEffect
  <2> QED  BY <2>1, BatchReadEffect DEF EventsInv, EventsType, SenderRow, SenderDb, Busy
<1>5. EventsType'
  BY <1>3, <1>4 DEF EventsInv, EventsType, consumerVars
<1>6. \A db \in Dbs : TableOK(db)'
  BY <1>3 DEF EventsInv, TableOK
<1>7. BatchOK'
  <2>1. \A j \in DOMAIN sender'.items : sender'.items[j] \in Scheduled /\ j >= 1
    BY BatchReadEffect
  <2> QED  BY <1>3, <1>4, <2>1, BatchReadEffect DEF BatchOK, Busy, Scheduled
<1>8. \A p \in Partitions : ClaimOK(p)'
  BY <1>3 DEF EventsInv, ClaimOK, consumerVars
<1> QED  BY <1>5, <1>6, <1>7, <1>8 DEF EventsInv

\* A batch goes into the topic, whole or in part.
LEMMA EventsSent ==
    ASSUME EventsInv, sender.pc = "send", NEW arrived \in SUBSET DOMAIN sender.items,
           Deal(arrived), UNCHANGED <<outbox, consumerVars>>,
           sender' \in SenderRow, faults' \in 0 .. MaxFaults, BatchOK'
    PROVE  EventsInv'
<1>1. EventsType'
  BY DealEffect DEF EventsInv, EventsType, consumerVars
<1>2. \A db \in Dbs : TableOK(db)'
  BY DEF EventsInv, TableOK
<1>3. ASSUME NEW p \in Partitions PROVE ClaimOK(p)'
  <2>1. /\ position[p] <= Len(topic[p]) /\ committed[p] <= Len(topic[p])
        /\ position[p] \in Nat /\ committed[p] \in Nat /\ topic[p] \in Seq(AllEvents)
        /\ topic'[p] \in Seq(AllEvents)
    BY <1>1 DEF EventsInv, EventsType, ClaimOK
  <2>2. Len(topic[p]) <= Len(topic'[p])
    BY DealEffect
  <2>3. Len(topic[p]) \in Nat /\ Len(topic'[p]) \in Nat
    BY <2>1
  <2> QED  BY <2>1, <2>2, <2>3 DEF ClaimOK, consumerVars
<1> QED  BY <1>1, <1>2, <1>3 DEF EventsInv

\* All messages of a batch are acknowledged.
LEMMA EventsSend ==
    ASSUME EventsInv, Send, UNCHANGED consumerVars
    PROVE  EventsInv'
<1>1. /\ sender.pc = "send" /\ Deal(DOMAIN sender.items) /\ UNCHANGED <<outbox, faults>>
      /\ sender' = [sender EXCEPT !.pc = "mark", !.nextPartition = PartitionAfterBatch]
  BY DEF Send
<1>2. PartitionAfterBatch \in Partitions
  BY PartitionsAssumption DEF PartitionAfterBatch, Partitions, EventsInv, EventsType, SenderRow
<1>3. sender' \in SenderRow /\ SenderDb' = SenderDb
  BY <1>1, <1>2 DEF EventsInv, EventsType, SenderRow, SenderDb, Busy
<1>4. sender.i = 1 /\ 1 \in DOMAIN sender.items
  BY <1>1 DEF EventsInv, EventsType, SenderRow, BatchOK
<1>5. /\ sender'.pc = "mark" /\ sender'.items = sender.items /\ sender'.i = 1
      /\ sender'.marked = sender.marked
  BY <1>1, <1>4 DEF EventsInv, EventsType, SenderRow
<1>6. BatchOK'
  BY <1>1, <1>3, <1>4, <1>5 DEF EventsInv, BatchOK, Busy
<1> QED  BY <1>1, <1>3, <1>6, EventsSent DEF EventsInv, EventsType

\* SendMessages fails.
LEMMA EventsSendFails ==
    ASSUME EventsInv, SendFails, UNCHANGED consumerVars
    PROVE  /\ EventsInv'
           /\ sender'.pc \notin Busy /\ sender'.items = <<>>
<1>1. PICK arrived \in SUBSET DOMAIN sender.items : Deal(arrived)
  BY DEF SendFails
<1>2. /\ sender.pc = "send" /\ Fault /\ Turn("wait", 1, PartitionAfterBatch)
      /\ UNCHANGED outbox
  BY DEF SendFails
<1>3. PartitionAfterBatch \in Partitions /\ 1 \in DOMAIN Pools
  BY PartitionsAssumption, PoolsAssumption
  DEF PartitionAfterBatch, Partitions, EventsInv, EventsType, SenderRow
<1>4. /\ sender' \in SenderRow
      /\ sender'.pc \notin Busy
      /\ sender'.items = <<>> /\ sender'.i = 1 /\ sender'.marked = {}
  BY <1>2, <1>3, TurnPauses
<1>5. BatchOK'
  BY <1>4 DEF BatchOK, Busy
<1>6. faults' \in 0 .. MaxFaults
  BY <1>2, MaxFaultsAssumption DEF Fault, EventsInv, EventsType
<1> QED  BY <1>1, <1>2, <1>4, <1>5, <1>6, EventsSent

\* The rows of one more item's order are marked.
LEMMA EventsMarkAsSent ==
    ASSUME EventsInv, MarkAsSent, UNCHANGED consumerVars
    PROVE  EventsInv'
<1> DEFINE id == sender.items[sender.i][1]
           more == {e \in DOMAIN outbox[SenderDb] : e[1] = id}
           next == IF sender.i = Len(sender.items) THEN "commit" ELSE "mark"
<1>1. /\ sender.pc = "mark" /\ sender.i \in DOMAIN sender.items
      /\ sender' = [sender EXCEPT !.marked = sender.marked \cup more, !.i = sender.i + 1,
                                  !.pc = next]
      /\ UNCHANGED <<outbox, topic, faults, consumerVars>>
  BY DEF MarkAsSent, EventsInv, BatchOK
<1>2. /\ sender.items \in Seq(AllEvents) /\ DOMAIN sender.items = 1 .. Len(sender.items)
      /\ Len(sender.items) \in Nat /\ sender.i \in Nat
      /\ SenderDb \in Dbs
  BY SenderDbIsDb DEF EventsInv, EventsType, SenderRow, SenderDb
<1>3. more \subseteq DOMAIN outbox[SenderDb] /\ DOMAIN outbox[SenderDb] \subseteq AllEvents
  BY <1>2 DEF EventsInv, TableOK, AllEvents
<1>4. /\ sender' \in SenderRow /\ SenderDb' = SenderDb
      /\ sender'.items = sender.items /\ sender'.i = sender.i + 1
      /\ sender'.marked = sender.marked \cup more /\ sender'.pc = next
  <2>1. next \in Busy /\ sender.i + 1 \in Nat
    BY <1>2 DEF Busy
  <2> HIDE DEF more, next
  <2>2. sender.marked \cup more \in SUBSET AllEvents
    BY <1>3 DEF EventsInv, EventsType, SenderRow
  <2>3. sender \in SenderRow
    BY DEF EventsInv, EventsType
  <2> QED  BY <1>1, <2>2, <2>1, <2>3 DEF SenderRow, SenderDb
<1>5. EventsType'
  BY <1>1, <1>4 DEF EventsInv, EventsType, consumerVars
<1>6. \A db \in Dbs : TableOK(db)'
  BY <1>1 DEF EventsInv, TableOK
<1>7. BatchOK'
  <2>1. sender.items[sender.i] \in more
    BY <1>1 DEF EventsInv, BatchOK
  <2>2. /\ next = "mark" => sender.i + 1 \in DOMAIN sender.items
        /\ next = "commit" => sender.i + 1 = Len(sender.items) + 1
        /\ next \in {"mark", "commit"}
    BY <1>1, <1>2
  <2>3. \A e \in more : \E j \in DOMAIN sender.items : sender.items[j][1] = e[1]
    BY <1>1
  <2>4. \A j \in DOMAIN sender.items : j < sender.i + 1 =>
          sender.items[j] \in sender.marked \cup more
    BY <1>1, <1>2, <2>1 DEF EventsInv, BatchOK, Busy
  <2> HIDE DEF more, next
  <2> QED  BY <1>1, <1>3, <1>4, <2>2, <2>3, <2>4 DEF EventsInv, BatchOK, Busy
<1>8. \A p \in Partitions : ClaimOK(p)'
  BY <1>1 DEF EventsInv, ClaimOK, consumerVars
<1> QED  BY <1>5, <1>6, <1>7, <1>8 DEF EventsInv

\* The marks become visible.
LEMMA CommitMarksEffect ==
    ASSUME EventsInv, CommitMarks
    PROVE  /\ sender.pc = "commit"
           /\ SenderDb \in Dbs
           /\ outbox' = [d \in Dbs |-> outbox'[d]]
           /\ \A d \in Dbs \ {SenderDb} : outbox'[d] = outbox[d]
           /\ DOMAIN outbox'[SenderDb] = DOMAIN outbox[SenderDb]
           /\ \A e \in DOMAIN outbox[SenderDb] :
                outbox'[SenderDb][e] = IF e \in sender.marked THEN "completed"
                                                              ELSE outbox[SenderDb][e]
           /\ ToSet(sender.items) \subseteq sender.marked
           /\ sender' \in SenderRow
           /\ sender'.pc \notin Busy
           /\ sender'.items = <<>> /\ sender'.i = 1 /\ sender'.marked = {}
           /\ UNCHANGED <<topic, faults>>
<1> DEFINE db == SenderDb
<1>1. /\ sender.pc = "commit" /\ NextPool /\ UNCHANGED <<topic, faults>>
      /\ outbox' = [outbox EXCEPT ![db] =
                      [e \in DOMAIN outbox[db] |->
                         IF e \in sender.marked THEN "completed" ELSE outbox[db][e]]]
  BY DEF CommitMarks
<1>2. db \in Dbs /\ outbox = [d \in Dbs |-> outbox[d]]
  BY SenderDbIsDb DEF SenderDb, EventsInv, EventsType, SenderRow
<1> HIDE DEF db
<1>3. outbox'[db] = [e \in DOMAIN outbox[db] |->
                       IF e \in sender.marked THEN "completed" ELSE outbox[db][e]]
  BY <1>1, <1>2
<1>4. outbox' = [d \in Dbs |-> outbox'[d]] /\ \A d \in Dbs \ {db} : outbox'[d] = outbox[d]
  BY <1>1, <1>2
<1>5. /\ DOMAIN outbox'[db] = DOMAIN outbox[db]
      /\ \A e \in DOMAIN outbox[db] :
           outbox'[db][e] = IF e \in sender.marked THEN "completed" ELSE outbox[db][e]
  BY <1>3
<1>6. ToSet(sender.items) \subseteq sender.marked
  <2>1. DOMAIN sender.items = 1 .. Len(sender.items) /\ Len(sender.items) \in Nat
    BY DEF EventsInv, EventsType, SenderRow
  <2> QED  BY <1>1, <2>1 DEF EventsInv, BatchOK, Busy, ToSet
<1> QED  BY <1>1, <1>2, <1>4, <1>5, <1>6, NextPoolPauses DEF db

\* COMMIT changes the status of rows only.
LEMMA EventsCommitMarks ==
    ASSUME EventsInv, CommitMarks, UNCHANGED consumerVars
    PROVE  EventsInv'
<1>1. EventsType'
  BY CommitMarksEffect DEF EventsInv, EventsType, consumerVars
<1>2. ASSUME NEW db \in Dbs PROVE TableOK(db)'
  <2>1. TableOK(db)
    BY DEF EventsInv
  <2> QED  BY <2>1, CommitMarksEffect DEF TableOK
<1>3. BatchOK'
  BY CommitMarksEffect DEF BatchOK, Busy
<1>4. \A p \in Partitions : ClaimOK(p)'
  BY CommitMarksEffect DEF EventsInv, ClaimOK, consumerVars
<1> QED  BY <1>1, <1>2, <1>3, <1>4 DEF EventsInv

\* The consumer's side leaves LOMS alone.
LEMMA EventsConsumer ==
    ASSUME EventsInv, NEW p \in Partitions, Consume(p) \/ AutoCommit(p) \/ Reassign(p)
    PROVE  EventsInv'
<1>1. UNCHANGED <<outbox, sender, topic>> /\ faults' \in 0 .. MaxFaults
  BY MaxFaultsAssumption
  DEF Consume, AutoCommit, Reassign, outboxVars, Fault, EventsInv, EventsType
<1>2. /\ position \in [Partitions -> Nat] /\ committed \in [Partitions -> Nat]
      /\ topic \in [Partitions -> Seq(AllEvents)] /\ log \in Seq(AllEvents)
      /\ \A q \in Partitions : position[q] <= Len(topic[q]) /\ committed[q] <= Len(topic[q])
  BY DEF EventsInv, EventsType, ClaimOK
<1>3. /\ position' \in [Partitions -> Nat] /\ committed' \in [Partitions -> Nat]
      /\ log' \in Seq(AllEvents)
      /\ \A q \in Partitions : position'[q] <= Len(topic[q]) /\ committed'[q] <= Len(topic[q])
  <2>1. CASE Consume(p)
    <3>1. topic[p] \in Seq(AllEvents) /\ position[p] + 1 \in 1 .. Len(topic[p])
      BY <1>2, <2>1 DEF Consume
    <3>2. topic[p][position[p] + 1] \in AllEvents
      BY <3>1
    <3>3. position' = [position EXCEPT ![p] = position[p] + 1]
      BY <2>1 DEF Consume
    <3> QED  BY <1>2, <2>1, <3>1, <3>2, <3>3 DEF Consume
  <2>2. CASE AutoCommit(p)
    BY <1>2, <2>2 DEF AutoCommit
  <2>3. CASE Reassign(p)
    BY <1>2, <2>3 DEF Reassign
  <2> QED  BY <2>1, <2>2, <2>3
<1>4. EventsType'
  BY <1>1, <1>3 DEF EventsInv, EventsType
<1>5. (\A db \in Dbs : TableOK(db)') /\ BatchOK'
  BY <1>1 DEF EventsInv, TableOK, BatchOK, SenderDb
<1>6. \A q \in Partitions : ClaimOK(q)'
  BY <1>1, <1>3 DEF ClaimOK
<1> QED  BY <1>4, <1>5, <1>6 DEF EventsInv

\* Every step keeps it.
LEMMA EventsNext ==
    ASSUME EventsInv, [Next]_vars
    PROVE  EventsInv'
<1>1. CASE UNCHANGED vars
  <2> USE <1>1 DEF vars, outboxVars, consumerVars
  <2>1. EventsType'
    BY DEF EventsInv, EventsType
  <2>2. (\A db \in Dbs : TableOK(db)') /\ (\A p \in Partitions : ClaimOK(p)')
    BY DEF EventsInv, TableOK, ClaimOK
  <2>3. BatchOK'
    BY DEF EventsInv, BatchOK, SenderDb
  <2> QED  BY <2>1, <2>2, <2>3 DEF EventsInv
<1> QED
  BY <1>1, EventsSteps, EventsRowsAdded, EventsPause, EventsBatchRead, EventsSend,
     EventsSendFails, EventsMarkAsSent, EventsCommitMarks, EventsConsumer

\* The tables, the sender, the topic and the offsets fit each other, whatever
\* the orders do, whatever fails and whoever dies (sendEvents, ConsumeClaim).
THEOREM EventsInvHolds == Spec => []EventsInv
BY EventsInit, EventsNext, PTL DEF Spec

\* Every variable of OrderEvents keeps its type; in particular a mark goes to an
\* item there is, and an offset never passes the end of its partition.
THEOREM EventsTypeCorrect == Spec => []TypeOK
<1>1. ASSUME EventsInv PROVE TypeOK
  <2>1. SenderDb \in Dbs
    BY <1>1, SenderDbIsDb DEF SenderDb, EventsInv, EventsType, SenderRow
  <2>2. \A db \in Dbs : /\ DOMAIN outbox[db] \subseteq Events(db)
                        /\ \A e \in DOMAIN outbox[db] : outbox[db][e] \in {"awaiting", "completed"}
    BY <1>1 DEF EventsInv, TableOK
  <2>3. sender.marked \subseteq Rows /\ ToSet(sender.items) \subseteq Events(SenderDb)
    BY <1>1, <2>1, <2>2 DEF EventsInv, BatchOK, Rows, ToSet
  <2>4. \A p \in Partitions : {position[p], committed[p]} \subseteq 0 .. Len(topic[p])
    BY <1>1 DEF EventsInv, EventsType, ClaimOK
  <2> QED
    BY <1>1, <2>2, <2>3, <2>4 DEF TypeOK, EventsInv, EventsType, SenderRow, Busy, BatchOK
<1> QED  BY <1>1, EventsInvHolds, PTL
-----------------------------------------------------------------------------
(* Committed offsets are behind the log.                                   *)

\* Messages in the topic stay where they are.
LEMMA TopicStays ==
    ASSUME EventsInv, [Next]_vars, NEW p \in Partitions, NEW k \in 1 .. Len(topic[p])
    PROVE  /\ k \in 1 .. Len(topic'[p])
           /\ topic'[p][k] = topic[p][k]
<1>1. topic[p] \in Seq(AllEvents) /\ EventsInv'
  BY EventsNext DEF EventsInv, EventsType
<1>2. topic'[p] \in Seq(AllEvents)
  BY <1>1 DEF EventsInv, EventsType
<1>3. CASE topic' = topic
  BY <1>3
<1>4. ASSUME NEW arrived \in SUBSET DOMAIN sender.items, Deal(arrived)
      PROVE  /\ k \in 1 .. Len(topic'[p])
             /\ topic'[p][k] = topic[p][k]
  <2>1. Len(topic[p]) <= Len(topic'[p]) /\ topic'[p][k] = topic[p][k]
    BY <1>4, DealEffect
  <2>2. Len(topic[p]) \in Nat /\ Len(topic'[p]) \in Nat
    BY <1>1, <1>2
  <2> QED  BY <2>1, <2>2
<1>5. CASE Send
  <2>1. Deal(DOMAIN sender.items)
    BY <1>5 DEF Send
  <2> QED  BY <1>4, <2>1
<1>6. CASE SendFails
  <2>1. PICK arrived \in SUBSET DOMAIN sender.items : Deal(arrived)
    BY <1>6 DEF SendFails
  <2> QED  BY <1>4, <2>1
<1>7. topic' = topic \/ Send \/ SendFails
  BY EventsSteps
  DEF vars, outboxVars, RowsAdded, Pause, BatchRead, MarkAsSent, CommitMarks, Consume,
      AutoCommit, Reassign
<1> QED  BY <1>3, <1>5, <1>6, <1>7

\* An offset moves to where a claim is, a claim moves past what it has logged or
\* back to the offset.
LEMMA LoggedNext ==
    ASSUME LoggedInv, [Next]_vars
    PROVE  LoggedInv'
<1>1. EventsInv /\ EventsInv'
  BY EventsNext DEF LoggedInv
<1>2. /\ position \in [Partitions -> Nat] /\ committed \in [Partitions -> Nat]
      /\ topic \in [Partitions -> Seq(AllEvents)] /\ log \in Seq(AllEvents)
      /\ \A p \in Partitions : position[p] <= Len(topic[p]) /\ committed[p] <= Len(topic[p])
  BY <1>1 DEF EventsInv, EventsType, ClaimOK
<1>3. ASSUME NEW p \in Partitions, NEW k \in 1 .. Len(topic'[p]),
             k <= position[p] \/ k <= committed[p]
      PROVE  topic'[p][k] \in ToSet(log)
  <2>1. k \in 1 .. Len(topic[p])
    BY <1>2, <1>3
  <2>2. topic[p][k] \in ToSet(log)
    BY <1>3, <2>1 DEF LoggedInv
  <2> QED  BY <1>1, <2>1, <2>2, TopicStays
<1>4. CASE UNCHANGED consumerVars
  BY <1>1, <1>3, <1>4 DEF LoggedInv, consumerVars
<1>5. ASSUME NEW q \in Partitions, Consume(q) PROVE LoggedInv'
  <2> DEFINE m == topic[q][position[q] + 1]
  <2>1. /\ topic' = topic /\ committed' = committed
        /\ position' = [position EXCEPT ![q] = position[q] + 1]
        /\ log' = Append(log, m)
    BY <1>5 DEF Consume, outboxVars
  <2>2. m \in AllEvents
    <3>1. topic[q] \in Seq(AllEvents) /\ position[q] + 1 \in 1 .. Len(topic[q])
      BY <1>2, <1>5 DEF Consume
    <3> QED  BY <3>1
  <2> HIDE DEF m
  <2>3. ToSet(log') = ToSet(log) \cup {m}
    <3>1. /\ DOMAIN log = 1 .. Len(log) /\ Len(log) \in Nat
          /\ DOMAIN log' = 1 .. (Len(log) + 1)
          /\ \A i \in 1 .. Len(log) : log'[i] = log[i]
          /\ log'[Len(log) + 1] = m
      BY <1>2, <2>1, <2>2
    <3> QED  BY <3>1 DEF ToSet
  <2>4. ASSUME NEW p \in Partitions, NEW k \in 1 .. Len(topic'[p]),
               k <= position'[p] \/ k <= committed'[p]
        PROVE  topic'[p][k] \in ToSet(log')
    <3>1. CASE k <= position[p] \/ k <= committed[p]
      BY <1>3, <2>3, <3>1
    <3>2. CASE ~ (k <= position[p] \/ k <= committed[p])
      <4>1. p = q /\ k = position[q] + 1
        BY <1>2, <2>1, <2>4, <3>2
      <4> QED  BY <2>1, <2>3, <4>1 DEF m
    <3> QED  BY <3>1, <3>2
  <2> QED  BY <1>1, <2>4 DEF LoggedInv
<1>6. ASSUME NEW q \in Partitions, AutoCommit(q) \/ Reassign(q) PROVE LoggedInv'
  <2>1. /\ topic' = topic /\ log' = log
        /\ \A p \in Partitions : /\ position'[p] \in {position[p], committed[p]}
                                 /\ committed'[p] \in {position[p], committed[p]}
    BY <1>2, <1>6 DEF AutoCommit, Reassign, outboxVars
  <2> QED  BY <1>1, <1>3, <2>1 DEF LoggedInv
<1> QED
  BY <1>1, <1>4, <1>5, <1>6, EventsSteps
  DEF vars, RowsAdded, Pause, BatchRead

\* At least once, second half, for any number of partitions and instances that
\* die: Kafka keeps an offset only for messages that are in the log (ConsumeClaim
\* logs a message before it marks it).
THEOREM OffsetsFollowTheLog == Spec => []CommittedWasLogged
<1>1. Init => LoggedInv
  <2> SUFFICES ASSUME Init PROVE LoggedInv
    OBVIOUS
  <2>1. \A p \in Partitions : Len(topic[p]) = 0
    BY DEF Init, OutboxInit
  <2> QED  BY <2>1, EventsInit DEF LoggedInv
<1>2. ASSUME LoggedInv PROVE CommittedWasLogged
  <2>1. \A p \in Partitions : /\ topic[p] \in Seq(AllEvents)
                              /\ committed[p] \in Nat /\ committed[p] <= Len(topic[p])
    BY <1>2 DEF LoggedInv, EventsInv, EventsType, ClaimOK
  <2>2. ASSUME NEW p \in Partitions, NEW k \in 1 .. committed[p]
        PROVE  k \in 1 .. Len(topic[p]) /\ k <= committed[p]
    BY <2>1
  <2> QED  BY <1>2, <2>2 DEF LoggedInv, CommittedWasLogged
<1> QED  BY <1>1, <1>2, LoggedNext, PTL DEF Spec
-----------------------------------------------------------------------------
(* What is marked has been sent.                                           *)

\* An event in the topic is in some place of some partition.
LEMMA SentIsSomewhere ==
    ASSUME NEW e
    PROVE  e \in Sent <=> \E p \in Partitions : \E k \in DOMAIN topic[p] : topic[p][k] = e
BY DEF Sent, ToSet

\* Nothing leaves the topic.
LEMMA SentStays ==
    ASSUME EventsInv, [Next]_vars
    PROVE  Sent \subseteq Sent'
<1> SUFFICES ASSUME NEW e \in Sent PROVE e \in Sent'
  OBVIOUS
<1>1. PICK p \in Partitions : \E k \in DOMAIN topic[p] : topic[p][k] = e
  BY SentIsSomewhere
<1>2. PICK k \in DOMAIN topic[p] : topic[p][k] = e
  BY <1>1
<1>3. topic[p] \in Seq(AllEvents) /\ topic'[p] \in Seq(AllEvents)
  BY EventsNext DEF EventsInv, EventsType
<1>4. k \in 1 .. Len(topic[p])
  BY <1>3
<1>5. k \in DOMAIN topic'[p] /\ topic'[p][k] = e
  BY <1>2, <1>3, <1>4, TopicStays
<1> QED  BY <1>5 DEF Sent, ToSet

\* Sending a batch adds its events to the topic, and no others.
LEMMA SendAddsBatch ==
    ASSUME EventsInv, Send, UNCHANGED consumerVars
    PROVE  /\ sender.pc = "send" /\ sender'.pc = "mark" /\ sender'.items = sender.items
           /\ SenderDb' = SenderDb
           /\ UNCHANGED <<outbox, faults>>
           /\ \A e : e \in Sent' <=> e \in Sent \cup ToSet(sender.items)
<1>1. /\ sender.pc = "send" /\ Deal(DOMAIN sender.items) /\ UNCHANGED <<outbox, faults>>
      /\ sender' = [sender EXCEPT !.pc = "mark", !.nextPartition = PartitionAfterBatch]
  BY DEF Send
<1>2. sender'.pc = "mark" /\ sender'.items = sender.items /\ SenderDb' = SenderDb
  BY <1>1 DEF EventsInv, EventsType, SenderRow, SenderDb
<1>3. Sent \subseteq Sent'
  BY SentStays DEF Next, SenderStep
<1>4. ToSet(sender.items) \subseteq Sent'
  BY <1>1, DealEffect DEF Sent, ToSet
<1>5. ASSUME NEW e \in Sent' PROVE e \in Sent \cup ToSet(sender.items)
  <2>1. PICK p \in Partitions : \E k \in DOMAIN topic'[p] : topic'[p][k] = e
    BY <1>5 DEF Sent, ToSet
  <2>2. PICK k \in DOMAIN topic'[p] : topic'[p][k] = e
    BY <2>1
  <2>3. topic[p] \in Seq(AllEvents) /\ topic'[p] \in Seq(AllEvents)
    BY EventsSend DEF EventsInv, EventsType
  <2>4. CASE k > Len(topic[p])
    BY <1>1, <2>2, <2>4, DealEffect DEF ToSet
  <2>5. CASE ~ (k > Len(topic[p]))
    <3>1. k \in 1 .. Len(topic[p]) /\ DOMAIN topic[p] = 1 .. Len(topic[p])
      BY <2>3, <2>5
    <3>2. topic[p][k] = e
      BY <1>1, <2>2, <3>1, DealEffect
    <3> QED  BY <3>1, <3>2 DEF Sent, ToSet
  <2> QED  BY <2>4, <2>5
<1> QED  BY <1>1, <1>2, <1>3, <1>4, <1>5

\* With quiet orders, all that a mark hits has been sent.
LEMMA QuietNext ==
    ASSUME QuietInv, QuietOrders, [Next]_vars
    PROVE  QuietInv'
<1>1. EventsInv /\ EventsInv' /\ QuietOK /\ CompletedWasSent
  BY EventsNext DEF QuietInv
<1>2. Sent \subseteq Sent'
  BY <1>1, SentStays
<1>3. SenderDb \in Dbs
  BY <1>1, SenderDbIsDb DEF SenderDb, EventsInv, EventsType, SenderRow
<1>4. ASSUME outbox' = outbox PROVE CompletedWasSent'
  BY <1>1, <1>2, <1>4 DEF CompletedWasSent
<1>5. CASE RowsAdded
  <2>1. PICK db \in Dbs : \E added \in SUBSET Events(db) :
          /\ added \cap DOMAIN outbox[db] = {}
          /\ QuietOrders /\ sender.pc \in Busy /\ SenderDb = db =>
               \A e \in added : <<e[1], New>> \notin DOMAIN outbox[db]
          /\ AddEvents(db, added)
          /\ UNCHANGED <<sender, topic, faults, consumerVars>>
    BY <1>5 DEF RowsAdded
  <2>2. PICK added \in SUBSET Events(db) :
          /\ added \cap DOMAIN outbox[db] = {}
          /\ QuietOrders /\ sender.pc \in Busy /\ SenderDb = db =>
               \A e \in added : <<e[1], New>> \notin DOMAIN outbox[db]
          /\ AddEvents(db, added)
          /\ UNCHANGED <<sender, topic, faults, consumerVars>>
    BY <2>1
  <2>3. /\ \A d \in Dbs \ {db} : outbox'[d] = outbox[d]
        /\ DOMAIN outbox'[db] = DOMAIN outbox[db] \cup added
        /\ \A e \in DOMAIN outbox[db] : outbox'[db][e] = outbox[db][e]
        /\ \A e \in added : outbox'[db][e] = "awaiting"
    BY <1>1, <2>2, AddedRows
  <2>4. sender' = sender /\ SenderDb' = SenderDb /\ Sent' = Sent
    BY <2>2 DEF SenderDb, Sent
  <2>5. ASSUME sender.pc \in Busy, NEW e \in DOMAIN outbox'[SenderDb],
               NEW j \in DOMAIN sender.items, sender.items[j][1] = e[1],
               outbox'[SenderDb][e] = "awaiting"
        PROVE  e \in ToSet(sender.items)
    <3>1. CASE e \in DOMAIN outbox[SenderDb]
      <4>1. outbox[SenderDb][e] = "awaiting"
        BY <1>3, <2>3, <2>5, <3>1
      <4> QED  BY <1>1, <2>5, <3>1, <4>1 DEF QuietOK
    <3>2. CASE e \notin DOMAIN outbox[SenderDb]
      <4>1. SenderDb = db /\ e \in added
        BY <1>3, <2>3, <2>5, <3>2
      <4>2. sender.items[j] \in DOMAIN outbox[SenderDb]
        BY <1>1 DEF EventsInv, BatchOK
      <4>3. <<e[1], New>> \in DOMAIN outbox[SenderDb]
        BY <1>1, <1>3, <2>5, <4>2 DEF EventsInv, TableOK
      <4> QED  BY <2>2, <2>5, <4>1, <4>3
    <3> QED  BY <3>1, <3>2
  <2>6. QuietOK'
    BY <1>1, <2>4, <2>5 DEF QuietOK
  <2>7. CompletedWasSent'
    BY <1>1, <2>3, <2>4 DEF CompletedWasSent
  <2> QED  BY <1>1, <2>6, <2>7 DEF QuietInv
<1>6. CASE Pause
  <2>1. QuietOK'
    BY <1>6 DEF Pause, QuietOK, Busy
  <2> QED  BY <1>1, <1>4, <1>6, <2>1 DEF Pause, QuietInv
<1>7. CASE BatchRead
  <2>1. outbox' = outbox /\ SenderDb' = SenderDb /\ sender'.pc = "send"
        /\ ToSet(sender'.items) = Scheduled
    BY <1>1, <1>7, BatchReadEffect DEF BatchRead, SenderDb, EventsInv, EventsType, SenderRow
  <2>2. QuietOK'
    BY <2>1 DEF QuietOK, Scheduled
  <2> QED  BY <1>1, <1>4, <2>1, <2>2 DEF QuietInv
<1>8. CASE Send /\ UNCHANGED consumerVars
  <2>1. /\ sender.pc = "send" /\ sender'.pc = "mark" /\ sender'.items = sender.items
        /\ SenderDb' = SenderDb /\ outbox' = outbox
        /\ ToSet(sender.items) \subseteq Sent'
    BY <1>1, <1>8, SendAddsBatch
  <2>2. QuietOK'
    BY <1>1, <2>1 DEF QuietOK, Busy
  <2> QED  BY <1>1, <1>4, <2>1, <2>2 DEF QuietInv
<1>9. CASE SendFails /\ UNCHANGED consumerVars
  <2>1. sender'.pc \notin Busy /\ outbox' = outbox
    BY <1>1, <1>9, EventsSendFails DEF SendFails
  <2>2. QuietOK'
    BY <2>1 DEF QuietOK, Busy
  <2> QED  BY <1>1, <1>4, <2>1, <2>2 DEF QuietInv
<1>10. CASE MarkAsSent /\ UNCHANGED consumerVars
  <2>1. /\ sender.pc = "mark" /\ sender'.items = sender.items /\ SenderDb' = SenderDb
        /\ outbox' = outbox
    BY <1>1, <1>10 DEF MarkAsSent, SenderDb, EventsInv, EventsType, SenderRow
  <2>2. QuietOK'
    BY <1>1, <1>2, <2>1 DEF QuietOK, Busy
  <2> QED  BY <1>1, <1>4, <2>1, <2>2 DEF QuietInv
<1>11. CASE CommitMarks /\ UNCHANGED consumerVars
  <2>1. QuietOK'
    BY <1>1, <1>11, CommitMarksEffect DEF QuietOK, Busy
  <2>2. ASSUME NEW db \in Dbs, NEW e \in DOMAIN outbox'[db], outbox'[db][e] = "completed"
        PROVE  e \in Sent
    <3>1. CASE db # SenderDb
      BY <1>1, <1>11, <2>2, <3>1, CommitMarksEffect DEF CompletedWasSent
    <3>2. CASE db = SenderDb
      <4>1. e \in DOMAIN outbox[db]
        BY <1>1, <1>11, <3>2, CommitMarksEffect
      <4>2. outbox[db][e] = "awaiting" \/ outbox[db][e] = "completed"
        BY <1>1, <4>1 DEF EventsInv, TableOK
      <4>3. CASE outbox[db][e] = "completed"
        BY <1>1, <4>1, <4>3 DEF CompletedWasSent
      <4>4. CASE outbox[db][e] = "awaiting"
        <5>1. e \in sender.marked /\ sender.pc = "commit"
          BY <1>1, <1>11, <2>2, <3>2, <4>1, <4>4, CommitMarksEffect
        <5>2. PICK j \in DOMAIN sender.items : sender.items[j][1] = e[1]
          BY <1>1, <5>1 DEF EventsInv, BatchOK
        <5>3. e \in ToSet(sender.items)
          BY <1>1, <3>2, <4>1, <4>4, <5>1, <5>2 DEF QuietOK, Busy
        <5> QED  BY <1>1, <5>1, <5>3 DEF QuietOK
      <4> QED  BY <4>2, <4>3, <4>4
    <3> QED  BY <3>1, <3>2
  <2>3. CompletedWasSent'
    BY <1>2, <2>2 DEF CompletedWasSent
  <2> QED  BY <1>1, <2>1, <2>3 DEF QuietInv
<1>12. CASE UNCHANGED outboxVars \/ \E p \in Partitions : Reassign(p)
  <2>1. UNCHANGED <<outbox, sender, topic>>
    BY <1>12 DEF outboxVars, Reassign
  <2>2. QuietOK'
    BY <1>1, <2>1 DEF QuietOK, SenderDb, Sent
  <2> QED  BY <1>1, <1>4, <2>1, <2>2 DEF QuietInv
<1> QED
  BY <1>1, <1>5, <1>6, <1>7, <1>8, <1>9, <1>10, <1>11, <1>12, EventsSteps
  DEF vars, Consume, AutoCommit

\* At least once, first half, for any databases, orders, partitions and faults:
\* while no order changes in the database where the sender's transaction is open,
\* an event is marked only when Kafka has it (sendEvents, MarkAllAsSent).
THEOREM MarkedWasSent ==
    ASSUME QuietOrders
    PROVE  Spec => []CompletedWasSent
<1>1. Init => QuietInv
  <2> SUFFICES ASSUME Init PROVE QuietInv
    OBVIOUS
  <2>1. sender.pc = "wait" /\ \A db \in Dbs : DOMAIN outbox[db] = {}
    BY DEF Init, OutboxInit, IdleSender
  <2> QED  BY <2>1, EventsInit DEF QuietInv, QuietOK, CompletedWasSent, Busy
<1>2. QuietInv => CompletedWasSent
  BY DEF QuietInv
<1>3. QuietInv /\ [Next]_vars => QuietInv'
  BY QuietNext
<1> QED  BY <1>1, <1>2, <1>3, PTL DEF Spec
-----------------------------------------------------------------------------
(* Once, while nothing fails.                                              *)

\* An order, and with it an event, belongs to one database.
LEMMA OneDbOfEvent ==
    ASSUME EventsInv, NEW a \in Dbs, NEW b \in Dbs,
           NEW e \in Events(a), e \in Events(b)
    PROVE  a = b
BY OrderIdsAssumption DEF Events

\* A sent event is not new to the outbox, and the next batch is not in the topic.
LEMMA OnceNext ==
    ASSUME OnceInv, [Next]_vars
    PROVE  OnceInv'
<1>1. EventsInv /\ EventsInv'
  BY EventsNext DEF OnceInv
<1>2. /\ position \in [Partitions -> Nat] /\ committed \in [Partitions -> Nat]
      /\ topic \in [Partitions -> Seq(AllEvents)] /\ log \in Seq(AllEvents)
      /\ \A p \in Partitions : position[p] <= Len(topic[p])
      /\ faults \in Nat
      /\ SenderDb \in Dbs
      /\ \A db \in Dbs : DOMAIN outbox[db] \subseteq Events(db)
  <2>1. SenderDb \in Dbs
    BY <1>1, SenderDbIsDb DEF EventsInv, EventsType, SenderDb, SenderRow
  <2>2. \A db \in Dbs : DOMAIN outbox[db] \subseteq Events(db)
    BY <1>1 DEF EventsInv, TableOK
  <2>3. faults \in Nat
    BY <1>1, MaxFaultsAssumption DEF EventsInv, EventsType
  <2> QED  BY <1>1, <2>1, <2>2, <2>3 DEF EventsInv, EventsType, ClaimOK
<1>3. Fault => faults' # 0
  BY <1>2 DEF Fault
<1>4. SUFFICES ASSUME faults' = 0 PROVE OnceOK'
  BY <1>1 DEF OnceInv
<1>5. ASSUME faults' = faults PROVE OnceOK
  BY <1>4, <1>5 DEF OnceInv
<1>6. CASE RowsAdded
  <2>1. PICK db \in Dbs : \E added \in SUBSET Events(db) :
          /\ added \cap DOMAIN outbox[db] = {}
          /\ AddEvents(db, added)
          /\ UNCHANGED <<sender, topic, faults, consumerVars>>
    BY <1>6 DEF RowsAdded
  <2>2. PICK added \in SUBSET Events(db) :
          /\ added \cap DOMAIN outbox[db] = {}
          /\ AddEvents(db, added)
          /\ UNCHANGED <<sender, topic, faults, consumerVars>>
    BY <2>1
  <2>3. /\ \A d \in Dbs \ {db} : outbox'[d] = outbox[d]
        /\ DOMAIN outbox'[db] = DOMAIN outbox[db] \cup added
        /\ \A e \in DOMAIN outbox[db] : outbox'[db][e] = outbox[db][e]
        /\ \A d \in Dbs : \A e \in DOMAIN outbox[d] :
             e \in DOMAIN outbox'[d] /\ outbox'[d][e] = outbox[d][e]
    BY <1>1, <2>2, AddedRows
  <2>4. OnceOK /\ sender' = sender /\ topic' = topic /\ Sent' = Sent
        /\ position' = position /\ log' = log
    BY <1>5, <2>2 DEF Sent, consumerVars
  <2>5. ASSUME NEW d \in Dbs, NEW e \in DOMAIN outbox'[d], e \in Sent
        PROVE  e \in DOMAIN outbox[d]
    <3>1. PICK b \in Dbs : e \in DOMAIN outbox[b]
      BY <2>4, <2>5 DEF OnceOK, Rows
    <3>2. e \in Events(d) /\ e \in Events(b)
      BY <1>1, <1>2, <2>5, <3>1 DEF EventsInv, TableOK, Events
    <3> QED  BY <1>1, <3>1, <3>2, OneDbOfEvent
  <2>6. \A d \in Dbs : \A e \in DOMAIN outbox'[d] :
          e \in Sent =>
             \/ outbox'[d][e] = "completed"
             \/ sender.pc \in {"mark", "commit"} /\ e \in ToSet(sender.items)
    BY <2>3, <2>4, <2>5 DEF OnceOK
  <2>7. Sent \subseteq Rows'
    BY <2>3, <2>4 DEF OnceOK, Rows
  <2> QED  BY <2>4, <2>6, <2>7 DEF OnceOK
<1>7. CASE Pause
  <2>1. OnceOK /\ sender.pc \notin Busy
    <3>1. faults' = faults
      BY <1>2, <1>4, <1>7 DEF Pause
    <3> QED  BY <1>2, <1>5, <1>7, <3>1 DEF Pause
  <2>2. /\ outbox' = outbox /\ topic' = topic /\ position' = position /\ log' = log
        /\ Sent' = Sent /\ Rows' = Rows
    BY <1>7 DEF Pause, consumerVars, Sent, Rows
  <2> QED  BY <2>1, <2>2 DEF OnceOK, Busy
<1>8. CASE BatchRead
  <2>1. /\ outbox' = outbox /\ topic' = topic /\ position' = position /\ log' = log
        /\ Sent' = Sent /\ Rows' = Rows /\ faults' = faults /\ sender.pc = "retrieve"
    BY <1>8 DEF BatchRead, consumerVars, Sent, Rows
  <2> QED  BY <1>5, <2>1 DEF OnceOK
<1>9. CASE Send /\ UNCHANGED consumerVars
  <2>1. /\ sender.pc = "send" /\ sender'.pc = "mark" /\ sender'.items = sender.items
        /\ UNCHANGED <<outbox, faults>>
        /\ \A e : e \in Sent' <=> e \in Sent \cup ToSet(sender.items)
    BY <1>1, <1>9, SendAddsBatch
  <2>2. OnceOK /\ position' = position /\ log' = log /\ Rows' = Rows
    BY <1>5, <1>9, <2>1 DEF consumerVars, Rows
  <2>3. \A j \in DOMAIN sender.items : /\ sender.items[j] \notin Sent
                                       /\ sender.items[j] \in DOMAIN outbox[SenderDb]
    BY <1>1, <1>2, <2>1, <2>2 DEF OnceOK, EventsInv, BatchOK
  <2>4. Deal(DOMAIN sender.items)
    BY <1>9 DEF Send
  <2>5. \A p \in Partitions : topic'[p] \in Seq(AllEvents)
    BY <1>1 DEF EventsInv, EventsType
  <2>6. ASSUME NEW p \in Partitions, NEW j \in DOMAIN topic'[p]
        PROVE  \/ /\ j \in DOMAIN topic[p] /\ topic'[p][j] = topic[p][j]
                  /\ topic'[p][j] \in Sent
               \/ j > Len(topic[p]) /\ topic'[p][j] \notin Sent
    <3>1. CASE j > Len(topic[p])
      <4>1. PICK k \in DOMAIN sender.items : topic'[p][j] = sender.items[k]
        BY <1>1, <2>4, <3>1, DealEffect
      <4> QED  BY <2>3, <3>1, <4>1
    <3>2. CASE ~ (j > Len(topic[p]))
      <4>1. j \in 1 .. Len(topic[p]) /\ DOMAIN topic[p] = 1 .. Len(topic[p])
        BY <1>2, <2>5, <3>2
      <4>2. topic'[p][j] = topic[p][j]
        BY <1>1, <2>4, <4>1, DealEffect
      <4> QED  BY <4>1, <4>2 DEF Sent, ToSet
    <3> QED  BY <3>1, <3>2
  <2>7. ASSUME NEW p \in Partitions, NEW q \in Partitions, NEW j \in DOMAIN topic'[p],
               NEW k \in DOMAIN topic'[q], topic'[p][j] = topic'[q][k]
        PROVE  p = q /\ j = k
    <3>1. CASE topic'[p][j] \in Sent
      <4>1. /\ j \in DOMAIN topic[p] /\ topic'[p][j] = topic[p][j]
            /\ k \in DOMAIN topic[q] /\ topic'[q][k] = topic[q][k]
        BY <1>2, <2>6, <2>7, <3>1
      <4>2. topic[p][j] = topic[q][k]
        BY <2>7, <4>1
      <4> QED  BY <2>2, <4>1, <4>2 DEF OnceOK
    <3>2. CASE topic'[p][j] \notin Sent
      <4>1. j > Len(topic[p]) /\ k > Len(topic[q])
        BY <2>6, <2>7, <3>2
      <4> QED  BY <1>1, <2>4, <2>7, <4>1, DealEffect
    <3> QED  BY <3>1, <3>2
  <2>8. \A db \in Dbs : \A e \in DOMAIN outbox'[db] :
          e \in Sent' => outbox'[db][e] = "completed" \/ e \in ToSet(sender'.items)
    BY <2>1, <2>2 DEF OnceOK
  <2>9. Sent' \subseteq Rows'
    <3>1. ToSet(sender.items) \subseteq Rows
      BY <1>2, <2>3 DEF Rows, ToSet
    <3>2. Sent \subseteq Rows
      BY <2>2 DEF OnceOK
    <3> QED  BY <2>1, <2>2, <3>1, <3>2
  <2>10. ASSUME NEW k \in DOMAIN log
         PROVE  \E p \in Partitions : \E j \in 1 .. position[p] : log[k] = topic'[p][j]
    <3>1. PICK p \in Partitions : \E j \in 1 .. position[p] : log[k] = topic[p][j]
      BY <2>2 DEF OnceOK
    <3>2. PICK j \in 1 .. position[p] : log[k] = topic[p][j]
      BY <3>1
    <3>3. j \in 1 .. Len(topic[p])
      BY <1>2
    <3>4. topic'[p][j] = topic[p][j]
      BY <1>1, <3>3, TopicStays
    <3> QED  BY <3>2, <3>4
  <2>11. sender'.pc \in {"mark", "commit"}
    BY <2>1
  <2> QED  BY <2>2, <2>7, <2>8, <2>9, <2>10, <2>11 DEF OnceOK
<1>10. CASE SendFails
  BY <1>3, <1>4, <1>10 DEF SendFails
<1>11. CASE MarkAsSent /\ UNCHANGED consumerVars
  <2>1. /\ outbox' = outbox /\ topic' = topic /\ position' = position /\ log' = log
        /\ Sent' = Sent /\ Rows' = Rows /\ faults' = faults
        /\ sender'.pc \in {"mark", "commit"} /\ sender'.items = sender.items
    <3>1. UNCHANGED <<outbox, topic, faults, consumerVars>>
      BY <1>11 DEF MarkAsSent
    <3>2. /\ sender' = [sender EXCEPT !.marked = sender'.marked, !.i = sender.i + 1,
                                      !.pc = sender'.pc]
          /\ sender'.pc \in {"mark", "commit"}
      BY <1>1, <1>11 DEF MarkAsSent, EventsInv, EventsType, SenderRow
    <3>3. sender'.items = sender.items
      BY <1>1, <3>2 DEF EventsInv, EventsType, SenderRow
    <3> QED  BY <3>1, <3>2, <3>3 DEF consumerVars, Sent, Rows
  <2> QED  BY <1>5, <2>1 DEF OnceOK
<1>12. CASE CommitMarks /\ UNCHANGED consumerVars
  <2>1. /\ \A d \in Dbs \ {SenderDb} : outbox'[d] = outbox[d]
        /\ DOMAIN outbox'[SenderDb] = DOMAIN outbox[SenderDb]
        /\ \A e \in DOMAIN outbox[SenderDb] :
             outbox'[SenderDb][e] = IF e \in sender.marked THEN "completed"
                                                           ELSE outbox[SenderDb][e]
        /\ ToSet(sender.items) \subseteq sender.marked
        /\ UNCHANGED <<topic, faults>>
    BY <1>1, <1>12, CommitMarksEffect
  <2>2. OnceOK /\ position' = position /\ log' = log /\ topic' = topic /\ Sent' = Sent
    BY <1>5, <1>12, <2>1 DEF consumerVars, Sent
  <2>3. Rows' = Rows
    BY <2>1 DEF Rows
  <2>4. ASSUME NEW db \in Dbs, NEW e \in DOMAIN outbox'[db], e \in Sent
        PROVE  outbox'[db][e] = "completed"
    <3>1. e \in DOMAIN outbox[db]
      BY <1>2, <2>1, <2>4
    <3>2. CASE outbox[db][e] = "completed"
      BY <1>2, <2>1, <3>1, <3>2
    <3>3. CASE e \in ToSet(sender.items)
      <4>1. e \in DOMAIN outbox[SenderDb]
        BY <1>1, <3>3 DEF EventsInv, BatchOK, ToSet
      <4>2. db = SenderDb
        BY <1>1, <1>2, <3>1, <4>1, OneDbOfEvent
      <4> QED  BY <2>1, <3>3, <4>1, <4>2
    <3> QED  BY <2>2, <2>4, <3>1, <3>2, <3>3 DEF OnceOK
  <2> QED  BY <2>2, <2>3, <2>4 DEF OnceOK
<1>13. ASSUME NEW q \in Partitions, Consume(q) PROVE OnceOK'
  <2> DEFINE n == position[q] + 1
             m == topic[q][n]
  <2>1. /\ outbox' = outbox /\ topic' = topic /\ sender' = sender /\ faults' = faults
        /\ position' = [position EXCEPT ![q] = n]
        /\ log' = Append(log, m)
        /\ Sent' = Sent /\ Rows' = Rows
    BY <1>13 DEF Consume, outboxVars, Sent, Rows
  <2>2. n \in 1 .. Len(topic[q]) /\ n \in DOMAIN topic[q]
    BY <1>2, <1>13 DEF Consume
  <2>3. m \in AllEvents
    BY <1>2, <2>2
  <2>4. OnceOK
    BY <1>5, <2>1
  <2>5. ASSUME NEW k \in DOMAIN log, log[k] = m PROVE FALSE
    <3>1. PICK p \in Partitions : \E j \in 1 .. position[p] : log[k] = topic[p][j]
      BY <2>4 DEF OnceOK
    <3>2. PICK j \in 1 .. position[p] : log[k] = topic[p][j]
      BY <3>1
    <3>3. j \in DOMAIN topic[p]
      BY <1>2
    <3>4. p = q /\ j = n
      <4>1. topic[p][j] = topic[q][n]
        BY <2>5, <3>2
      <4> HIDE DEF n, m
      <4> QED  BY <2>2, <2>4, <3>3, <4>1 DEF OnceOK
    <3> QED  BY <1>2, <3>4
  <2> HIDE DEF m
  <2>6. /\ DOMAIN log = 1 .. Len(log) /\ Len(log) \in Nat
        /\ DOMAIN log' = 1 .. (Len(log) + 1)
        /\ \A i \in 1 .. Len(log) : log'[i] = log[i]
        /\ log'[Len(log) + 1] = m
    BY <1>2, <2>1, <2>3
  <2>7. \A j, k \in DOMAIN log' : log'[j] = log'[k] => j = k
    BY <2>4, <2>5, <2>6 DEF OnceOK
  <2>8. ASSUME NEW k \in DOMAIN log'
        PROVE  \E p \in Partitions : \E j \in 1 .. position'[p] : log'[k] = topic[p][j]
    <3>1. CASE k \in DOMAIN log
      <4>1. PICK p \in Partitions : \E j \in 1 .. position[p] : log[k] = topic[p][j]
        BY <2>4, <3>1 DEF OnceOK
      <4>2. 1 .. position[p] \subseteq 1 .. position'[p]
        BY <1>2, <2>1
      <4> QED  BY <2>6, <3>1, <4>1, <4>2
    <3>2. CASE k \notin DOMAIN log
      <4>1. log'[k] = m
        BY <2>6, <3>2
      <4>2. position'[q] = n /\ n \in 1 .. n
        BY <1>2, <2>1
      <4> QED  BY <4>1, <4>2 DEF m
    <3> QED  BY <3>1, <3>2
  <2> QED  BY <2>1, <2>4, <2>7, <2>8 DEF OnceOK
<1>14. CASE UNCHANGED vars \/ \E p \in Partitions : AutoCommit(p)
  <2>1. UNCHANGED <<outbox, topic, sender, faults, position, log>>
    BY <1>14 DEF AutoCommit, vars, outboxVars, consumerVars
  <2>2. Sent' = Sent /\ Rows' = Rows
    BY <2>1 DEF Sent, Rows
  <2> QED  BY <1>5, <2>1, <2>2 DEF OnceOK
<1>15. CASE \E p \in Partitions : Reassign(p)
  BY <1>3, <1>4, <1>15 DEF Reassign
<1> QED
  BY <1>1, <1>6, <1>7, <1>8, <1>9, <1>10, <1>11, <1>12, <1>13, <1>14, <1>15, EventsSteps

\* While nothing fails no event is sent or logged twice, for any databases, orders
\* and partitions, and whatever the orders do meanwhile: each tick reads only rows
\* that no earlier batch has marked (RetrieveEvents, MarkAllAsSent).
THEOREM LoggedOnlyOnce == Spec => []LoggedOnceWithoutFaults
<1>1. Init => OnceInv
  <2> SUFFICES ASSUME Init PROVE OnceInv
    OBVIOUS
  <2>1. /\ \A p \in Partitions : DOMAIN topic[p] = {}
        /\ \A db \in Dbs : DOMAIN outbox[db] = {}
        /\ DOMAIN log = {}
    BY DEF Init, OutboxInit
  <2>2. Sent = {}
    BY <2>1 DEF Sent, ToSet
  <2> QED  BY <2>1, <2>2, EventsInit DEF OnceInv, OnceOK
<1>2. OnceInv => LoggedOnceWithoutFaults
  BY DEF OnceInv, OnceOK, LoggedOnceWithoutFaults
<1> QED  BY <1>1, <1>2, OnceNext, PTL DEF Spec
=============================================================================
