------------------------------- MODULE Outbox -------------------------------
(***************************************************************************)
(* The transactional outbox of LOMS.  Order transactions commit rows to    *)
(* orders_events; the sender (notifierservice.sendEvents) visits the       *)
(* databases one after the other on every tick, and in one transaction     *)
(* reads the rows that await sending, sends them to Kafka and marks them.  *)
(* The transactions of LomsService appear here as what they commit.        *)
(***************************************************************************)
EXTENDS Integers, SequencesExt

CONSTANTS
    Pools,         \* the sender's list of databases, in its order
    FinalStatuses, \* statuses that pays and cancels give
    OrderIds,      \* db -> ids of the orders placed there
    NPartitions,   \* partitions of the topic loms.order-events
    MaxFaults,     \* bound: faults that may happen in all
    QuietOrders    \* TRUE: no order of a database changes while the sender's
                   \* transaction is open there

VARIABLES
    outbox,  \* db -> committed rows: event -> "awaiting" or "completed"
    sender,  \* the notifier goroutine
    topic,   \* partition -> messages
    faults   \* faults so far

outboxVars == <<outbox, sender, topic, faults>>

Dbs == ToSet(Pools)
Partitions == 0 .. (NPartitions - 1)

\* Two shards on one database make the sender visit it twice.
ASSUME PoolsAssumption == Pools \in Seq(Dbs) /\ Pools # <<>>
ASSUME OrderIdsAssumption ==
    /\ DOMAIN OrderIds = Dbs
    /\ \A a, b \in Dbs : a # b => OrderIds[a] \cap OrderIds[b] = {}
ASSUME FinalStatusesAssumption == FinalStatuses \subseteq {"paid", "canceled"}
ASSUME PartitionsAssumption == NPartitions \in Nat \ {0}
ASSUME MaxFaultsAssumption == MaxFaults \in Nat
ASSUME QuietOrdersAssumption == QuietOrders \in BOOLEAN

New == "new"
Awaiting == "awaiting"
Statuses == {New, Awaiting} \cup FinalStatuses

\* An event, and the message made of it, is a pair <<order id, status>>.
Events(db) == OrderIds[db] \X Statuses

IdleSender == [pc |-> "wait", pool |-> 1, items |-> <<>>, i |-> 1, marked |-> {},
               nextPartition |-> 0]

OutboxInit ==
    /\ outbox = [db \in Dbs |-> <<>>]
    /\ sender = IdleSender
    /\ topic = [p \in Partitions |-> <<>>]
    /\ faults = 0

\* The rows that Publish adds, awaiting to be sent.
AddEvents(db, added) ==
    outbox' = [outbox EXCEPT ![db] =
                 [e \in DOMAIN @ \cup added |->
                    IF e \in added THEN "awaiting" ELSE @[e]]]

\* A create commits the events "new" and "awaiting" together.
CommitCreate(db, id) ==
    /\ <<id, New>> \notin DOMAIN outbox[db]
    /\ AddEvents(db, {<<id, New>>, <<id, Awaiting>>})
    /\ UNCHANGED <<sender, topic, faults>>

SenderDb == Pools[sender.pool]

\* A pay or a cancel commits its event; the primary key admits each once.
CommitFinal(db, id, status) ==
    /\ <<id, Awaiting>> \in DOMAIN outbox[db]
    /\ <<id, status>> \notin DOMAIN outbox[db]
    /\ QuietOrders => ~ (sender.pc \in {"send", "mark", "commit"} /\ SenderDb = db)
    /\ AddEvents(db, {<<id, status>>})
    /\ UNCHANGED <<sender, topic, faults>>
-----------------------------------------------------------------------------
Fault == faults < MaxFaults /\ faults' = faults + 1

\* The transaction of the present pool is over; partition is the next one the
\* partitioner deals to.
Turn(pc, pool, partition) ==
    sender' = [IdleSender EXCEPT !.pc = pc, !.pool = pool, !.nextPartition = partition]

\* sendEvents returns; the next tick starts again from the first pool.
Abort == Turn("wait", 1, sender.nextPartition)

\* Mutant: the loop over the pools ends after the first one.
NextPoolNone == Abort

NextPool ==
    IF sender.pool = Len(Pools) THEN Abort
    ELSE Turn("retrieve", sender.pool + 1, sender.nextPartition)

\* The ticker of Run fires.
Tick ==
    /\ sender.pc = "wait"
    /\ Turn("retrieve", 1, sender.nextPartition)
    /\ UNCHANGED <<outbox, topic, faults>>

\* Mutant: the query does not ask for the status.
ScheduledWhateverStatus == DOMAIN outbox[SenderDb]

Scheduled == {e \in DOMAIN outbox[SenderDb] : outbox[SenderDb][e] = "awaiting"}

\* RetrieveEvents: the query has no ORDER BY, rows come in any order.
Retrieve ==
    /\ sender.pc = "retrieve"
    /\ IF Scheduled = {} THEN NextPool
       ELSE \E items \in SetToSeqs(Scheduled) :
              sender' = [sender EXCEPT !.pc = "send", !.items = items]
    /\ UNCHANGED <<outbox, topic, faults>>

\* A read that fails leaves items empty, and its error is not looked at.
RetrieveFails ==
    /\ sender.pc = "retrieve"
    /\ Fault
    /\ NextPool
    /\ UNCHANGED <<outbox, topic>>

\* Begin fails: sendEvents gives up the pools that are left.
BeginFails ==
    /\ sender.pc = "retrieve"
    /\ Fault
    /\ Abort
    /\ UNCHANGED <<outbox, topic>>

\* The round-robin partitioner deals the batch out, whatever the keys; the
\* messages of the positions in arrived reach the topic.
Deal(arrived) ==
    LET share(p) == {k \in arrived : (sender.nextPartition + k - 1) % NPartitions = p}
        inOrder(p) == {s \in SetToSeqs(share(p)) :
                         \A i, j \in DOMAIN s : i < j => s[i] < s[j]}
    IN \E dealt \in [Partitions -> UNION {inOrder(p) : p \in Partitions}] :
         /\ \A p \in Partitions : dealt[p] \in inOrder(p)
         /\ topic' = [p \in Partitions |->
                       topic[p] \o [j \in DOMAIN dealt[p] |-> sender.items[dealt[p][j]]]]

PartitionAfterBatch == (sender.nextPartition + Len(sender.items)) % NPartitions

\* SendMessages of the sync producer: all acknowledged.
Send ==
    /\ sender.pc = "send"
    /\ Deal(DOMAIN sender.items)
    /\ sender' = [sender EXCEPT !.pc = "mark", !.nextPartition = PartitionAfterBatch]
    /\ UNCHANGED <<outbox, faults>>

\* Mutant: the error of SendMessages is not looked at.
SendFailsUnseen ==
    /\ sender.pc = "send"
    /\ Fault
    /\ \E arrived \in SUBSET DOMAIN sender.items : Deal(arrived)
    /\ sender' = [sender EXCEPT !.pc = "mark", !.nextPartition = PartitionAfterBatch]
    /\ UNCHANGED outbox

\* SendMessages fails after some messages arrived; the rows stay scheduled.
SendFails ==
    /\ sender.pc = "send"
    /\ Fault
    /\ \E arrived \in SUBSET DOMAIN sender.items : Deal(arrived)
    /\ Turn("wait", 1, PartitionAfterBatch)
    /\ UNCHANGED outbox

\* Mutant: the loop runs once too often.
MarkAsSentOneMore ==
    /\ sender.pc = "mark"
    /\ sender' = [sender EXCEPT
          !.marked = @ \cup {e \in DOMAIN outbox[SenderDb] : e[1] = sender.items[sender.i][1]},
          !.i = @ + 1,
          !.pc = IF sender.i > Len(sender.items) THEN "commit" ELSE "mark"]
    /\ UNCHANGED <<outbox, topic, faults>>

\* MarkAsSent of the next item: UpdateEvent takes the order id alone, so it
\* marks every row of that order that is committed by now.
MarkAsSent ==
    LET id == sender.items[sender.i][1] IN
    /\ sender.pc = "mark"
    /\ sender' = [sender EXCEPT
          !.marked = @ \cup {e \in DOMAIN outbox[SenderDb] : e[1] = id},
          !.i = @ + 1,
          !.pc = IF sender.i = Len(sender.items) THEN "commit" ELSE "mark"]
    /\ UNCHANGED <<outbox, topic, faults>>

\* An UPDATE fails: rollback, after the messages have been sent.
MarkFails ==
    /\ sender.pc = "mark"
    /\ Fault
    /\ Abort
    /\ UNCHANGED <<outbox, topic>>

\* COMMIT of the marks, and on to the next pool.
CommitMarks ==
    /\ sender.pc = "commit"
    /\ outbox' = [outbox EXCEPT ![SenderDb] =
                    [e \in DOMAIN @ |-> IF e \in sender.marked THEN "completed" ELSE @[e]]]
    /\ NextPool
    /\ UNCHANGED <<topic, faults>>

\* WithTransaction ignores the error of COMMIT; the marks are lost.
CommitMarksLost ==
    /\ sender.pc = "commit"
    /\ Fault
    /\ NextPool
    /\ UNCHANGED <<outbox, topic>>

\* LOMS dies and is started again: its transaction is rolled back, and a new
\* producer deals from the first partition.
Restart ==
    /\ sender.pc # "wait"
    /\ Fault
    /\ sender' = IdleSender
    /\ UNCHANGED <<outbox, topic>>

Orders ==
    \E db \in Dbs : \E id \in OrderIds[db] :
        CommitCreate(db, id) \/ \E status \in FinalStatuses : CommitFinal(db, id, status)

SenderStep == Tick \/ Retrieve \/ Send \/ MarkAsSent \/ CommitMarks

SenderFault ==
    \/ RetrieveFails \/ BeginFails \/ SendFails \/ MarkFails \/ CommitMarksLost \/ Restart
=============================================================================
