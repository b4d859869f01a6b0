---------------------------- MODULE OrderEvents -----------------------------
(***************************************************************************)
(* From a committed order event to a line in the notifier's log: the       *)
(* outbox of LOMS, the Kafka topic, and the notifier's consumer group.     *)
(* Each partition is claimed by one notifier instance, which logs a        *)
(* message, marks its offset, and has the marked offset committed from     *)
(* time to time (autocommit).                                              *)
(***************************************************************************)
EXTENDS Outbox

VARIABLES
    position,   \* partition -> messages its claim has handed over
    committed,  \* partition -> offset stored in Kafka
    log         \* messages in the order they were logged, by any instance

consumerVars == <<position, committed, log>>
vars == <<outboxVars, consumerVars>>

Init ==
    /\ OutboxInit
    /\ position = [p \in Partitions |-> 0]
    /\ committed = [p \in Partitions |-> 0]
    /\ log = <<>>

\* ConsumeClaim: the message is logged, then marked.
Consume(p) ==
    /\ position[p] < Len(topic[p])
    /\ log' = Append(log, topic[p][position[p] + 1])
    /\ position' = [position EXCEPT ![p] = @ + 1]
    /\ UNCHANGED <<outboxVars, committed>>

\* Mutant: the offset is marked before the message is logged.
AutoCommitAhead(p) ==
    /\ position[p] < Len(topic[p])
    /\ committed' = [committed EXCEPT ![p] = position[p] + 1]
    /\ UNCHANGED <<outboxVars, position, log>>

\* The autocommit timer, and the flush when a claim ends in order.
AutoCommit(p) ==
    /\ committed[p] # position[p]
    /\ committed' = [committed EXCEPT ![p] = position[p]]
    /\ UNCHANGED <<outboxVars, position, log>>

\* An instance dies, perhaps between the log line and the mark; whoever gets
\* the partition next starts at the committed offset.
Reassign(p) ==
    /\ position[p] # committed[p]
    /\ Fault
    /\ position' = [position EXCEPT ![p] = committed[p]]
    /\ UNCHANGED <<outbox, sender, topic, committed, log>>

Next ==
    \/ Orders /\ UNCHANGED consumerVars
    \/ SenderStep /\ UNCHANGED consumerVars
    \/ SenderFault /\ UNCHANGED consumerVars
    \/ \E p \in Partitions : Consume(p) \/ AutoCommit(p) \/ Reassign(p)

Spec == Init /\ [][Next]_vars

\* The ticker keeps firing and the sender keeps running; a claim hands over
\* what is in its partition.  Nobody has to place or pay orders.
FairSpec ==
    /\ Spec
    /\ WF_vars(SenderStep /\ UNCHANGED consumerVars)
    /\ \A p \in Partitions : WF_vars(Consume(p))
-----------------------------------------------------------------------------
Sent == UNION {ToSet(topic[p]) : p \in Partitions}
Rows == UNION {DOMAIN outbox[db] : db \in Dbs}

TypeOK ==
    /\ \A db \in Dbs : /\ DOMAIN outbox[db] \subseteq Events(db)
                       /\ \A e \in DOMAIN outbox[db] : outbox[db][e] \in {"awaiting", "completed"}
    /\ sender.pc \in {"wait", "retrieve", "send", "mark", "commit"}
    /\ sender.pool \in DOMAIN Pools
    /\ sender.marked \subseteq Rows
    /\ ToSet(sender.items) \subseteq Events(SenderDb)
    /\ sender.pc = "mark" => sender.i \in DOMAIN sender.items
    /\ sender.nextPartition \in Partitions
    /\ DOMAIN topic = Partitions
    /\ faults \in 0 .. MaxFaults
    /\ \A p \in Partitions : {position[p], committed[p]} \subseteq 0 .. Len(topic[p])

\* At least once, first half: an event is marked sent only when Kafka has it.
CompletedWasSent ==
    \A db \in Dbs : \A e \in DOMAIN outbox[db] :
        outbox[db][e] = "completed" => e \in Sent

\* At least once, second half: an offset is committed only for messages that
\* some instance has logged.
CommittedWasLogged ==
    \A p \in Partitions : \A k \in 1 .. committed[p] : topic[p][k] \in ToSet(log)

\* Duplicates have a cause: while nothing fails every event is sent and logged
\* at most once, although the sender reads the table again on every tick.
LoggedOnceWithoutFaults ==
    faults = 0 =>
        \A j, k \in DOMAIN log : log[j] = log[k] => j = k

\* Every committed event is logged in the end.
EventsAreLogged ==
    \A db \in Dbs : \A e \in Events(db) :
        e \in DOMAIN outbox[db] ~> e \in ToSet(log)
=============================================================================
