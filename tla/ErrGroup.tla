------------------------------ MODULE ErrGroup ------------------------------
(***************************************************************************)
(* The error group of cart (infra/errgrp): a caller launches NTasks        *)
(* callbacks with Go, one after the other, and calls Wait.  Every callback *)
(* runs in a goroutine that sends its result to a channel of capacity one, *)
(* decrements a counter, and closes the channel if it then reads zero; the *)
(* decrement and the read are two steps.  Sending on a closed channel, and *)
(* closing it twice, panic and end the process.                            *)
(***************************************************************************)
EXTENDS Integers, Sequences, FiniteSets

CONSTANT NTasks     \* callbacks the caller launches

ASSUME NTasksAssumption == NTasks \in Nat \ {0}

VARIABLES
    caller,     \* "launching", "waiting", "returned", "dead"
    launched,   \* calls of Go so far
    task,       \* goroutine -> its next step
    result,     \* goroutine -> what its callback returned
    errc,       \* the channel: [buf, open]
    count,      \* the atomic counter
    firstErr,   \* the variable of Wait
    cancelled,  \* the group's context is done
    early       \* history: a callback returned before the last was launched

vars == <<caller, launched, task, result, errc, count, firstErr, cancelled, early>>

Tasks == 1 .. NTasks
Nil == 0                  \* an error is the number of the task that met it
Results == Nil .. NTasks

TaskStates == {"unborn", "running", "sending", "sent", "decremented", "closing", "done", "dead"}

Init ==
    /\ caller = "launching"
    /\ launched = 0
    /\ task = [t \in Tasks |-> "unborn"]
    /\ result = [t \in Tasks |-> Nil]
    /\ errc = [buf |-> <<>>, open |-> TRUE]
    /\ count = 0
    /\ firstErr = Nil
    /\ cancelled = FALSE
    /\ early = FALSE

Become(t, state) == task' = [task EXCEPT ![t] = state]

\* Mutant: the counter is left to the goroutine, which forgets it.
GoUncounted ==
    /\ caller = "launching"
    /\ launched < NTasks
    /\ launched' = launched + 1
    /\ Become(launched + 1, "running")
    /\ UNCHANGED <<caller, result, errc, count, firstErr, cancelled, early>>

\* Go: the counter first, then the goroutine.
Go ==
    /\ caller = "launching"
    /\ launched < NTasks
    /\ launched' = launched + 1
    /\ count' = count + 1
    /\ Become(launched + 1, "running")
    /\ UNCHANGED <<caller, result, errc, firstErr, cancelled, early>>

\* The caller has launched everything and enters Wait.
EnterWait ==
    /\ caller = "launching"
    /\ launched = NTasks
    /\ caller' = "waiting"
    /\ UNCHANGED <<launched, task, result, errc, count, firstErr, cancelled, early>>

\* The callback returns, with success or with an error.
Callback(t) ==
    /\ task[t] = "running"
    /\ \E r \in {Nil, t} : result' = [result EXCEPT ![t] = r]
    /\ early' = (early \/ launched < NTasks)
    /\ Become(t, "sending")
    /\ UNCHANGED <<caller, launched, errc, count, firstErr, cancelled>>

\* errc <- clb(): waits for room in the channel.
Send(t) ==
    /\ task[t] = "sending"
    /\ errc.open
    /\ Len(errc.buf) < 1
    /\ errc' = [errc EXCEPT !.buf = Append(@, result[t])]
    /\ Become(t, "sent")
    /\ UNCHANGED <<caller, launched, result, count, firstErr, cancelled, early>>

Decrement(t) ==
    /\ task[t] = "sent"
    /\ count' = count - 1
    /\ Become(t, "decremented")
    /\ UNCHANGED <<caller, launched, result, errc, firstErr, cancelled, early>>

\* Mutant: off by one.
LoadEarly(t) ==
    /\ task[t] = "decremented"
    /\ Become(t, IF count <= 1 THEN "closing" ELSE "done")
    /\ UNCHANGED <<caller, launched, result, errc, count, firstErr, cancelled, early>>

\* count.Load() == 0, whoever brought it there.
Load(t) ==
    /\ task[t] = "decremented"
    /\ Become(t, IF count = 0 THEN "closing" ELSE "done")
    /\ UNCHANGED <<caller, launched, result, errc, count, firstErr, cancelled, early>>

Close(t) ==
    /\ task[t] = "closing"
    /\ errc.open
    /\ errc' = [errc EXCEPT !.open = FALSE]
    /\ Become(t, "done")
    /\ UNCHANGED <<caller, launched, result, count, firstErr, cancelled, early>>

\* A send on the closed channel, or a second close: the process dies, with
\* every goroutine in it.
Panic(t) ==
    /\ task[t] \in {"sending", "closing"}
    /\ ~ errc.open
    /\ caller' = "dead"
    /\ task' = [x \in Tasks |-> "dead"]
    /\ UNCHANGED <<launched, result, errc, count, firstErr, cancelled, early>>

\* Mutant: Wait keeps the last result, not the first error.
ReceiveLast ==
    /\ caller = "waiting"
    /\ errc.buf # <<>>
    /\ errc' = [errc EXCEPT !.buf = Tail(@)]
    /\ firstErr' = Head(errc.buf)
    /\ cancelled' = (cancelled \/ firstErr' # Nil)
    /\ UNCHANGED <<caller, launched, task, result, count, early>>

\* An iteration of Wait: the first error is kept, and cancels the others.
Receive ==
    /\ caller = "waiting"
    /\ errc.buf # <<>>
    /\ errc' = [errc EXCEPT !.buf = Tail(@)]
    /\ IF firstErr = Nil /\ Head(errc.buf) # Nil
       THEN firstErr' = Head(errc.buf) /\ cancelled' = TRUE
       ELSE UNCHANGED <<firstErr, cancelled>>
    /\ UNCHANGED <<caller, launched, task, result, count, early>>

\* The channel is closed and drained.
Return ==
    /\ caller = "waiting"
    /\ errc = [buf |-> <<>>, open |-> FALSE]
    /\ caller' = "returned"
    /\ UNCHANGED <<launched, task, result, errc, count, firstErr, cancelled, early>>

CallerStep == Go \/ EnterWait \/ Receive \/ Return

TaskStep(t) ==
    Callback(t) \/ Send(t) \/ Decrement(t) \/ Load(t) \/ Close(t) \/ Panic(t)

Next == CallerStep \/ \E t \in Tasks : TaskStep(t)

Spec == Init /\ [][Next]_vars
-----------------------------------------------------------------------------
TypeOK ==
    /\ caller \in {"launching", "waiting", "returned", "dead"}
    /\ launched \in 0 .. NTasks
    /\ task \in [Tasks -> TaskStates]
    /\ result \in [Tasks -> Results]
    /\ errc \in [buf : Seq(Results), open : BOOLEAN]
    /\ Len(errc.buf) <= 1
    /\ count \in 0 .. NTasks
    /\ firstErr \in Results
    /\ cancelled \in BOOLEAN
    /\ early \in BOOLEAN

Delivered == {"sent", "decremented", "closing", "done"}

\* Wait drops no error: when it returns nil, nothing but nil has been sent.
NoErrorIsDropped ==
    caller = "returned" /\ firstErr = Nil =>
        \A t \in Tasks : task[t] \in Delivered => result[t] = Nil

\* Wait waits for every goroutine launched (group.go:46).  Its callers rely on
\* it: SaveProductItem adds the item once both checks have passed.
WaitCoversAll ==
    caller = "returned" => \A t \in Tasks : task[t] \in Delivered

\* ... and it does so when no callback returns before the last is launched,
\* which alone lets the counter reach zero too early.
WaitCoversAllUnlessEarly == ~ early => WaitCoversAll
=============================================================================
