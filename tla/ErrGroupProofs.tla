--------------------------- MODULE ErrGroupProofs ---------------------------
(***************************************************************************)
(* The error group for any number of tasks: no error is dropped whatever   *)
(* the timing, and Wait covers every task if none returns before the last  *)
(* is launched.                                                            *)
(* The key is what the counter counts: the goroutines that have not        *)
(* decremented it.                                                         *)
(***************************************************************************)
EXTENDS ErrGroup, FiniteSetTheorems, SequenceTheorems, TLAPS

Counted == {t \in Tasks : task[t] \in {"running", "sending", "sent"}}

\* The counter is exact, and goroutines are born in the order of Go.
CountOK ==
    caller # "dead" =>
        /\ count = Cardinality(Counted)
        /\ \A t \in Tasks : task[t] = "unborn" <=> t > launched
        /\ caller # "launching" => launched = NTasks

\* An error that was sent is in the channel, or Wait has one already.
ErrorsOK ==
    caller # "dead" =>
        \A t \in Tasks : task[t] \in Delivered /\ result[t] # Nil =>
            firstErr # Nil \/ \E i \in DOMAIN errc.buf : errc.buf[i] # Nil

\* If none returned early, whoever closes the channel does so after the last.
ClosingOK ==
    caller # "dead" =>
        /\ launched < NTasks => \A t \in Tasks : task[t] \in {"unborn", "running"}
        /\ (~ errc.open \/ \E t \in Tasks : task[t] = "closing") =>
               count = 0 /\ launched = NTasks

\* Wait returns once the channel is closed and drained, and so it stays.
ReturnOK == caller = "returned" => errc.buf = <<>> /\ ~ errc.open

\* Goroutines are dead exactly when the process is.
DeadOK == \A t \in Tasks : task[t] = "dead" <=> caller = "dead"

Inv == TypeOK /\ CountOK /\ DeadOK /\ ErrorsOK /\ ReturnOK /\ (~ early => ClosingOK)

\* The counter never exceeds the number of tasks.
LEMMA CountedBound ==
    /\ IsFiniteSet(Counted)
    /\ Cardinality(Counted) \in 0 .. NTasks
<1>1. IsFiniteSet(Tasks) /\ Cardinality(Tasks) = NTasks
  BY FS_Interval, NTasksAssumption DEF Tasks
<1>2. Counted \subseteq Tasks
  BY DEF Counted
<1>3. IsFiniteSet(Counted) /\ Cardinality(Counted) <= Cardinality(Tasks)
  BY <1>1, <1>2, FS_Subset
<1>4. Cardinality(Counted) \in Nat
  BY <1>3, FS_CardinalityType
<1> QED
  BY <1>1, <1>3, <1>4, NTasksAssumption

\* Before the first Go nothing is counted.
LEMMA InitInv == Init => Inv
<1> SUFFICES ASSUME Init PROVE Inv
  OBVIOUS
<1>1. Counted = {}
  BY DEF Init, Counted
<1>2. count = Cardinality(Counted)
  BY <1>1, FS_EmptySet DEF Init
<1>3. TypeOK
  <2>1. errc.buf = <<>> /\ errc.open = TRUE /\ errc \in [buf : Seq(Results), open : BOOLEAN]
    BY DEF Init
  <2>2. cancelled \in BOOLEAN /\ early \in BOOLEAN
    BY DEF Init
  <2> QED
    BY <2>1, <2>2, NTasksAssumption DEF Init, TypeOK, Tasks, TaskStates, Results, Nil
<1>4. CountOK
  BY <1>2, NTasksAssumption DEF Init, CountOK, Tasks
<1>5. DeadOK /\ ErrorsOK /\ ReturnOK /\ ClosingOK
  BY DEF Init, DeadOK, ErrorsOK, ReturnOK, ClosingOK, Delivered
<1> QED
  BY <1>3, <1>4, <1>5 DEF Inv

\* Go: one more goroutine, counted before it runs.
LEMMA GoStep == Inv /\ Go => Inv'
<1> SUFFICES ASSUME Inv, Go PROVE Inv'
  OBVIOUS
<1> DEFINE n == launched + 1
<1>1. n \in Tasks /\ task[n] = "unborn" /\ caller = "launching" /\ caller' = caller
  BY NTasksAssumption DEF Inv, TypeOK, CountOK, Go, Tasks
<1>2. task' = [task EXCEPT ![n] = "running"] /\ task \in [Tasks -> TaskStates]
  BY DEF Inv, TypeOK, Go, Become
<1>3. Counted' = Counted \cup {n} /\ n \notin Counted
  BY <1>1, <1>2 DEF Counted
<1>4. count' = Cardinality(Counted') /\ count' \in 0 .. NTasks
  <2>1. Cardinality(Counted') = Cardinality(Counted) + 1
    BY <1>3, CountedBound, FS_AddElement
  <2>2. count' = count + 1 /\ count = Cardinality(Counted)
    BY <1>1 DEF Go, Inv, CountOK
  <2>3. (IsFiniteSet(Counted) /\ Cardinality(Counted) \in 0 .. NTasks)'
    BY CountedBound, PTL
  <2> QED
    BY <2>1, <2>2, <2>3
<1>5. TypeOK'
  BY <1>1, <1>2, <1>4, NTasksAssumption DEF Inv, TypeOK, Go, Tasks, TaskStates
<1>6. CountOK'
  <2>1. \A t \in Tasks : task'[t] = "unborn" <=> t > launched'
    BY <1>1, <1>2 DEF Inv, TypeOK, CountOK, Go, Tasks
  <2> QED
    BY <1>1, <1>4, <2>1 DEF CountOK
<1>7. ErrorsOK'
  BY <1>1, <1>2 DEF Inv, ErrorsOK, Go, Delivered
<1>8. ReturnOK' /\ DeadOK'
  BY <1>1, <1>2 DEF Inv, ReturnOK, DeadOK
<1>9. ~ early' => ClosingOK'
  <2>1. launched < NTasks /\ launched \in Nat /\ launched' \in Nat /\ NTasks \in Nat
    BY NTasksAssumption DEF Go, Inv, TypeOK
  <2>2. UNCHANGED <<caller, errc, early>> /\ launched' = launched + 1
    BY DEF Go
  <2>3. ~ early => /\ \A t \in Tasks : task[t] \in {"unborn", "running"}
                   /\ errc.open
    BY <1>1, <2>1 DEF Inv, ClosingOK
  <2>4. ~ early => \A t \in Tasks : task'[t] \in {"unborn", "running"}
    BY <1>2, <2>3
  <2> QED
    BY <2>2, <2>3, <2>4 DEF ClosingOK
<1> QED
  BY <1>5, <1>6, <1>7, <1>8, <1>9 DEF Inv

\* The caller's other steps leave goroutines and counter alone.
LEMMA CallerStepInv == Inv /\ (EnterWait \/ Receive \/ Return) => Inv'
<1> SUFFICES ASSUME Inv, EnterWait \/ Receive \/ Return PROVE Inv'
  OBVIOUS
<1>1. UNCHANGED <<launched, task, result, count, early>> /\ caller # "dead" /\ caller' # "dead"
  BY DEF EnterWait, Receive, Return
<1>2. Counted' = Counted
  BY <1>1 DEF Counted
<1>3. CountOK' /\ DeadOK'
  BY <1>1, <1>2 DEF Inv, CountOK, DeadOK, EnterWait, Receive, Return
<1>4. CASE EnterWait
  BY <1>1, <1>3, <1>4 DEF EnterWait, Inv, TypeOK, ErrorsOK, ReturnOK, ClosingOK
<1>5. CASE Receive
  <2>1. errc.buf \in Seq(Results) /\ errc.buf # <<>> /\ Len(errc.buf) = 1
    <3>1. errc.buf \in Seq(Results) /\ errc.buf # <<>> /\ Len(errc.buf) <= 1
      BY <1>5 DEF Inv, TypeOK, Receive
    <3>2. Len(errc.buf) # 0 /\ Len(errc.buf) \in Nat
      BY <3>1, EmptySeq, LenProperties
    <3>3. \A n \in Nat : n <= 1 /\ n # 0 => n = 1
      OBVIOUS
    <3> QED
      BY <3>1, <3>2, <3>3, Zenon
  <2>2. Head(errc.buf) = errc.buf[1] /\ errc.buf[1] \in Results /\ Tail(errc.buf) = <<>>
    <3>1. Head(errc.buf) \in Results /\ Tail(errc.buf) \in Seq(Results)
      BY <2>1, HeadTailProperties
    <3>2. Len(Tail(errc.buf)) = 0
      BY <2>1, HeadTailProperties
    <3>3. Tail(errc.buf) = <<>>
      BY <3>1, <3>2, EmptySeq
    <3>4. Head(errc.buf) = errc.buf[1]
      OBVIOUS
    <3> QED
      BY <3>1, <3>3, <3>4
  <2>3. errc' = [buf |-> <<>>, open |-> errc.open]
    BY <1>5, <2>2 DEF Inv, TypeOK, Receive
  <2>4. TypeOK'
    <3>1. errc' \in [buf : Seq(Results), open : BOOLEAN] /\ Len(errc'.buf) <= 1
      BY <2>3 DEF Inv, TypeOK
    <3>2. firstErr' \in Results /\ cancelled' \in BOOLEAN
      BY <1>5, <2>2 DEF Inv, TypeOK, Receive
    <3> QED
      BY <1>1, <1>5, <3>1, <3>2 DEF Inv, TypeOK, Receive
  <2>5. ErrorsOK'
    <3>1. firstErr # Nil => firstErr' # Nil
      BY <1>5 DEF Receive
    <3>2. (\E i \in DOMAIN errc.buf : errc.buf[i] # Nil) => firstErr' # Nil
      BY <1>5, <2>1, <2>2 DEF Receive
    <3> QED
      BY <1>1, <3>1, <3>2 DEF Inv, ErrorsOK
  <2>6. ReturnOK'
    BY <1>5 DEF Receive, ReturnOK
  <2>7. ~ early' => ClosingOK'
    BY <1>1, <1>5, <2>3 DEF Inv, ClosingOK, Receive
  <2> QED
    BY <1>3, <2>4, <2>5, <2>6, <2>7 DEF Inv
<1>6. CASE Return
  BY <1>1, <1>3, <1>6 DEF Return, Inv, TypeOK, ErrorsOK, ReturnOK, ClosingOK
<1> QED
  BY <1>4, <1>5, <1>6

\* A callback that returned is still counted.
LEMMA CallbackStep == ASSUME NEW t \in Tasks, Inv, Callback(t) PROVE Inv'
<1>1. task' = [task EXCEPT ![t] = "sending"] /\ task \in [Tasks -> TaskStates] /\ task[t] = "running"
  BY DEF Callback, Become, Inv, TypeOK
<1>2. UNCHANGED <<caller, launched, errc, count, firstErr, cancelled>>
  BY DEF Callback
<1>3. result' \in [Tasks -> Results] /\ \A x \in Tasks \ {t} : result'[x] = result[x]
  BY NTasksAssumption DEF Callback, Inv, TypeOK, Results, Tasks, Nil
<1>4. Counted' = Counted
  BY <1>1 DEF Counted
<1>5. TypeOK'
  <2>1. early' \in BOOLEAN
    BY DEF Callback
  <2> QED
    BY <1>1, <1>2, <1>3, <2>1 DEF Inv, TypeOK, TaskStates
<1>6. CountOK' /\ DeadOK'
  BY <1>1, <1>2, <1>4 DEF Inv, CountOK, DeadOK
<1>7. ErrorsOK'
  BY <1>1, <1>2, <1>3 DEF Inv, ErrorsOK, Delivered
<1>8. ReturnOK' /\ (~ early' => ClosingOK')
  <2>1. early' \in BOOLEAN /\ (~ early' => ~ early /\ ~ (launched < NTasks))
    BY DEF Callback, Inv, TypeOK
  <2> QED
    BY <1>1, <1>2, <2>1 DEF Inv, ReturnOK, ClosingOK
<1> QED
  BY <1>5, <1>6, <1>7, <1>8 DEF Inv

\* Sending puts the result where Wait will find it.
LEMMA SendStep == ASSUME NEW t \in Tasks, Inv, Send(t) PROVE Inv'
<1>1. task' = [task EXCEPT ![t] = "sent"] /\ task \in [Tasks -> TaskStates] /\ task[t] = "sending"
  BY DEF Send, Become, Inv, TypeOK
<1>2. UNCHANGED <<caller, launched, result, count, firstErr, cancelled, early>>
  BY DEF Send
<1>3. errc.buf = <<>> /\ errc.open = TRUE
  BY DEF Send, Inv, TypeOK
<1>4. errc' = [buf |-> <<result[t]>>, open |-> TRUE] /\ result[t] \in Results
  <2>1. Append(errc.buf, result[t]) = <<result[t]>>
    BY <1>3
  <2>2. errc' = [errc EXCEPT !.buf = <<result[t]>>]
    BY <2>1 DEF Send
  <2>3. errc = [buf |-> errc.buf, open |-> errc.open] /\ result[t] \in Results
    BY DEF Inv, TypeOK
  <2> QED
    BY <1>3, <2>2, <2>3
<1>5. Counted' = Counted
  BY <1>1 DEF Counted
<1>6. TypeOK'
  <2>1. errc' \in [buf : Seq(Results), open : BOOLEAN] /\ Len(errc'.buf) <= 1
    BY <1>4
  <2> QED
    BY <1>1, <1>2, <2>1 DEF Inv, TypeOK, TaskStates
<1>7. CountOK' /\ DeadOK'
  BY <1>1, <1>2, <1>5 DEF Inv, CountOK, DeadOK
<1>8. ErrorsOK'
  <2> SUFFICES ASSUME caller # "dead", NEW x \in Tasks, task'[x] \in Delivered, result[x] # Nil,
                      firstErr = Nil
               PROVE  \E i \in DOMAIN errc'.buf : errc'.buf[i] # Nil
    BY <1>2 DEF ErrorsOK, Delivered
  <2>1. x = t
    BY <1>1, <1>3 DEF Inv, ErrorsOK
  <2> QED
    BY <1>4, <2>1
<1>9. ReturnOK' /\ (~ early' => ClosingOK')
  <2>1. caller # "returned"
    BY <1>3 DEF Inv, ReturnOK
  <2>2. ~ early => ~ (launched < NTasks)
    BY <1>1 DEF Inv, ClosingOK, DeadOK
  <2> QED
    BY <1>1, <1>2, <1>3, <1>4, <2>1, <2>2 DEF Inv, ReturnOK, ClosingOK
<1> QED
  BY <1>6, <1>7, <1>8, <1>9 DEF Inv

\* Counting down: one goroutine less is counted.
LEMMA DecrementStep == ASSUME NEW t \in Tasks, Inv, Decrement(t) PROVE Inv'
<1>1. task' = [task EXCEPT ![t] = "decremented"] /\ task \in [Tasks -> TaskStates] /\ task[t] = "sent"
  BY DEF Decrement, Become, Inv, TypeOK
<1>2. UNCHANGED <<caller, launched, result, errc, firstErr, cancelled, early>>
  BY DEF Decrement
<1>3. caller # "dead" => count' = Cardinality(Counted')
  <2>1. Counted' = Counted \ {t} /\ t \in Counted
    BY <1>1 DEF Counted
  <2>2. Cardinality(Counted') = Cardinality(Counted) - 1
    BY <2>1, CountedBound, FS_RemoveElement
  <2> QED
    BY <2>2 DEF Decrement, Inv, CountOK
<1>4. caller # "dead"
  BY <1>1 DEF Inv, DeadOK
<1>5. count' \in 0 .. NTasks
  <2>1. (Cardinality(Counted) \in 0 .. NTasks)'
    BY CountedBound, PTL
  <2> QED
    BY <1>3, <1>4, <2>1
<1>6. TypeOK'
  BY <1>1, <1>2, <1>5 DEF Inv, TypeOK, TaskStates
<1>7. CountOK' /\ DeadOK'
  BY <1>1, <1>2, <1>3 DEF Inv, CountOK, DeadOK
<1>8. ErrorsOK' /\ ReturnOK'
  BY <1>1, <1>2 DEF Inv, ErrorsOK, Delivered, ReturnOK
<1>9. ~ early' => ClosingOK'
  <2>1. count > 0
    <3>1. t \in Counted /\ IsFiniteSet(Counted)
      BY <1>1, CountedBound DEF Counted
    <3>2. Cardinality(Counted) # 0
      BY <3>1, FS_EmptySet
    <3> QED
      BY <1>4, <3>2, CountedBound DEF Inv, CountOK
  <2>2. ~ early => errc.open /\ \A x \in Tasks : task[x] # "closing"
    BY <1>4, <2>1 DEF Inv, ClosingOK
  <2>3. ~ early => ~ (launched < NTasks)
    BY <1>1, <1>4 DEF Inv, ClosingOK
  <2> QED
    BY <1>1, <1>2, <2>2, <2>3 DEF ClosingOK
<1> QED
  BY <1>6, <1>7, <1>8, <1>9 DEF Inv

\* Reading the counter: only a goroutine that reads zero goes on to close.
LEMMA LoadStep == ASSUME NEW t \in Tasks, Inv, Load(t) PROVE Inv'
<1>1. /\ task' = [task EXCEPT ![t] = IF count = 0 THEN "closing" ELSE "done"]
      /\ task \in [Tasks -> TaskStates] /\ task[t] = "decremented"
  BY DEF Load, Become, Inv, TypeOK
<1>2. UNCHANGED <<caller, launched, result, errc, count, firstErr, cancelled, early>>
  BY DEF Load
<1>3. Counted' = Counted
  BY <1>1 DEF Counted
<1>4. TypeOK'
  BY <1>1, <1>2 DEF Inv, TypeOK, TaskStates
<1>5. CountOK' /\ DeadOK'
  BY <1>1, <1>2, <1>3 DEF Inv, CountOK, DeadOK
<1>6. ErrorsOK' /\ ReturnOK'
  BY <1>1, <1>2 DEF Inv, ErrorsOK, Delivered, ReturnOK
<1>7. ~ early' => ClosingOK'
  <2>1. caller # "dead"
    BY <1>1 DEF Inv, DeadOK
  <2>2. ~ early => launched = NTasks
    <3>1. ~ early => ~ (launched < NTasks)
      BY <1>1, <2>1 DEF Inv, ClosingOK
    <3> QED
      BY <3>1, NTasksAssumption DEF Inv, TypeOK
  <2> QED
    BY <1>1, <1>2, <2>1, <2>2 DEF Inv, ClosingOK
<1> QED
  BY <1>4, <1>5, <1>6, <1>7 DEF Inv

\* Closing the channel.
LEMMA CloseStep == ASSUME NEW t \in Tasks, Inv, Close(t) PROVE Inv'
<1>1. task' = [task EXCEPT ![t] = "done"] /\ task \in [Tasks -> TaskStates] /\ task[t] = "closing"
  BY DEF Close, Become, Inv, TypeOK
<1>2. UNCHANGED <<caller, launched, result, count, firstErr, cancelled, early>>
  BY DEF Close
<1>3. errc' = [buf |-> errc.buf, open |-> FALSE]
  BY DEF Close, Inv, TypeOK
<1>4. Counted' = Counted
  BY <1>1 DEF Counted
<1>5. TypeOK'
  <2>1. errc' \in [buf : Seq(Results), open : BOOLEAN] /\ Len(errc'.buf) <= 1
    BY <1>3 DEF Inv, TypeOK
  <2> QED
    BY <1>1, <1>2, <2>1 DEF Inv, TypeOK, TaskStates
<1>6. CountOK' /\ DeadOK'
  BY <1>1, <1>2, <1>4 DEF Inv, CountOK, DeadOK
<1>7. ErrorsOK' /\ ReturnOK'
  BY <1>1, <1>2, <1>3 DEF Inv, ErrorsOK, Delivered, ReturnOK
<1>8. ~ early' => ClosingOK'
  BY <1>1, <1>2, <1>3 DEF Inv, ClosingOK, DeadOK
<1> QED
  BY <1>5, <1>6, <1>7, <1>8 DEF Inv

\* A panic ends everything.
LEMMA PanicStep == ASSUME NEW t \in Tasks, Inv, Panic(t) PROVE Inv'
<1>1. caller' = "dead" /\ task' = [x \in Tasks |-> "dead"]
  BY DEF Panic
<1>2. UNCHANGED <<launched, result, errc, count, firstErr, cancelled, early>>
  BY DEF Panic
<1>3. TypeOK'
  BY <1>1, <1>2 DEF Inv, TypeOK, TaskStates
<1>4. CountOK' /\ DeadOK' /\ ErrorsOK' /\ ReturnOK' /\ ClosingOK'
  BY <1>1 DEF CountOK, DeadOK, ErrorsOK, ReturnOK, ClosingOK
<1> QED
  BY <1>3, <1>4 DEF Inv

\* Every step keeps the invariant.
LEMMA NextInv == Inv /\ [Next]_vars => Inv'
<1> SUFFICES ASSUME Inv, [Next]_vars PROVE Inv'
  OBVIOUS
<1>1. CASE Next
  BY <1>1, GoStep, CallerStepInv, CallbackStep, SendStep, DecrementStep, LoadStep,
     CloseStep, PanicStep DEF Next, CallerStep, TaskStep
<1>2. CASE UNCHANGED vars
  <2>1. Counted' = Counted
    BY <1>2 DEF vars, Counted
  <2> QED
    BY <1>2, <2>1 DEF vars, Inv, TypeOK, CountOK, DeadOK, ErrorsOK, ReturnOK, ClosingOK, Delivered
<1> QED
  BY <1>1, <1>2

\* The strengthened invariant holds throughout, for any number of tasks.
LEMMA InvHolds == Spec => []Inv
  BY InitInv, NextInv, PTL DEF Spec

\* The counter stays between zero and the number of tasks, and the channel
\* never holds two results.
THEOREM GroupTypeCorrect == Spec => []TypeOK
<1>1. Inv => TypeOK
  BY DEF Inv
<1> QED
  BY <1>1, InvHolds, PTL

\* When Wait returns nil no goroutine has delivered an error, whatever the
\* timing of the tasks.
THEOREM GroupDropsNoError == Spec => []NoErrorIsDropped
<1>1. Inv => NoErrorIsDropped
  BY DEF Inv, ErrorsOK, ReturnOK, NoErrorIsDropped
<1> QED
  BY <1>1, InvHolds, PTL

\* If the caller has launched every task before the first of them returns,
\* Wait returns only after all of them have delivered their results.
THEOREM GroupCoversAllUnlessEarly == Spec => []WaitCoversAllUnlessEarly
<1>1. Inv => WaitCoversAllUnlessEarly
  <2> SUFFICES ASSUME Inv, ~ early, caller = "returned", NEW t \in Tasks
               PROVE  task[t] \in Delivered
    BY DEF WaitCoversAllUnlessEarly, WaitCoversAll
  <2>1. ~ errc.open /\ caller # "dead"
    BY DEF Inv, ReturnOK
  <2>2. count = 0
    BY <2>1 DEF Inv, ClosingOK
  <2>3. Counted = {}
    BY <2>1, <2>2, CountedBound, FS_EmptySet DEF Inv, CountOK
  <2>4. task[t] # "unborn" /\ task[t] # "dead"
    BY <2>1, NTasksAssumption DEF Inv, CountOK, DeadOK, Tasks
  <2>5. task[t] \in TaskStates
    BY DEF Inv, TypeOK
  <2> QED
    BY <2>3, <2>4, <2>5 DEF Counted, TaskStates, Delivered
<1> QED
  BY <1>1, InvHolds, PTL
=============================================================================
