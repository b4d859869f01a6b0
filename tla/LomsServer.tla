------------------------------ MODULE LomsServer ------------------------------
(***************************************************************************)
(* The LOMS process (cmd/server/main.go, app/server.go): how it starts and *)
(* how it stops, over the connections its requests hold.  An errgroup runs *)
(* three tasks: the gRPC server, the HTTP gateway and a stopper that waits *)
(* for a signal or for the failure of another task.  The sender of events  *)
(* runs beside them and is waited for by nobody.                           *)
(***************************************************************************)
EXTENDS DbPool

CONSTANT Sender    \* the worker that sends events; the others serve requests

ASSUME SenderAssumption == Sender \in Workers

VARIABLES
    done,      \* the errgroup's context: signalled, or a task has failed
    main,      \* "dialing" (grpc.Dial WithBlock), "waiting" or "exited"
    grpc,      \* the gRPC task
    gateway,   \* the HTTP task
    stopper,   \* the task that stops the others
    closed,    \* http.Server.Shutdown has been called
    expired,   \* history: the 5 seconds of the shutdown were over
    sender     \* the goroutine of NotifierService.Run

serverVars == <<done, main, grpc, gateway, stopper, closed, expired, sender>>
vars == <<poolVars, serverVars>>

Handlers == Workers \ {Sender}
Up == main # "exited" /\ ~ panicked

Init ==
    /\ PoolInit
    /\ done = FALSE
    /\ main = "dialing"
    /\ grpc = "starting"
    /\ gateway = "unborn"
    /\ stopper = "unborn"
    /\ closed = FALSE
    /\ expired = FALSE
    /\ sender = "unborn"

Interrupt ==
    /\ ~ done
    /\ done' = TRUE
    /\ UNCHANGED <<poolVars, main, grpc, gateway, stopper, closed, expired, sender>>

\* net.Listen succeeds: the sender first, then Serve.
Listen ==
    /\ grpc = "starting"
    /\ grpc' = "serving"
    /\ sender' = "running"
    /\ UNCHANGED <<poolVars, done, main, gateway, stopper, closed, expired>>

ListenFails ==
    /\ grpc = "starting"
    /\ grpc' = "ended"
    /\ done' = TRUE
    /\ UNCHANGED <<poolVars, main, gateway, stopper, closed, expired, sender>>

\* The dial waits for a server on the port, and for nothing else; then the
\* other two tasks start.
Dialed ==
    /\ main = "dialing"
    /\ main' = "waiting"
    /\ gateway' = "starting"
    /\ stopper' = "waiting"
    /\ UNCHANGED <<poolVars, done, grpc, closed, expired, sender>>

DialOwn == grpc = "serving" /\ Dialed
DialOther == grpc = "ended" /\ Dialed   \* whoever holds the port instead

\* http.Server.ListenAndServe; a server shut down before does not serve.
GatewayStarts ==
    /\ gateway = "starting"
    /\ gateway' = IF closed THEN "ended" ELSE "serving"
    /\ UNCHANGED <<poolVars, done, main, grpc, stopper, closed, expired, sender>>

GatewayFails ==
    /\ gateway = "starting"
    /\ gateway' = "ended"
    /\ done' = TRUE
    /\ UNCHANGED <<poolVars, main, grpc, stopper, closed, expired, sender>>

GatewayEnds ==
    /\ gateway = "serving"
    /\ closed
    /\ gateway' = "ended"
    /\ UNCHANGED <<poolVars, done, main, grpc, stopper, closed, expired, sender>>

\* Mutant: Stop, which lets nothing finish.
StopAtOnce ==
    /\ stopper = "waiting"
    /\ done
    /\ stopper' = "stopping"
    /\ grpc' = "ended"
    /\ UNCHANGED <<poolVars, done, main, gateway, closed, expired, sender>>

\* GracefulStop: no new request is let in.
StopGrpc ==
    /\ stopper = "waiting"
    /\ done
    /\ stopper' = "stopping"
    /\ grpc' = IF grpc = "serving" THEN "draining" ELSE grpc
    /\ UNCHANGED <<poolVars, done, main, gateway, closed, expired, sender>>

\* Serve returns once the requests in it are over.
GrpcEnds ==
    /\ grpc = "draining"
    /\ \A w \in Handlers : pc[w] = "idle"
    /\ grpc' = "ended"
    /\ UNCHANGED <<poolVars, done, main, gateway, stopper, closed, expired, sender>>

\* Mutant: the gateway is left alone.
StopNoGateway ==
    /\ stopper = "stopping"
    /\ grpc = "ended"
    /\ stopper' = "ended"
    /\ UNCHANGED <<poolVars, done, main, grpc, gateway, closed, expired, sender>>

\* GracefulStop has returned in time: now the gateway.
StopGateway ==
    /\ stopper = "stopping"
    /\ grpc = "ended"
    /\ closed' = TRUE
    /\ stopper' = "ended"
    /\ UNCHANGED <<poolVars, done, main, grpc, gateway, expired, sender>>

\* The 5 seconds are over: Stop, and an error; the gateway is never shut down.
StopTimesOut ==
    /\ stopper = "stopping"
    /\ grpc' = "ended"
    /\ expired' = TRUE
    /\ stopper' = "ended"
    /\ UNCHANGED <<poolVars, done, main, gateway, closed, sender>>

\* g.Wait returns after all three tasks, and main with it.
Exit ==
    /\ main = "waiting"
    /\ grpc = "ended" /\ gateway = "ended" /\ stopper = "ended"
    /\ main' = "exited"
    /\ UNCHANGED <<poolVars, done, grpc, gateway, stopper, closed, expired, sender>>

SenderEnds ==
    /\ sender = "running"
    /\ done
    /\ pc[Sender] = "idle"
    /\ sender' = "ended"
    /\ UNCHANGED <<poolVars, done, main, grpc, gateway, stopper, closed, expired>>

\* A request comes in; the ticker fires.  Bound: both after the start is over.
Started == gateway \in {"serving", "ended"}

Receive(w) ==
    /\ grpc = "serving"
    /\ Started
    /\ \E request \in Requests : StartRequest(w, request)
    /\ UNCHANGED serverVars

Tick ==
    /\ sender = "running"
    /\ Started
    /\ StartRequest(Sender, SendEvents)
    /\ UNCHANGED serverVars

Work(w) == Up /\ WorkerStep(w) /\ UNCHANGED serverVars
WorkFails(w) == Up /\ BeginFails(w) /\ UNCHANGED serverVars

Lifecycle ==
    \/ Listen \/ ListenFails \/ DialOwn \/ GatewayStarts \/ GatewayFails \/ GatewayEnds
    \/ StopGrpc \/ GrpcEnds \/ StopGateway \/ StopTimesOut \/ Exit

Next ==
    \/ Up /\ (Lifecycle \/ DialOther \/ Interrupt \/ SenderEnds \/ Tick)
    \/ Up /\ \E w \in Handlers : Receive(w)
    \/ \E w \in Workers : Work(w) \/ WorkFails(w)

Spec == Init /\ [][Next]_vars

\* Goroutines run, five seconds pass, statements and COMMITs return, and a
\* pgxpool serves those who wait for a connection in turn.
FairSpec ==
    /\ Spec
    /\ WF_vars(Up /\ Lifecycle)
    /\ \A w \in Workers : SF_vars(Work(w))
-----------------------------------------------------------------------------
TypeOK ==
    /\ PoolTypeOK
    /\ done \in BOOLEAN
    /\ main \in {"dialing", "waiting", "exited"}
    /\ grpc \in {"starting", "serving", "draining", "ended"}
    /\ gateway \in {"unborn", "starting", "serving", "ended"}
    /\ stopper \in {"unborn", "waiting", "stopping", "ended"}
    /\ closed \in BOOLEAN
    /\ expired \in BOOLEAN
    /\ sender \in {"unborn", "running", "ended"}

\* A process that stops within its 5 seconds cuts no request of a client short.
StopCutsNoRequest ==
    main = "exited" /\ ~ expired => \A w \in Handlers : pc[w] = "idle"

\* Requests in flight end, though one holds a connection of its shard while it
\* waits for one of the stocks; leaks aside.
RequestsOver == leaked # {} \/ \A w \in Handlers : pc[w] = "idle"

\* After a signal, which can come at any time, or a failure of the gateway, the
\* requests end and the process stops; but a failed net.Listen and a shutdown
\* that takes 5 seconds leave it hanging.
StopsWhenDone ==
    done ~> (~ Up \/ (RequestsOver /\ (expired \/ sender = "unborn")))
=============================================================================
