------------------------------ MODULE Limiter -------------------------------
(***************************************************************************)
(* The rate limiter of cart (infra/limiter): a goroutine fills a buffered  *)
(* channel with MaxReq tokens at once and again on every tick, and Wait    *)
(* takes a token.  The ticker's own channel holds one tick and drops the   *)
(* others while the goroutine is blocked in the middle of a batch.         *)
(***************************************************************************)
EXTENDS Integers

CONSTANTS
    MaxReq,     \* tokens per batch, and the capacity of the channel
    Callers     \* goroutines that call Wait

ASSUME MaxReqAssumption == MaxReq \in Nat \ {0}

VARIABLES
    throttle,   \* tokens in the channel
    filler,     \* the goroutine: [pc, left]; left tokens of its batch to send
    tick,       \* ticks in the ticker's channel
    clock,      \* parity of the ticker's period
    cancelled,  \* the context is done
    waiting     \* callers blocked in Wait

vars == <<throttle, filler, tick, clock, cancelled, waiting>>

\* Before the ticker exists, sending a batch, waiting for a tick, returned.
FillerStates == {"starting", "runBatch", "range", "ended"}

Init ==
    /\ throttle = 0
    /\ filler = [pc |-> "starting", left |-> MaxReq]
    /\ tick = 0
    /\ clock = 0
    /\ cancelled = FALSE
    /\ waiting = {}

\* Mutant: the channel is made without a bound.
SendTokenUnbounded ==
    /\ filler.left > 0
    /\ throttle' = throttle + 1
    /\ filler' = [filler EXCEPT !.left = @ - 1]
    /\ UNCHANGED <<tick, clock, cancelled, waiting>>

\* One send of runBatch; the channel has room for MaxReq tokens.
SendToken ==
    /\ filler.left > 0
    /\ throttle < MaxReq
    /\ throttle' = throttle + 1
    /\ filler' = [filler EXCEPT !.left = @ - 1]
    /\ UNCHANGED <<tick, clock, cancelled, waiting>>

\* runBatch returns; after the first one the ticker is created.
BatchDone ==
    /\ filler.pc \in {"starting", "runBatch"}
    /\ filler.left = 0
    /\ filler' = [filler EXCEPT !.pc = "range"]
    /\ UNCHANGED <<throttle, tick, clock, cancelled, waiting>>

\* A period ends: the ticker fires, into a channel that holds one tick.
Elapse ==
    /\ filler.pc \in {"runBatch", "range"}
    /\ tick' = 1
    /\ clock' = 1 - clock
    /\ UNCHANGED <<throttle, filler, cancelled, waiting>>

\* Mutant: a batch is run for a tick that was not taken.
TakeTickAgain ==
    /\ filler.pc = "range"
    /\ tick = 1
    /\ ~ cancelled
    /\ filler' = [pc |-> "runBatch", left |-> MaxReq]
    /\ UNCHANGED <<throttle, tick, clock, cancelled, waiting>>

\* The loop takes a tick and runs a batch.
TakeTick ==
    /\ filler.pc = "range"
    /\ tick = 1
    /\ ~ cancelled
    /\ tick' = 0
    /\ filler' = [pc |-> "runBatch", left |-> MaxReq]
    /\ UNCHANGED <<throttle, clock, cancelled, waiting>>

\* Mutant: a cancelled loop skips its ticks and leaves the channel open.
StopNever ==
    /\ filler.pc = "range"
    /\ tick = 1
    /\ cancelled
    /\ tick' = 0
    /\ UNCHANGED <<throttle, filler, clock, cancelled, waiting>>

\* Cancellation is looked at when a tick is taken: the channel is closed.
Stop ==
    /\ filler.pc = "range"
    /\ tick = 1
    /\ cancelled
    /\ tick' = 0
    /\ filler' = [filler EXCEPT !.pc = "ended"]
    /\ UNCHANGED <<throttle, clock, cancelled, waiting>>

\* The cancel function that NewLimiter returns.
Cancel ==
    /\ ~ cancelled
    /\ cancelled' = TRUE
    /\ UNCHANGED <<throttle, filler, tick, clock, waiting>>

Call(c) ==
    /\ c \notin waiting
    /\ waiting' = waiting \cup {c}
    /\ UNCHANGED <<throttle, filler, tick, clock, cancelled>>

\* Wait returns with a token.  (It takes one that runBatch blocks on only
\* after the ones in the channel, which is the same.)
TakeToken(c) ==
    /\ c \in waiting
    /\ throttle > 0
    /\ throttle' = throttle - 1
    /\ waiting' = waiting \ {c}
    /\ UNCHANGED <<filler, tick, clock, cancelled>>

\* Wait returns because the channel is closed and empty.
PassClosed(c) ==
    /\ c \in waiting
    /\ filler.pc = "ended"
    /\ throttle = 0
    /\ waiting' = waiting \ {c}
    /\ UNCHANGED <<throttle, filler, tick, clock, cancelled>>

Filler == SendToken \/ BatchDone \/ TakeTick \/ Stop

Next ==
    \/ Filler
    \/ Elapse
    \/ Cancel
    \/ \E c \in Callers : Call(c) \/ TakeToken(c) \/ PassClosed(c)

Spec == Init /\ [][Next]_vars

\* The goroutine runs, time passes, and the channel serves its receivers in
\* the order they came.  Nobody has to call Wait or to cancel.
FairSpec ==
    /\ Spec
    /\ WF_vars(Filler)
    /\ WF_vars(Elapse)
    /\ \A c \in Callers : SF_vars(TakeToken(c)) /\ WF_vars(PassClosed(c))
-----------------------------------------------------------------------------
TypeOK ==
    /\ throttle \in 0 .. MaxReq
    /\ filler \in [pc : FillerStates, left : 0 .. MaxReq]
    /\ tick \in {0, 1}
    /\ clock \in {0, 1}
    /\ cancelled \in BOOLEAN
    /\ waiting \in SUBSET Callers

\* A full channel, a batch held up half-way and a tick nobody has taken yet.
Bucket == INSTANCE TokenBucket WITH
    Depth <- 3 * MaxReq,
    bucket <- throttle + filler.left + tick * MaxReq,
    open <- filler.pc # "ended"

\* The limiter keeps its rate over time, MaxReq per period, with bursts of at
\* most three batches (the channel, runBatch blocked in it, the kept tick).
ImplementsTokenBucket == Bucket!BucketSpec

\* Every call of Wait returns, whether the limiter is cancelled or not.
WaitReturns == \A c \in Callers : c \in waiting ~> c \notin waiting
=============================================================================
