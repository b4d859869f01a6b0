--------------------------- MODULE LimiterProofs ----------------------------
(***************************************************************************)
(* Limiter implements TokenBucket, for every batch size and every set of   *)
(* callers.                                                                *)
(***************************************************************************)
EXTENDS Limiter, TLAPS

\* What the refinement needs: types, and when tokens of a batch are left.
Inv ==
    /\ TypeOK
    /\ filler.pc \in {"range", "ended"} => filler.left = 0
    /\ filler.pc = "starting" => tick = 0 /\ filler.left <= MaxReq

\* The invariant holds at the start: a whole batch is still to be sent.
LEMMA InitInv == Init => Inv
<1> SUFFICES ASSUME Init PROVE Inv
  OBVIOUS
<1>1. filler = [pc |-> "starting", left |-> MaxReq] /\ MaxReq \in Nat /\ MaxReq > 0
  BY MaxReqAssumption DEF Init
<1>2. filler \in [pc : FillerStates, left : 0 .. MaxReq]
  BY <1>1 DEF FillerStates
<1>3. cancelled \in BOOLEAN
  BY DEF Init
<1> QED
  BY <1>1, <1>2, <1>3 DEF Init, Inv, TypeOK

\* No step of the goroutine, of the ticker or of a caller breaks it.
LEMMA NextInv == Inv /\ [Next]_vars => Inv'
<1> SUFFICES ASSUME Inv, [Next]_vars PROVE Inv'
  OBVIOUS
<1> USE MaxReqAssumption DEF Inv, TypeOK, FillerStates
<1>1. CASE SendToken
  BY <1>1 DEF SendToken
<1>2. CASE BatchDone
  BY <1>2 DEF BatchDone
<1>3. CASE TakeTick
  BY <1>3 DEF TakeTick
<1>4. CASE Stop
  BY <1>4 DEF Stop
<1>5. CASE Elapse
  BY <1>5 DEF Elapse
<1>6. CASE Cancel
  BY <1>6 DEF Cancel
<1>7. ASSUME NEW c \in Callers, Call(c) PROVE Inv'
  BY <1>7 DEF Call
<1>8. ASSUME NEW c \in Callers, TakeToken(c) PROVE Inv'
  BY <1>8 DEF TakeToken
<1>9. ASSUME NEW c \in Callers, PassClosed(c) PROVE Inv'
  BY <1>9 DEF PassClosed
<1>10. CASE UNCHANGED vars
  BY <1>10 DEF vars
<1> QED
  BY <1>1, <1>2, <1>3, <1>4, <1>5, <1>6, <1>7, <1>8, <1>9, <1>10 DEF Next, Filler

\* The channel never holds more than a batch, nor the ticker more than a tick.
THEOREM LimiterTypeCorrect == Spec => []TypeOK
<1>1. Spec => []Inv
  BY InitInv, NextInv, PTL DEF Spec
<1>2. Inv => TypeOK
  BY DEF Inv
<1> QED
  BY <1>1, <1>2, PTL

\* Every step of the limiter is a step of the bucket or leaves it alone.
LEMMA NextRefines == Inv /\ [Next]_vars => [Bucket!BucketNext]_(Bucket!bucketVars)
<1> SUFFICES ASSUME Inv, [Next]_vars PROVE [Bucket!BucketNext]_(Bucket!bucketVars)
  OBVIOUS
<1> USE MaxReqAssumption DEF Inv, TypeOK, FillerStates, Bucket!BucketNext, Bucket!bucketVars
<1>1. CASE SendToken
  BY <1>1 DEF SendToken
<1>2. CASE BatchDone
  BY <1>2 DEF BatchDone
<1>3. CASE TakeTick
  BY <1>3 DEF TakeTick
<1>4. CASE Stop
  BY <1>4 DEF Stop, Bucket!Close
<1>5. CASE Elapse
  BY <1>5 DEF Elapse, Bucket!Refill
<1>6. CASE Cancel
  BY <1>6 DEF Cancel
<1>7. ASSUME NEW c \in Callers, Call(c) PROVE [Bucket!BucketNext]_(Bucket!bucketVars)
  BY <1>7 DEF Call
<1>8. ASSUME NEW c \in Callers, TakeToken(c) PROVE [Bucket!BucketNext]_(Bucket!bucketVars)
  BY <1>8 DEF TakeToken, Bucket!Grant, Bucket!Unlimited
<1>9. ASSUME NEW c \in Callers, PassClosed(c) PROVE [Bucket!BucketNext]_(Bucket!bucketVars)
  BY <1>9 DEF PassClosed
<1>10. CASE UNCHANGED vars
  BY <1>10 DEF vars
<1> QED
  BY <1>1, <1>2, <1>3, <1>4, <1>5, <1>6, <1>7, <1>8, <1>9, <1>10 DEF Next, Filler

\* MaxReq requests per period in the long run and at most three batches at
\* once, however callers, ticks and the cancellation interleave.
THEOREM LimiterKeepsRate == Spec => ImplementsTokenBucket
<1>1. Init => Bucket!BucketInit
  BY MaxReqAssumption DEF Init, Bucket!BucketInit
<1>2. Spec => []Inv
  BY InitInv, NextInv, PTL DEF Spec
<1> QED
  BY <1>1, <1>2, NextRefines, PTL DEF Spec, ImplementsTokenBucket, Bucket!BucketSpec
=============================================================================
