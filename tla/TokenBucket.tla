---------------------------- MODULE TokenBucket -----------------------------
(***************************************************************************)
(* What a rate limiter may promise: a bucket that gains at most MaxReq     *)
(* tokens per period and holds at most Depth of them, and a request for    *)
(* every token.  A limiter that was stopped no longer holds anybody back.  *)
(***************************************************************************)
EXTENDS Integers

CONSTANTS MaxReq, Depth

VARIABLES
    clock,    \* parity of the period
    bucket,   \* requests that may still be granted in this period
    open      \* the limiter is in use

bucketVars == <<clock, bucket, open>>

BucketInit ==
    /\ clock = 0
    /\ bucket = MaxReq
    /\ open = TRUE

\* A period ends; a full bucket, or one that already has a refill coming,
\* gains nothing.
Refill ==
    /\ clock' = 1 - clock
    /\ bucket' \in {bucket, bucket + MaxReq}
    /\ bucket' <= Depth
    /\ UNCHANGED open

Grant ==
    /\ open
    /\ bucket > 0
    /\ bucket' = bucket - 1
    /\ UNCHANGED <<clock, open>>

\* After Close nothing is promised any more.
Close ==
    /\ open
    /\ open' = FALSE
    /\ UNCHANGED clock

Unlimited ==
    /\ ~ open
    /\ UNCHANGED open

BucketNext == Refill \/ Grant \/ Close \/ Unlimited

BucketSpec == BucketInit /\ [][BucketNext]_bucketVars
=============================================================================
