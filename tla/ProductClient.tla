---------------------------- MODULE ProductClient ----------------------------
(***************************************************************************)
(* How cart looks a product up (clients/product_client.go over             *)
(* infra/cacher): one lock, a token in a channel, is held over the read of *)
(* the cache in Redis, the HTTP call with its retries and the write of the *)
(* cache.  Of a product's description the model keeps what lookups tell    *)
(* apart: the version of the catalogue, which the product service changes  *)
(* now and then, that it was read from.                                    *)
(***************************************************************************)
EXTENDS Integers, FiniteSets

CONSTANTS
    Lookups,     \* goroutines that call GetProduct, in one process
    Products,
    ProductOf,   \* lookup -> the product it asks for
    MaxVersion   \* bound: versions of the catalogue

ASSUME ProductOfAssumption == ProductOf \in [Lookups -> Products]
ASSUME MaxVersionAssumption == MaxVersion \in Nat \ {0}

VARIABLES
    waitCh,      \* the lock's channel holds its token
    lookup,      \* lookup -> its next step
    attempts,    \* lookup -> its HTTP attempt
    got,         \* lookup -> the version it has met, Nothing or Cancelled
    ctxDone,     \* lookups whose context is done
    version,     \* of the catalogue of the product service
    cache,       \* product -> the version in Redis, or Nothing
    shown,       \* history: product -> the version last returned
    redisFailed  \* history: a call of Redis has failed

lookupVars ==
    <<waitCh, lookup, attempts, got, ctxDone, version, cache, shown, redisFailed>>

Versions == 1 .. MaxVersion
Nothing == 0
Cancelled == -1     \* the lookup failed with its context done
MaxAttempts == 3

Holding == {"reading", "fetching", "adding", "unlocking"}
LookupStates == {"idle", "locking"} \cup Holding

LookupInit ==
    /\ waitCh = TRUE
    /\ lookup = [l \in Lookups |-> "idle"]
    /\ attempts = [l \in Lookups |-> 0]
    /\ got = [l \in Lookups |-> Nothing]
    /\ ctxDone = {}
    /\ version = 1
    /\ cache = [p \in Products |-> Nothing]
    /\ shown = [p \in Products |-> Nothing]
    /\ redisFailed = FALSE

GoOn(l, state) == lookup' = [lookup EXCEPT ![l] = state]

LookupCall(l) ==
    /\ lookup[l] = "idle"
    /\ GoOn(l, "locking")
    /\ UNCHANGED <<waitCh, attempts, got, ctxDone, version, cache, shown, redisFailed>>

\* Mutant: the lock lets everyone in.
LookupLockShared(l) ==
    /\ lookup[l] = "locking"
    /\ GoOn(l, "reading")
    /\ UNCHANGED <<waitCh, attempts, got, ctxDone, version, cache, shown, redisFailed>>

\* <-c.waitCh, which does not look at the context.
LookupLock(l) ==
    /\ lookup[l] = "locking"
    /\ waitCh
    /\ waitCh' = FALSE
    /\ GoOn(l, "reading")
    /\ UNCHANGED <<attempts, got, ctxDone, version, cache, shown, redisFailed>>

LookupHit(l) ==
    /\ lookup[l] = "reading"
    /\ cache[ProductOf[l]] # Nothing
    /\ got' = [got EXCEPT ![l] = cache[ProductOf[l]]]
    /\ GoOn(l, "unlocking")
    /\ UNCHANGED <<waitCh, attempts, ctxDone, version, cache, shown, redisFailed>>

\* The lookup ends with an error and leaves the lock.
LookupEndsBadly(l) ==
    /\ got' = [got EXCEPT ![l] = IF l \in ctxDone THEN Cancelled ELSE Nothing]
    /\ attempts' = [attempts EXCEPT ![l] = 0]
    /\ GoOn(l, "unlocking")

\* The n-th attempt; http.Transport sends nothing once the context is done.
Attempt(l, n) ==
    \/ /\ l \notin ctxDone
       /\ n <= MaxAttempts
       /\ attempts' = [attempts EXCEPT ![l] = n]
       /\ GoOn(l, "fetching")
       /\ UNCHANGED got
    \/ /\ l \in ctxDone \/ n > MaxAttempts
       /\ LookupEndsBadly(l)

\* Mutant: the lock is held over the cache, not over the HTTP call.
LookupMissUnlocked(l) ==
    /\ lookup[l] = "reading"
    /\ redisFailed' \in {redisFailed, TRUE}
    /\ cache[ProductOf[l]] = Nothing \/ redisFailed'
    /\ Attempt(l, 1)
    /\ waitCh' = TRUE
    /\ UNCHANGED <<ctxDone, version, cache, shown>>

\* No entry, or an error of Redis, which is logged and passes for no entry.
LookupMiss(l) ==
    /\ lookup[l] = "reading"
    /\ redisFailed' \in {redisFailed, TRUE}
    /\ cache[ProductOf[l]] = Nothing \/ redisFailed'
    /\ Attempt(l, 1)
    /\ UNCHANGED <<waitCh, ctxDone, version, cache, shown>>

\* 420 or 429: tried again at once, three attempts in all.
LookupTooMany(l) ==
    /\ lookup[l] = "fetching"
    /\ Attempt(l, attempts[l] + 1)
    /\ UNCHANGED <<waitCh, ctxDone, version, cache, shown, redisFailed>>

\* A broken connection, the 5 seconds of a lookup, its context, any other
\* status but 200, or a body that cannot be read.
LookupFails(l) ==
    /\ lookup[l] = "fetching"
    /\ LookupEndsBadly(l)
    /\ UNCHANGED <<waitCh, ctxDone, version, cache, shown, redisFailed>>

\* 200, with the description as the service has it now.
LookupFound(l) ==
    /\ lookup[l] = "fetching"
    /\ got' = [got EXCEPT ![l] = version]
    /\ attempts' = [attempts EXCEPT ![l] = 0]
    /\ GoOn(l, "adding")
    /\ UNCHANGED <<waitCh, ctxDone, version, cache, shown, redisFailed>>

\* SETNX leaves an entry that is there alone.
LookupAdd(l) ==
    LET p == ProductOf[l] IN
    /\ lookup[l] = "adding"
    /\ cache' = [cache EXCEPT ![p] = IF @ = Nothing THEN got[l] ELSE @]
    /\ GoOn(l, "unlocking")
    /\ UNCHANGED <<waitCh, attempts, got, ctxDone, version, shown, redisFailed>>

\* The write fails, done or not done, and the lookup with it: the product
\* that was found is not returned.
LookupAddFails(l) ==
    LET p == ProductOf[l] IN
    /\ lookup[l] = "adding"
    /\ \/ UNCHANGED cache
       \/ cache' = [cache EXCEPT ![p] = IF @ = Nothing THEN got[l] ELSE @]
    /\ redisFailed' = TRUE
    /\ LookupEndsBadly(l)
    /\ UNCHANGED <<waitCh, ctxDone, version, shown>>

\* Mutant: an early return keeps the token.
LookupUnlockOnSuccess(l) ==
    LET p == ProductOf[l] IN
    /\ lookup[l] = "unlocking"
    /\ waitCh' = (got[l] \in Versions)
    /\ shown' = IF got[l] \in Versions THEN [shown EXCEPT ![p] = got[l]] ELSE shown
    /\ got' = [got EXCEPT ![l] = Nothing]
    /\ GoOn(l, "idle")
    /\ UNCHANGED <<attempts, ctxDone, version, cache, redisFailed>>

\* The deferred c.waitCh <- struct{}{}, and GetProduct returns got[l].
LookupUnlock(l) ==
    LET p == ProductOf[l] IN
    /\ lookup[l] = "unlocking"
    /\ waitCh' = TRUE
    /\ shown' = IF got[l] \in Versions THEN [shown EXCEPT ![p] = got[l]] ELSE shown
    /\ got' = [got EXCEPT ![l] = Nothing]
    /\ GoOn(l, "idle")
    /\ UNCHANGED <<attempts, ctxDone, version, cache, redisFailed>>

\* The process dies, and its lookups with it; Redis keeps its entries.
LookupsDie ==
    /\ waitCh' = TRUE
    /\ lookup' = [l \in Lookups |-> "idle"]
    /\ attempts' = [l \in Lookups |-> 0]
    /\ got' = [l \in Lookups |-> Nothing]
    /\ ctxDone' = {}
    /\ UNCHANGED <<version, cache, shown, redisFailed>>

\* Redis drops an entry whose time is over.
Expire(p) ==
    /\ cache[p] # Nothing
    /\ cache' = [cache EXCEPT ![p] = Nothing]
    /\ UNCHANGED <<waitCh, lookup, attempts, got, ctxDone, version, shown, redisFailed>>

Change ==
    /\ version < MaxVersion
    /\ version' = version + 1
    /\ UNCHANGED <<waitCh, lookup, attempts, got, ctxDone, cache, shown, redisFailed>>

\* The steps of a lookup that has the lock.
LookupStep(l) ==
    \/ LookupHit(l) \/ LookupMiss(l) \/ LookupTooMany(l) \/ LookupFails(l)
    \/ LookupFound(l) \/ LookupAdd(l) \/ LookupAddFails(l)

Elsewhere == Change \/ \E p \in Products : Expire(p)
-----------------------------------------------------------------------------
LookupTypeOK ==
    /\ waitCh \in BOOLEAN
    /\ lookup \in [Lookups -> LookupStates]
    /\ attempts \in [Lookups -> 0 .. MaxAttempts]
    /\ got \in [Lookups -> Versions \cup {Nothing, Cancelled}]
    /\ ctxDone \subseteq Lookups
    /\ version \in Versions
    /\ cache \in [Products -> Versions \cup {Nothing}]
    /\ shown \in [Products -> Versions \cup {Nothing}]
    /\ redisFailed \in BOOLEAN

\* While one lookup asks the service for a product, and until what it found is
\* in the cache, the others that want that product wait: none asks too, or reads
\* the cache before the entry is there (docs/homework-8/README.md, the double
\* request for one ProductID).
OneLookupPerProduct ==
    \A l, m \in Lookups :
        /\ l # m
        /\ ProductOf[l] = ProductOf[m]
        /\ lookup[l] \in {"fetching", "adding"}
        => lookup[m] \notin Holding

\* A user is not shown a product's older description after a newer one,
\* although descriptions come from the cache and from the service in turn and
\* SETNX keeps what is there; all calls of Redis must have worked.
DescriptionsDoNotGoBack ==
    [][redisFailed \/ \A p \in Products : shown'[p] >= shown[p]]_lookupVars
=============================================================================
