--------------------------- MODULE CartPricesProofs ---------------------------
(***************************************************************************)
(* GetCart's lookups for any cart, any other requests, products and        *)
(* versions of the catalogue.  Three invariants carry the proof, one per   *)
(* part: the error group's own, the product client's (who has the lock,    *)
(* and how old what it has met, the cache and the users know of are), and  *)
(* the request's (whose error came first).                                 *)
(***************************************************************************)
EXTENDS CartPrices, ErrGroupProofs

\* What the lookup that has the lock may rely on.  While Redis works, what a
\* lookup is about to return is no older than what was returned before, and no
\* newer than the cache; and nobody fills a gap it has found in the cache.
FreshOK ==
    /\ \A p \in Products :
          /\ shown[p] <= version
          /\ cache[p] # Nothing => shown[p] <= cache[p] /\ cache[p] <= version
    /\ \A l \in Lookups :
          LET p == ProductOf[l] IN
          /\ lookup[l] \in {"fetching", "adding"} => cache[p] = Nothing
          /\ lookup[l] \in {"adding", "unlocking"} /\ got[l] \in Versions =>
                 shown[p] <= got[l] /\ got[l] <= version
          /\ lookup[l] = "unlocking" /\ got[l] \in Versions /\ cache[p] # Nothing =>
                 got[l] <= cache[p]

\* The one lock of the process: no two lookups run at once, whatever their
\* products, and whoever is done has put the token back.
OneLookupAtATime ==
    \A l \in Lookups : lookup[l] \in Holding =>
        ~ waitCh /\ \A m \in Lookups \ {l} : lookup[m] \notin Holding

ClientInv ==
    /\ LookupTypeOK
    /\ OneLookupAtATime
    /\ \A l \in Lookups : lookup[l] = "adding" => got[l] \in Versions
    /\ ~ redisFailed => FreshOK

\* Tasks whose callback has returned: nothing takes one back.
Over == {t \in Tasks : task[t] \notin {"unborn", "running"}}

\* Nobody is a victim before Wait has met an error, and that error belongs to
\* a task that is over and can become none.
CallInv ==
    /\ PricesTypeOK
    /\ cancelled <=> firstErr # Nil
    /\ ctxDone # {} => cancelled
    /\ (\E l \in Lookups : got[l] = Cancelled) => cancelled
    /\ victims # {} => cancelled
    /\ \A t \in Tasks : result[t] \in {Nil, t}
    /\ \A i \in DOMAIN errc.buf : errc.buf[i] \in Over \cup {Nil}
    /\ firstErr \in (Over \ victims) \cup {Nil}
    /\ \A t \in results \cup collected : t \in Over /\ result[t] = Nil
    /\ reply = "products" => collected = Tasks

PricesInv == Inv /\ ClientInv /\ CallInv
-----------------------------------------------------------------------------
\* To the error group a step of GetCart is one of its own, or the end.
LEMMA GroupStep ==
    ASSUME [PricesNext]_pricesVars
    PROVE  [Next]_vars \/ \E t \in Tasks : PutPanics(t)
<1>1. CASE RequestStep
  BY <1>1 DEF RequestStep, Launch, ReceiveResult, TakeResult, GiveUp, Next, CallerStep
<1>2. ASSUME NEW t \in Tasks, GoroutineStep(t) PROVE [Next]_vars \/ PutPanics(t)
  BY <1>2 DEF GoroutineStep, PutResult, ReturnError, Next, TaskStep
<1>3. CASE \E l \in Lookups : OtherRequest(l) \/ Lock(l) \/ Step(l)
  BY <1>3 DEF OtherRequest, Lock, Step
<1>4. CASE (Alive /\ Elsewhere /\ UNCHANGED <<vars, callVars>>) \/ UNCHANGED pricesVars
  BY <1>4 DEF pricesVars
<1> QED
  BY <1>1, <1>2, <1>3, <1>4 DEF PricesNext

\* So the group's invariant holds in GetCart as well.
LEMMA GroupInvStep == ASSUME Inv, [PricesNext]_pricesVars PROVE Inv'
<1>1. ASSUME NEW t \in Tasks, PutPanics(t) PROVE Inv'
  <2>1. caller' = "dead" /\ task' = [x \in Tasks |-> "dead"]
    BY <1>1 DEF PutPanics
  <2>2. UNCHANGED <<launched, result, errc, count, firstErr, cancelled, early>>
    BY <1>1 DEF PutPanics
  <2>3. TypeOK'
    BY <2>1, <2>2 DEF Inv, TypeOK, TaskStates
  <2>4. CountOK' /\ DeadOK' /\ ErrorsOK' /\ ReturnOK' /\ ClosingOK'
    BY <2>1 DEF CountOK, DeadOK, ErrorsOK, ReturnOK, ClosingOK
  <2> QED
    BY <2>3, <2>4 DEF Inv
<1> QED
  BY <1>1, GroupStep, NextInv
-----------------------------------------------------------------------------
\* What the product client does in one step of GetCart.
ClientStep ==
    \/ \E l \in Lookups : LookupCall(l) \/ LookupLock(l) \/ LookupStep(l) \/ LookupUnlock(l)
    \/ LookupsDie
    \/ Elsewhere
    \/ /\ ctxDone' \in {ctxDone, ctxDone \cup Tasks}
       /\ UNCHANGED <<waitCh, lookup, attempts, got, version, cache, shown, redisFailed>>

LEMMA ClientStepOf ==
    ASSUME Inv, [PricesNext]_pricesVars
    PROVE  ClientStep
<1>1. CASE Launch
  <2>1. launched' \in Tasks
    BY <1>1, NTasksAssumption DEF Launch, Go, Tasks, Inv, TypeOK
  <2> QED
    BY <1>1, <2>1, TasksAssumption DEF Launch, ClientStep
<1>2. CASE ReceiveResult
  BY <1>2 DEF ReceiveResult, ClientStep
<1>3. CASE \/ (EnterWait \/ Return) /\ UNCHANGED <<lookupVars, callVars>>
           \/ TakeResult \/ GiveUp \/ UNCHANGED pricesVars
  BY <1>3 DEF TakeResult, GiveUp, pricesVars, lookupVars, ClientStep
<1>4. ASSUME NEW t \in Tasks, GoroutineStep(t) PROVE ClientStep
  <2>1. t \in Lookups
    BY TasksAssumption
  <2> QED
    BY <1>4, <2>1 DEF GoroutineStep, PutResult, ReturnError, PutPanics, lookupVars, ClientStep
<1>5. CASE \E l \in Lookups : OtherRequest(l) \/ Lock(l) \/ Step(l)
  BY <1>5 DEF OtherRequest, Lock, Step, ClientStep
<1>6. CASE Alive /\ Elsewhere /\ UNCHANGED <<vars, callVars>>
  BY <1>6 DEF ClientStep
<1> QED
  BY <1>1, <1>2, <1>3, <1>4, <1>5, <1>6 DEF PricesNext, RequestStep
-----------------------------------------------------------------------------
LEMMA VersionFacts ==
    /\ Versions \subseteq Nat /\ Nothing \notin Versions /\ Cancelled \notin Versions
    /\ Versions \cup {Nothing} \subseteq Nat /\ Nothing # Cancelled /\ \A v \in Versions : v <= MaxVersion
  BY MaxVersionAssumption DEF Versions, Nothing, Cancelled

LEMMA ClientTypeStep == ASSUME ClientInv, ClientStep PROVE LookupTypeOK'
<1> USE DEF ClientInv, LookupTypeOK
<1>1. ASSUME NEW l \in Lookups, LookupCall(l) PROVE LookupTypeOK'
  BY <1>1 DEF LookupCall, GoOn, LookupStates, Holding
<1>2. ASSUME NEW l \in Lookups, LookupLock(l) PROVE LookupTypeOK'
  BY <1>2 DEF LookupLock, GoOn, LookupStates, Holding
<1>3. ASSUME NEW l \in Lookups, LookupUnlock(l) PROVE LookupTypeOK'
  BY <1>3, ProductOfAssumption DEF LookupUnlock, GoOn, LookupStates, Holding
<1>4. ASSUME NEW l \in Lookups, LookupHit(l) PROVE LookupTypeOK'
  <2>1. cache[ProductOf[l]] \in Versions \cup {Nothing}
    BY ProductOfAssumption
  <2> QED
    BY <1>4, <2>1 DEF LookupHit, GoOn, LookupStates, Holding
<1>5. ASSUME NEW l \in Lookups, LookupEndsBadly(l)
      PROVE  /\ lookup' \in [Lookups -> LookupStates] /\ attempts' \in [Lookups -> 0 .. MaxAttempts]
             /\ got' \in [Lookups -> Versions \cup {Nothing, Cancelled}]
  BY <1>5 DEF LookupEndsBadly, GoOn, LookupStates, Holding, MaxAttempts
<1>6. ASSUME NEW l \in Lookups, NEW n \in Nat, Attempt(l, n)
      PROVE  /\ lookup' \in [Lookups -> LookupStates] /\ attempts' \in [Lookups -> 0 .. MaxAttempts]
             /\ got' \in [Lookups -> Versions \cup {Nothing, Cancelled}]
  BY <1>5, <1>6 DEF Attempt, GoOn, LookupStates, Holding, MaxAttempts
<1>7. ASSUME NEW l \in Lookups, LookupMiss(l) PROVE LookupTypeOK'
  BY <1>6, <1>7 DEF LookupMiss
<1>8. ASSUME NEW l \in Lookups, LookupTooMany(l) PROVE LookupTypeOK'
  <2>1. attempts[l] + 1 \in Nat
    BY DEF MaxAttempts
  <2> QED
    BY <1>6, <1>8, <2>1 DEF LookupTooMany
<1>9. ASSUME NEW l \in Lookups, LookupFails(l) PROVE LookupTypeOK'
  BY <1>5, <1>9 DEF LookupFails
<1>10. ASSUME NEW l \in Lookups, LookupFound(l) PROVE LookupTypeOK'
  BY <1>10 DEF LookupFound, GoOn, LookupStates, Holding, MaxAttempts
<1>11. ASSUME NEW l \in Lookups, lookup[l] = "adding",
              cache' = [cache EXCEPT ![ProductOf[l]] = IF @ = Nothing THEN got[l] ELSE @]
       PROVE  cache' \in [Products -> Versions \cup {Nothing}]
  BY <1>11, ProductOfAssumption
<1>12. ASSUME NEW l \in Lookups, LookupAdd(l) PROVE LookupTypeOK'
  BY <1>11, <1>12 DEF LookupAdd, GoOn, LookupStates, Holding
<1>13. ASSUME NEW l \in Lookups, LookupAddFails(l) PROVE LookupTypeOK'
  BY <1>5, <1>11, <1>13 DEF LookupAddFails
<1>14. CASE LookupsDie
  BY <1>14 DEF LookupsDie, LookupStates, MaxAttempts
<1>15. CASE Elsewhere
  BY <1>15, MaxVersionAssumption DEF Elsewhere, Change, Expire, Versions
<1>16. CASE /\ ctxDone' \in {ctxDone, ctxDone \cup Tasks}
            /\ UNCHANGED <<waitCh, lookup, attempts, got, version, cache, shown, redisFailed>>
  BY <1>16, TasksAssumption
<1> QED
  BY <1>1, <1>2, <1>3, <1>4, <1>7, <1>8, <1>9, <1>10, <1>12, <1>13, <1>14, <1>15, <1>16
  DEF ClientStep, LookupStep

\* A lookup that has the lock keeps it.
LEMMA LookupStepHolds ==
    ASSUME ClientInv, NEW l \in Lookups, LookupStep(l)
    PROVE  /\ lookup[l] \in Holding /\ lookup'[l] \in Holding /\ waitCh' = waitCh
           /\ \A m \in Lookups \ {l} : lookup'[m] = lookup[m] /\ got'[m] = got[m]
           /\ version' = version /\ shown' = shown /\ ctxDone' = ctxDone
           /\ redisFailed => redisFailed'
<1> USE DEF ClientInv, LookupTypeOK, GoOn, Holding
<1>1. CASE LookupHit(l)
  BY <1>1 DEF LookupHit
<1>2. CASE LookupMiss(l)
  <2>1. redisFailed' \in {redisFailed, TRUE}
    BY <1>2 DEF LookupMiss
  <2>2. redisFailed => redisFailed'
    BY <2>1
  <2> QED
    BY <1>2, <2>2 DEF LookupMiss, Attempt, LookupEndsBadly
<1>3. CASE LookupTooMany(l) \/ LookupFails(l)
  BY <1>3 DEF LookupTooMany, LookupFails, Attempt, LookupEndsBadly
<1>4. CASE LookupFound(l)
  BY <1>4 DEF LookupFound
<1>5. CASE LookupAdd(l)
  BY <1>5 DEF LookupAdd
<1>6. CASE LookupAddFails(l)
  BY <1>6 DEF LookupAddFails, LookupEndsBadly
<1> QED
  BY <1>1, <1>2, <1>3, <1>4, <1>5, <1>6 DEF LookupStep

LEMMA LockStep == ASSUME ClientInv, ClientStep PROVE OneLookupAtATime'
<1>1. lookup \in [Lookups -> LookupStates] /\ OneLookupAtATime
  BY DEF ClientInv, LookupTypeOK
<1>2. ASSUME NEW l \in Lookups, LookupCall(l) PROVE OneLookupAtATime'
  BY <1>1, <1>2 DEF LookupCall, GoOn, OneLookupAtATime, Holding
<1>3. ASSUME NEW l \in Lookups, LookupLock(l) PROVE OneLookupAtATime'
  <2>1. \A m \in Lookups : lookup[m] \notin Holding
    BY <1>1, <1>3 DEF LookupLock, OneLookupAtATime
  <2>2. waitCh' = FALSE /\ \A m \in Lookups \ {l} : lookup'[m] = lookup[m]
    BY <1>1, <1>3 DEF LookupLock, GoOn
  <2> QED
    BY <2>1, <2>2 DEF OneLookupAtATime
<1>4. ASSUME NEW l \in Lookups, LookupStep(l) PROVE OneLookupAtATime'
  BY <1>1, <1>4, LookupStepHolds DEF OneLookupAtATime
<1>5. ASSUME NEW l \in Lookups, LookupUnlock(l) PROVE OneLookupAtATime'
  <2>1. lookup[l] \in Holding
    BY <1>5 DEF LookupUnlock, Holding
  <2>2. \A m \in Lookups : lookup'[m] \notin Holding
    BY <1>1, <1>5, <2>1 DEF LookupUnlock, GoOn, OneLookupAtATime, Holding
  <2> QED
    BY <2>2 DEF OneLookupAtATime
<1>6. CASE LookupsDie
  BY <1>6 DEF LookupsDie, OneLookupAtATime, Holding
<1>7. CASE Elsewhere
  BY <1>1, <1>7 DEF Elsewhere, Change, Expire, OneLookupAtATime
<1>8. CASE UNCHANGED <<waitCh, lookup, attempts, got, version, cache, shown, redisFailed>>
  BY <1>1, <1>8 DEF OneLookupAtATime
<1> QED
  BY <1>2, <1>3, <1>4, <1>5, <1>6, <1>7, <1>8 DEF ClientStep

\* A lookup comes to the write of the cache with a version only.
LEMMA AddingStep ==
    ASSUME ClientInv, ClientStep
    PROVE  (\A l \in Lookups : lookup[l] = "adding" => got[l] \in Versions)'
<1> USE DEF ClientInv, LookupTypeOK, GoOn
<1>1. ASSUME NEW l \in Lookups, LookupCall(l) \/ LookupLock(l) \/ LookupUnlock(l)
      PROVE  \A m \in Lookups : lookup'[m] = "adding" => got'[m] \in Versions'
  BY <1>1 DEF LookupCall, LookupLock, LookupUnlock, Versions
<1>2. ASSUME NEW l \in Lookups, LookupStep(l)
      PROVE  \A m \in Lookups : lookup'[m] = "adding" => got'[m] \in Versions'
  <2>1. lookup'[l] = "adding" => got'[l] \in Versions
    BY <1>2 DEF LookupStep, LookupHit, LookupMiss, LookupTooMany, LookupFails, LookupFound,
       LookupAdd, LookupAddFails, Attempt, LookupEndsBadly
  <2> QED
    BY <1>2, <2>1, LookupStepHolds DEF Versions
<1>3. CASE LookupsDie
  BY <1>3 DEF LookupsDie
<1>4. CASE Elsewhere
  BY <1>4 DEF Elsewhere, Change, Expire, Versions
<1>5. CASE UNCHANGED <<waitCh, lookup, attempts, got, version, cache, shown, redisFailed>>
  BY <1>5 DEF Versions
<1> QED
  BY <1>1, <1>2, <1>3, <1>4, <1>5 DEF ClientStep
-----------------------------------------------------------------------------
\* The holder's step: what it has met bears comparison with what was shown.
LEMMA HolderFresh ==
    ASSUME ClientInv, NEW l \in Lookups, LookupStep(l), ~ redisFailed'
    PROVE  FreshOK'
<1> DEFINE p == ProductOf[l]
<1>1. /\ lookup[l] \in Holding /\ version' = version /\ shown' = shown
      /\ \A m \in Lookups \ {l} : lookup'[m] = lookup[m] /\ got'[m] = got[m]
  BY LookupStepHolds
<1>2. /\ ~ redisFailed /\ FreshOK /\ LookupTypeOK
  BY LookupStepHolds DEF ClientInv
<1>3. p \in Products
  BY ProductOfAssumption
<1>4. /\ shown[p] \in Nat /\ cache[p] \in Nat /\ version \in Versions /\ shown[p] <= version
      /\ cache[p] # Nothing => shown[p] <= cache[p] /\ cache[p] <= version /\ cache[p] \in Versions
  <2>1. shown[p] \in Versions \cup {Nothing} /\ cache[p] \in Versions \cup {Nothing}
    BY <1>2, <1>3 DEF LookupTypeOK
  <2>2. shown[p] \in Nat /\ cache[p] \in Nat /\ version \in Versions
    BY <1>2, <2>1, VersionFacts DEF LookupTypeOK
  <2>3. shown[p] <= version /\ (cache[p] # Nothing => shown[p] <= cache[p] /\ cache[p] <= version)
    BY <1>2, <1>3 DEF FreshOK
  <2> QED
    BY <2>1, <2>2, <2>3
<1>5. \A m \in Lookups \ {l} : lookup'[m] \notin {"fetching", "adding", "unlocking"}
  BY <1>1 DEF ClientInv, OneLookupAtATime, Holding
<1>6. Versions' = Versions /\ Nothing' = Nothing
  BY DEF Versions, Nothing
<1>7. ASSUME UNCHANGED cache,
             lookup'[l] \in {"fetching", "adding"} => cache[p] = Nothing,
             lookup'[l] \in {"adding", "unlocking"} /\ got'[l] \in Versions =>
                 shown[p] <= got'[l] /\ got'[l] <= version,
             lookup'[l] = "unlocking" /\ got'[l] \in Versions /\ cache[p] # Nothing =>
                 got'[l] <= cache[p]
      PROVE  FreshOK'
  BY <1>1, <1>2, <1>5, <1>6, <1>7 DEF FreshOK
<1>8. LookupEndsBadly(l) => lookup'[l] = "unlocking" /\ got'[l] \notin Versions
  BY VersionFacts DEF LookupEndsBadly, GoOn, ClientInv, LookupTypeOK
<1>9. CASE LookupHit(l)
  <2>1. lookup'[l] = "unlocking" /\ got'[l] = cache[p] /\ cache[p] # Nothing /\ cache' = cache
    BY <1>9 DEF LookupHit, GoOn, ClientInv, LookupTypeOK
  <2> QED
    BY <1>4, <1>7, <2>1
<1>10. ASSUME cache[p] = Nothing, NEW n, Attempt(l, n), cache' = cache PROVE FreshOK'
  <2>1. lookup'[l] = "fetching" \/ (lookup'[l] = "unlocking" /\ got'[l] \notin Versions)
    BY <1>8, <1>10 DEF Attempt, GoOn, ClientInv, LookupTypeOK
  <2> QED
    BY <1>7, <1>10, <2>1
<1>11. CASE LookupMiss(l)
  <2>1. cache[p] = Nothing /\ Attempt(l, 1) /\ cache' = cache
    BY <1>11 DEF LookupMiss
  <2> QED
    BY <1>10, <2>1
<1>12. CASE LookupTooMany(l)
  <2>1. cache[p] = Nothing /\ Attempt(l, attempts[l] + 1) /\ cache' = cache
    BY <1>2, <1>12 DEF LookupTooMany, FreshOK
  <2> QED
    BY <1>10, <2>1
<1>13. CASE LookupFails(l)
  BY <1>7, <1>8, <1>13 DEF LookupFails
<1>14. CASE LookupFound(l)
  <2>1. cache[p] = Nothing /\ cache' = cache /\ lookup'[l] = "adding" /\ got'[l] = version
    BY <1>2, <1>14 DEF LookupFound, FreshOK, GoOn, LookupTypeOK
  <2> QED
    BY <1>4, <1>7, <2>1, VersionFacts
<1>15. CASE LookupAdd(l)
  <2>1. /\ lookup[l] = "adding" /\ lookup'[l] = "unlocking" /\ got' = got
        /\ cache' = [cache EXCEPT ![p] = IF cache[p] = Nothing THEN got[l] ELSE cache[p]]
    BY <1>2, <1>15 DEF LookupAdd, GoOn, LookupTypeOK
  <2>2. got[l] \in Versions /\ cache[p] = Nothing
    BY <1>2, <2>1 DEF ClientInv, FreshOK
  <2>3. shown[p] <= got[l] /\ got[l] <= version
    BY <1>2, <2>1, <2>2 DEF FreshOK
  <2>4. cache'[p] = got[l] /\ \A q \in Products \ {p} : cache'[q] = cache[q]
    BY <1>2, <1>3, <2>1, <2>2 DEF LookupTypeOK
  <2>5. got[l] \in Nat
    BY <2>2, VersionFacts
  <2>6. \A q \in Products :
           /\ shown[q] <= version
           /\ cache'[q] # Nothing => shown[q] <= cache'[q] /\ cache'[q] <= version
    BY <1>2, <2>3, <2>4 DEF FreshOK
  <2> QED
    BY <1>1, <1>5, <1>6, <2>1, <2>3, <2>4, <2>5, <2>6 DEF FreshOK
<1>16. CASE LookupAddFails(l)
  BY <1>16 DEF LookupAddFails
<1> QED
  BY <1>9, <1>11, <1>12, <1>13, <1>14, <1>15, <1>16 DEF LookupStep

LEMMA FreshStep == ASSUME ClientInv, ClientStep, ~ redisFailed' PROVE FreshOK'
<1>1. Versions' = Versions /\ Nothing' = Nothing
  BY DEF Versions, Nothing
<1>2. LookupTypeOK
  BY DEF ClientInv
<1>3. ASSUME NEW l \in Lookups, LookupCall(l) \/ LookupLock(l) PROVE FreshOK'
  <2>1. UNCHANGED <<got, version, cache, shown, redisFailed>>
    BY <1>3 DEF LookupCall, LookupLock
  <2>2. \A m \in Lookups : lookup'[m] \in {"fetching", "adding", "unlocking"} =>
            lookup'[m] = lookup[m]
    BY <1>2, <1>3 DEF LookupCall, LookupLock, GoOn, LookupTypeOK
  <2> QED
    BY <1>1, <2>1, <2>2 DEF ClientInv, FreshOK
<1>4. ASSUME NEW l \in Lookups, LookupUnlock(l) PROVE FreshOK'
  <2>1. /\ lookup[l] = "unlocking" /\ UNCHANGED <<version, cache, redisFailed>>
        /\ shown' = IF got[l] \in Versions THEN [shown EXCEPT ![ProductOf[l]] = got[l]] ELSE shown
    BY <1>4 DEF LookupUnlock
  <2>2. \A m \in Lookups : lookup'[m] \notin Holding
    BY <1>2, <1>4, <2>1 DEF LookupUnlock, GoOn, ClientInv, OneLookupAtATime, Holding, LookupTypeOK
  <2>3. FreshOK
    BY <2>1 DEF ClientInv
  <2>4. CASE got[l] \notin Versions
    BY <1>1, <2>1, <2>2, <2>3, <2>4 DEF FreshOK, Holding
  <2>5. CASE got[l] \in Versions
    <3>1. /\ got[l] <= version
          /\ cache[ProductOf[l]] # Nothing => got[l] <= cache[ProductOf[l]]
      BY <2>1, <2>3, <2>5 DEF FreshOK
    <3>2. /\ shown'[ProductOf[l]] = got[l]
          /\ \A q \in Products \ {ProductOf[l]} : shown'[q] = shown[q]
      BY <1>2, <2>1, <2>5, ProductOfAssumption DEF LookupTypeOK
    <3>3. \A q \in Products :
             /\ shown'[q] <= version
             /\ cache[q] # Nothing => shown'[q] <= cache[q] /\ cache[q] <= version
      BY <2>3, <3>1, <3>2 DEF FreshOK
    <3> QED
      BY <1>1, <2>1, <2>2, <3>3 DEF FreshOK, Holding
  <2> QED
    BY <2>4, <2>5
<1>5. CASE LookupsDie
  BY <1>1, <1>5 DEF LookupsDie, ClientInv, FreshOK
<1>6. CASE Elsewhere
  <2>1. CASE Change
    <3>1. version' = version + 1 /\ version \in Nat /\ FreshOK
          /\ UNCHANGED <<lookup, got, cache, shown>>
      <4>1. version' = version + 1 /\ UNCHANGED <<lookup, got, cache, shown, redisFailed>>
        BY <2>1 DEF Change
      <4>2. version \in Nat
        BY <1>2, VersionFacts DEF LookupTypeOK
      <4>3. FreshOK
        BY <4>1 DEF ClientInv
      <4> QED
        BY <4>1, <4>2, <4>3
    <3>2. \A q \in Products : shown[q] \in Nat /\ cache[q] \in Nat
      BY <1>2, VersionFacts DEF LookupTypeOK
    <3>3. \A m \in Lookups : got[m] \in Versions => got[m] \in Nat
      BY VersionFacts
    <3> QED
      BY <1>1, <3>1, <3>2, <3>3 DEF FreshOK
  <2>2. ASSUME NEW q \in Products, Expire(q) PROVE FreshOK'
    <3>1. /\ FreshOK /\ UNCHANGED <<lookup, got, version, shown>>
          /\ cache'[q] = Nothing /\ \A r \in Products \ {q} : cache'[r] = cache[r]
      BY <1>2, <2>2 DEF Expire, ClientInv, LookupTypeOK
    <3>2. \A r \in Products : cache'[r] \in {Nothing, cache[r]}
      BY <3>1
    <3> QED
      BY <1>1, <3>1, <3>2, ProductOfAssumption DEF FreshOK
  <2> QED
    BY <1>6, <2>1, <2>2 DEF Elsewhere
<1>7. CASE UNCHANGED <<waitCh, lookup, attempts, got, version, cache, shown, redisFailed>>
  BY <1>1, <1>7 DEF ClientInv, FreshOK
<1> QED
  BY <1>3, <1>4, <1>5, <1>6, <1>7, HolderFresh DEF ClientStep

LEMMA ClientInvStep == ASSUME ClientInv, ClientStep PROVE ClientInv'
  BY ClientTypeStep, LockStep, AddingStep, FreshStep DEF ClientInv
-----------------------------------------------------------------------------
\* A task that is over stays over.
LEMMA OverKept ==
    ASSUME Inv, [PricesNext]_pricesVars
    PROVE  Over \subseteq Over'
<1>1. task \in [Tasks -> TaskStates]
  BY DEF Inv, TypeOK
<1>2. CASE UNCHANGED task
  BY <1>2 DEF Over, Tasks
<1>3. CASE Go
  <2>1. task[launched + 1] = "unborn" /\ task' = [task EXCEPT ![launched + 1] = "running"]
    BY <1>3, NTasksAssumption DEF Go, Become, Inv, CountOK, TypeOK, Tasks
  <2> QED
    BY <1>1, <2>1 DEF Over, Tasks
<1>4. CASE EnterWait \/ Receive \/ Return
  BY <1>2, <1>4 DEF EnterWait, Receive, Return
<1>5. ASSUME NEW x \in Tasks, TaskStep(x) PROVE Over \subseteq Over'
  <2>1. \A t \in Tasks \ {x} : task'[t] = task[t] \/ task'[t] = "dead"
    BY <1>1, <1>5 DEF TaskStep, Callback, Send, Decrement, Load, Close, Panic, Become
  <2>2. task'[x] \notin {"unborn", "running"}
    BY <1>1, <1>5 DEF TaskStep, Callback, Send, Decrement, Load, Close, Panic, Become
  <2> QED
    BY <2>1, <2>2 DEF Over, Tasks
<1>6. CASE UNCHANGED vars
  BY <1>2, <1>6 DEF vars
<1>7. CASE \E x \in Tasks : PutPanics(x)
  <2>1. \A t \in Tasks : task'[t] = "dead"
    BY <1>7 DEF PutPanics
  <2> QED
    BY <2>1 DEF Over, Tasks
<1> QED
  BY <1>3, <1>4, <1>5, <1>6, <1>7, GroupStep DEF Next, CallerStep

\* Only a lookup whose context is done learns so, and only Wait ends contexts.
LEMMA CancelledStep ==
    ASSUME ClientInv, CallInv, ClientStep, ctxDone' \subseteq ctxDone \/ cancelled'
    PROVE  /\ ctxDone' # {} => cancelled \/ cancelled'
           /\ (\E l \in Lookups : got'[l] = Cancelled) => cancelled
<1>1. ctxDone' # {} => cancelled \/ cancelled'
  BY DEF CallInv
<1>2. got \in [Lookups -> Versions \cup {Nothing, Cancelled}] /\ version \in Versions
      /\ cache \in [Products -> Versions \cup {Nothing}]
  BY DEF ClientInv, LookupTypeOK
<1>3. ASSUME NEW l \in Lookups, LookupCall(l) \/ LookupLock(l) \/ LookupUnlock(l)
      PROVE  \A m \in Lookups : got'[m] = Cancelled => got[m] = Cancelled
  BY <1>2, <1>3, VersionFacts DEF LookupCall, LookupLock, LookupUnlock
<1>4. ASSUME NEW l \in Lookups, LookupStep(l)
      PROVE  \A m \in Lookups : got'[m] = Cancelled => got[m] = Cancelled \/ ctxDone # {}
  <2>1. LookupEndsBadly(l) => (got'[l] = Cancelled => ctxDone # {})
    BY <1>2, VersionFacts DEF LookupEndsBadly
  <2>2. got'[l] = Cancelled => got[l] = Cancelled \/ ctxDone # {}
    BY <1>2, <1>4, <2>1, VersionFacts, ProductOfAssumption
    DEF LookupStep, LookupHit, LookupMiss, LookupTooMany, LookupFails, LookupFound,
        LookupAdd, LookupAddFails, Attempt
  <2> QED
    BY <1>4, <2>2, LookupStepHolds
<1>5. CASE LookupsDie
  BY <1>5, VersionFacts DEF LookupsDie
<1>6. CASE Elsewhere
  BY <1>6 DEF Elsewhere, Change, Expire, CallInv
<1>7. CASE UNCHANGED <<waitCh, lookup, attempts, got, version, cache, shown, redisFailed>>
  BY <1>7 DEF CallInv
<1> QED
  BY <1>1, <1>3, <1>4, <1>5, <1>6, <1>7 DEF ClientStep, CallInv

\* Steps that bring no error nearer to the caller.
LEMMA QuietStep ==
    ASSUME Inv, ClientInv, ClientInv', CallInv, [PricesNext]_pricesVars,
           ctxDone' \subseteq ctxDone, errc'.buf = errc.buf,
           UNCHANGED <<result, firstErr, cancelled, victims>>,
           results' \cup collected' \subseteq results \cup collected,
           closed' \in BOOLEAN, reply' \in {"none", "products", "error"},
           reply' = "products" => collected' = Tasks
    PROVE  CallInv'
<1>1. /\ ctxDone' # {} => cancelled'
      /\ (\E l \in Lookups : got'[l] = Cancelled) => cancelled'
  BY ClientStepOf, CancelledStep
<1>2. PricesTypeOK'
  BY DEF ClientInv, CallInv, PricesTypeOK, Tasks
<1>3. Over \subseteq Over' /\ Tasks' = Tasks /\ Nil' = Nil /\ Cancelled' = Cancelled
  BY OverKept DEF Tasks, Nil, Cancelled
<1>4. \A i \in DOMAIN errc'.buf : errc'.buf[i] \in Over' \cup {Nil}
  BY <1>3 DEF CallInv
<1>5. firstErr' \in (Over' \ victims') \cup {Nil}
  BY <1>3 DEF CallInv
<1>6. \A t \in results' \cup collected' : t \in Over' /\ result'[t] = Nil
  BY <1>3 DEF CallInv
<1>7. /\ \A t \in Tasks : result'[t] \in {Nil, t}
      /\ (cancelled' <=> firstErr' # Nil) /\ (victims' # {} => cancelled')
  BY DEF CallInv
<1> QED
  BY <1>1, <1>2, <1>3, <1>4, <1>5, <1>6, <1>7 DEF CallInv

\* A task sends its result: it is over.
LEMMA SendCallStep ==
    ASSUME Inv, ClientInv, ClientInv', CallInv, [PricesNext]_pricesVars,
           NEW t \in Tasks, Send(t), UNCHANGED <<lookupVars, callVars>>
    PROVE  CallInv'
<1>1. UNCHANGED <<ctxDone, got, results, closed, collected, reply, victims, result, firstErr,
                  cancelled>>
  BY DEF Send, lookupVars, callVars
<1>2. Over \subseteq Over' /\ Tasks' = Tasks /\ Nil' = Nil /\ Cancelled' = Cancelled
  BY OverKept DEF Tasks, Nil, Cancelled
<1>3. t \in Over'
  BY DEF Send, Become, Inv, TypeOK, Over, Tasks
<1>4. errc'.buf = <<result[t]>>
  <2>1. errc.buf = <<>> /\ errc' = [errc EXCEPT !.buf = Append(@, result[t])]
    BY DEF Send, Inv, TypeOK
  <2> QED
    BY <2>1 DEF Inv, TypeOK
<1>5. \A i \in DOMAIN errc'.buf : errc'.buf[i] \in Over' \cup {Nil}
  BY <1>3, <1>4 DEF CallInv
<1>6. PricesTypeOK'
  BY <1>1, <1>2 DEF ClientInv, CallInv, PricesTypeOK
<1> QED
  BY <1>1, <1>2, <1>5, <1>6 DEF CallInv

\* Wait meets the first error while nobody is a victim yet.
LEMMA ReceiveCallStep ==
    ASSUME Inv, ClientInv, ClientInv', CallInv, [PricesNext]_pricesVars, ReceiveResult
    PROVE  CallInv'
<1>1. /\ UNCHANGED <<got, results, closed, collected, reply, victims, result>>
      /\ ctxDone' = IF cancelled' THEN ctxDone \cup Tasks ELSE ctxDone
      /\ IF firstErr = Nil /\ Head(errc.buf) # Nil
         THEN firstErr' = Head(errc.buf) /\ cancelled' = TRUE
         ELSE UNCHANGED <<firstErr, cancelled>>
  BY DEF ReceiveResult, Receive, callVars
<1>2. Over \subseteq Over' /\ Tasks' = Tasks /\ Nil' = Nil /\ Cancelled' = Cancelled
  BY OverKept DEF Tasks, Nil, Cancelled
<1>3. errc.buf \in Seq(Results) /\ errc.buf # <<>> /\ Len(errc.buf) <= 1
      /\ errc' = [errc EXCEPT !.buf = Tail(@)]
  BY DEF ReceiveResult, Receive, Inv, TypeOK
<1>4. Len(errc.buf) = 1 /\ Len(Tail(errc.buf)) = 0 /\ Head(errc.buf) = errc.buf[1]
  <2>1. Len(errc.buf) \in Nat \ {0}
    BY <1>3, EmptySeq
  <2>2. Len(errc.buf) = 1
    <3>1. Len(errc.buf) <= 1
      BY <1>3
    <3>2. \A n \in Nat \ {0} : n <= 1 => n = 1
      OBVIOUS
    <3> QED
      BY <2>1, <3>1, <3>2, Zenon
  <2>3. Len(Tail(errc.buf)) = Len(errc.buf) - 1
    BY <1>3, HeadTailProperties
  <2>4. Head(errc.buf) = errc.buf[1]
    OBVIOUS
  <2> QED
    BY <2>2, <2>3, <2>4
<1>5. DOMAIN errc'.buf = {}
  <2>1. errc'.buf = Tail(errc.buf)
    BY <1>3 DEF Inv, TypeOK
  <2>2. Tail(errc.buf) \in Seq(Results)
    BY <1>3, HeadTailProperties
  <2>3. DOMAIN Tail(errc.buf) = 1 .. 0
    BY <1>4, <2>2, LenProperties
  <2>4. 1 .. 0 = {}
    OBVIOUS
  <2> QED
    BY <2>1, <2>3, <2>4
<1>6. Head(errc.buf) \in Over \cup {Nil}
  <2>1. 1 \in DOMAIN errc.buf
    BY <1>3, <1>4, LenProperties
  <2> QED
    BY <1>4, <2>1 DEF CallInv
<1>7. /\ firstErr' \in (Over' \ victims') \cup {Nil}
      /\ cancelled' <=> firstErr' # Nil
      /\ cancelled => cancelled'
  <2>1. firstErr = Nil => victims = {}
    BY DEF CallInv
  <2>2. CASE firstErr = Nil /\ Head(errc.buf) # Nil
    BY <1>1, <1>2, <1>6, <2>1, <2>2
  <2>3. CASE ~ (firstErr = Nil /\ Head(errc.buf) # Nil)
    BY <1>1, <1>2, <2>3 DEF CallInv
  <2> QED
    BY <2>2, <2>3
<1>8. ctxDone' # {} => cancelled'
  BY <1>1, <1>7 DEF CallInv
<1>9. PricesTypeOK'
  BY <1>1, <1>2 DEF ClientInv, CallInv, PricesTypeOK
<1>10. /\ (\E l \in Lookups : got'[l] = Cancelled) => cancelled'
       /\ victims' # {} => cancelled'
       /\ \A t \in Tasks : result'[t] \in {Nil, t}
       /\ \A t \in results' \cup collected' : t \in Over' /\ result'[t] = Nil
       /\ reply' = "products" => collected' = Tasks
  BY <1>1, <1>2, <1>7 DEF CallInv
<1> QED
  BY <1>2, <1>5, <1>7, <1>8, <1>9, <1>10 DEF CallInv

\* A callback returns: with a product, in the channel, or with its own error;
\* it becomes a victim only after another error has ended its context.
LEMMA CallbackCallStep ==
    ASSUME Inv, ClientInv, ClientInv', CallInv, [PricesNext]_pricesVars,
           NEW t \in Tasks, PutResult(t) \/ ReturnError(t)
    PROVE  CallInv'
<1>1. /\ task[t] = "running" /\ task' = [task EXCEPT ![t] = "sending"]
      /\ \E r \in {Nil, t} : result' = [result EXCEPT ![t] = r]
      /\ UNCHANGED <<errc, firstErr, cancelled, ctxDone, closed, collected, reply>>
  BY DEF PutResult, ReturnError, Callback, Become, LookupUnlock
<1>2. Over \subseteq Over' /\ Tasks' = Tasks /\ Nil' = Nil /\ Cancelled' = Cancelled
  BY OverKept DEF Tasks, Nil, Cancelled
<1>3. t \in Over' /\ t \notin Over
  BY <1>1 DEF Over, Inv, TypeOK, Tasks
<1>4. /\ result \in [Tasks -> Results] /\ result'[t] \in {Nil, t}
      /\ \A x \in Tasks \ {t} : result'[x] = result[x]
  BY <1>1 DEF Inv, TypeOK
<1>5. /\ ctxDone' # {} => cancelled'
      /\ (\E l \in Lookups : got'[l] = Cancelled) => cancelled'
  BY <1>1, ClientStepOf, CancelledStep
<1>6. /\ \A x \in results \cup collected : x # t /\ x \in Tasks /\ x \in Over'
             /\ result'[x] = Nil
  <2>1. \A x \in results \cup collected : x \in Over /\ x \in Tasks /\ result[x] = Nil
    BY DEF CallInv, PricesTypeOK
  <2> QED
    BY <1>2, <1>3, <1>4, <2>1
<1>7. results' \subseteq Tasks /\ \A x \in results' \cup collected' : x \in Over' /\ result'[x] = Nil
  <2>1. CASE PutResult(t)
    <3>1. results' = results \cup {t} /\ result'[t] = Nil
      BY <2>1 DEF PutResult
    <3> QED
      BY <1>1, <1>3, <1>6, <3>1 DEF CallInv, PricesTypeOK
  <2>2. CASE ReturnError(t)
    BY <1>1, <1>6, <2>2 DEF ReturnError, CallInv, PricesTypeOK
  <2> QED
    BY <2>1, <2>2
<1>8. /\ victims' \subseteq victims \cup {t} /\ victims' \subseteq Tasks
      /\ victims' # {} => cancelled'
  <2>1. CASE PutResult(t)
    BY <1>1, <2>1 DEF PutResult, CallInv, PricesTypeOK
  <2>2. CASE ReturnError(t)
    <3>1. victims' = IF got[t] = Cancelled THEN victims \cup {t} ELSE victims
      BY <2>2 DEF ReturnError
    <3>2. got[t] = Cancelled => cancelled
      BY TasksAssumption DEF CallInv
    <3> QED
      BY <1>1, <3>1, <3>2 DEF CallInv, PricesTypeOK
  <2> QED
    BY <2>1, <2>2
<1>9. firstErr' \in (Over' \ victims') \cup {Nil}
  <2>1. firstErr \in (Over \ victims) \cup {Nil}
    BY DEF CallInv
  <2> QED
    BY <1>1, <1>2, <1>3, <1>8, <2>1
<1>10. PricesTypeOK'
  BY <1>1, <1>2, <1>7, <1>8 DEF ClientInv, CallInv, PricesTypeOK
<1>11. /\ \A i \in DOMAIN errc'.buf : errc'.buf[i] \in Over' \cup {Nil}
       /\ \A x \in Tasks : result'[x] \in {Nil, x}
       /\ cancelled' <=> firstErr' # Nil
       /\ reply' = "products" => collected' = Tasks
  BY <1>1, <1>2, <1>4 DEF CallInv
<1> QED
  BY <1>2, <1>5, <1>7, <1>8, <1>9, <1>10, <1>11 DEF CallInv

LEMMA CallInvStep ==
    ASSUME Inv, ClientInv, ClientInv', CallInv, [PricesNext]_pricesVars
    PROVE  CallInv'
<1>1. closed \in BOOLEAN /\ reply \in {"none", "products", "error"}
      /\ (reply = "products" => collected = Tasks)
  BY DEF CallInv, PricesTypeOK
<1>2. ASSUME ctxDone' \subseteq ctxDone, errc'.buf = errc.buf,
             UNCHANGED <<result, firstErr, cancelled, callVars>>
      PROVE  CallInv'
  BY <1>1, <1>2, QuietStep DEF callVars, Tasks
<1>3. CASE Launch
  BY <1>2, <1>3 DEF Launch, Go, LookupCall
<1>4. CASE ReceiveResult
  BY <1>4, ReceiveCallStep
<1>5. CASE TakeResult
  <2>1. /\ UNCHANGED <<ctxDone, errc, result, firstErr, cancelled, closed, victims>>
        /\ results' \cup collected' \subseteq results \cup collected
        /\ reply' = IF collected' = Tasks THEN "products" ELSE "none"
    BY <1>5 DEF TakeResult, vars, lookupVars
  <2> QED
    BY <1>1, <2>1, QuietStep DEF Tasks
<1>6. CASE GiveUp
  <2>1. /\ UNCHANGED <<ctxDone, errc, result, firstErr, cancelled, results, collected, victims>>
        /\ closed' = TRUE /\ reply' = "error"
    BY <1>6 DEF GiveUp, vars, lookupVars
  <2> QED
    BY <2>1, QuietStep
<1>7. CASE (EnterWait \/ Return) /\ UNCHANGED <<lookupVars, callVars>>
  BY <1>2, <1>7 DEF EnterWait, Return, lookupVars
<1>8. ASSUME NEW t \in Tasks, GoroutineStep(t) PROVE CallInv'
  <2>1. CASE PutResult(t) \/ ReturnError(t)
    BY <2>1, CallbackCallStep
  <2>2. CASE PutPanics(t) \/ (Panic(t) /\ LookupsDie /\ UNCHANGED callVars)
    BY <1>2, <2>2 DEF PutPanics, Panic, LookupsDie
  <2>3. CASE Send(t) /\ UNCHANGED <<lookupVars, callVars>>
    BY <2>3, SendCallStep
  <2>4. CASE (Decrement(t) \/ Load(t) \/ Close(t)) /\ UNCHANGED <<lookupVars, callVars>>
    <3>1. errc'.buf = errc.buf
      BY <2>4 DEF Decrement, Load, Close, Inv, TypeOK
    <3> QED
      BY <1>2, <2>4, <3>1 DEF Decrement, Load, Close, lookupVars
  <2> QED
    BY <1>8, <2>1, <2>2, <2>3, <2>4 DEF GoroutineStep
<1>9. ASSUME NEW l \in Lookups, OtherRequest(l) \/ Lock(l) \/ Step(l) PROVE CallInv'
  <2>1. UNCHANGED <<vars, callVars>>
    BY <1>9 DEF OtherRequest, Lock, Step
  <2>2. ctxDone' = ctxDone
    BY <1>9, LookupStepHolds DEF OtherRequest, Lock, Step, LookupCall, LookupLock, LookupUnlock
  <2> QED
    BY <1>2, <2>1, <2>2 DEF vars
<1>10. CASE Alive /\ Elsewhere /\ UNCHANGED <<vars, callVars>>
  BY <1>2, <1>10 DEF Elsewhere, Change, Expire, vars
<1>11. CASE UNCHANGED pricesVars
  BY <1>2, <1>11 DEF pricesVars, vars, lookupVars
<1> QED
  BY <1>3, <1>4, <1>5, <1>6, <1>7, <1>8, <1>9, <1>10, <1>11 DEF PricesNext, RequestStep
-----------------------------------------------------------------------------
LEMMA PricesInitInv == PricesInit => PricesInv
<1> SUFFICES ASSUME PricesInit PROVE PricesInv
  OBVIOUS
<1>1. Inv
  BY InitInv DEF PricesInit
<1>2. LookupTypeOK
  <2>1. 1 \in Versions /\ 0 \in 0 .. MaxAttempts
    BY MaxVersionAssumption DEF Versions, MaxAttempts
  <2>2. waitCh = TRUE /\ redisFailed = FALSE
    BY DEF PricesInit, LookupInit
  <2> QED
    BY <2>1, <2>2 DEF PricesInit, LookupInit, LookupTypeOK, LookupStates
<1>3. FreshOK
  BY DEF PricesInit, LookupInit, FreshOK, Nothing
<1>4. ClientInv
  BY <1>2, <1>3 DEF PricesInit, LookupInit, ClientInv, OneLookupAtATime, Holding
<1>5. PricesTypeOK
  BY <1>2 DEF PricesInit, PricesTypeOK
<1>6. errc.buf = <<>>
  BY DEF PricesInit, Init
<1>7. \A l \in Lookups : got[l] # Cancelled
  BY DEF PricesInit, LookupInit, Nothing, Cancelled
<1>8. CallInv
  BY <1>5, <1>6, <1>7 DEF PricesInit, LookupInit, Init, CallInv
<1> QED
  BY <1>1, <1>4, <1>8 DEF PricesInv

LEMMA PricesInvHolds == PricesSpec => []PricesInv
<1>1. ASSUME PricesInv, [PricesNext]_pricesVars PROVE PricesInv'
  BY <1>1, GroupInvStep, ClientStepOf, ClientInvStep, CallInvStep DEF PricesInv
<1> QED
  BY <1>1, PricesInitInv, PTL DEF PricesSpec
-----------------------------------------------------------------------------
\* However many requests and carts want one product, one of them asks the
\* service and writes the cache at a time, and the others wait; no way out of
\* GetProduct, and no crash of the process, lets a second one in.
THEOREM LookupsExcludeEachOther == PricesSpec => []OneLookupPerProduct
<1>1. PricesInv => OneLookupPerProduct
  BY DEF PricesInv, ClientInv, OneLookupAtATime, OneLookupPerProduct, Holding
<1> QED
  BY <1>1, PricesInvHolds, PTL

\* GetCart returns products only if it has found each of them, although Wait
\* may return while tasks are still running.
THEOREM CartAnswerIsComplete == PricesSpec => []AnswerIsComplete
<1>1. PricesInv => AnswerIsComplete
  BY DEF PricesInv, CallInv, AnswerIsComplete
<1> QED
  BY <1>1, PricesInvHolds, PTL

\* The error GetCart returns is never that of a lookup which only failed
\* because another error had cancelled it.
THEOREM CartErrorIsTheCause == PricesSpec => []ErrorIsTheCause
<1>1. PricesInv => ErrorIsTheCause
  BY DEF PricesInv, CallInv, ErrorIsTheCause
<1> QED
  BY <1>1, PricesInvHolds, PTL

\* While the calls of Redis work, no user is shown an older description of a
\* product after a newer one.
THEOREM ShownOnlyGetsNewer == PricesSpec => DescriptionsDoNotGoBack
<1>1. ASSUME PricesInv, [PricesNext]_pricesVars
      PROVE  [redisFailed \/ \A p \in Products : shown'[p] >= shown[p]]_lookupVars
  <2>1. LookupTypeOK /\ (~ redisFailed => FreshOK)
    BY <1>1 DEF PricesInv, ClientInv
  <2>2. \A p \in Products : shown[p] \in Nat
    BY <2>1, VersionFacts DEF LookupTypeOK
  <2>3. UNCHANGED shown => \A p \in Products : shown'[p] >= shown[p]
    BY <2>2
  <2>4. ASSUME NEW l \in Lookups, LookupUnlock(l), ~ redisFailed
        PROVE  \A p \in Products : shown'[p] >= shown[p]
    <3>1. CASE got[l] \in Versions
      <4>1. lookup[l] = "unlocking" /\ shown' = [shown EXCEPT ![ProductOf[l]] = got[l]]
        BY <2>4, <3>1 DEF LookupUnlock
      <4>2. shown[ProductOf[l]] <= got[l] /\ got[l] \in Nat
        BY <2>1, <2>4, <3>1, <4>1, VersionFacts DEF FreshOK
      <4> QED
        BY <2>1, <2>2, <4>1, <4>2, ProductOfAssumption DEF LookupTypeOK
    <3>2. CASE got[l] \notin Versions
      BY <2>3, <2>4, <3>2 DEF LookupUnlock
    <3> QED
      BY <3>1, <3>2
  <2>5. ClientStep /\ ClientInv
    BY <1>1, ClientStepOf DEF PricesInv
  <2>6. ASSUME NEW l \in Lookups, LookupCall(l) \/ LookupLock(l) \/ LookupStep(l)
        PROVE  UNCHANGED shown
    BY <2>5, <2>6, LookupStepHolds DEF LookupCall, LookupLock
  <2>7. CASE LookupsDie \/ Elsewhere
    BY <2>3, <2>7 DEF LookupsDie, Elsewhere, Change, Expire
  <2> QED
    BY <2>3, <2>4, <2>5, <2>6, <2>7 DEF ClientStep
<1> QED
  BY <1>1, PricesInvHolds, PTL DEF PricesSpec, DescriptionsDoNotGoBack
=============================================================================
