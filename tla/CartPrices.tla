------------------------------ MODULE CartPrices ------------------------------
(***************************************************************************)
(* GetCart's calculateTotal (cart_service.go): an error group with one     *)
(* task per product of the cart.  A task looks its product up, through the *)
(* process's one product client, and puts what it found into a channel     *)
(* with room for all; after Wait the caller either closes the channel and  *)
(* returns the error, or takes as many results from it as the cart has     *)
(* products.  The lookups of other requests run beside them.               *)
(***************************************************************************)
EXTENDS ErrGroup, ProductClient

ASSUME TasksAssumption == Tasks \subseteq Lookups

VARIABLES
    results,    \* the channel's content: the tasks whose result is in it
    closed,     \* the channel is closed
    collected,  \* tasks whose result the caller has taken
    reply,      \* "none", "products" or "error"
    victims     \* history: tasks whose lookup failed with its context done

callVars == <<results, closed, collected, reply, victims>>
pricesVars == <<vars, lookupVars, callVars>>

Alive == caller # "dead"

PricesInit ==
    /\ Init
    /\ LookupInit
    /\ results = {}
    /\ closed = FALSE
    /\ collected = {}
    /\ reply = "none"
    /\ victims = {}

\* The limiter puts a pause before each launch; the callback calls GetProduct.
Launch ==
    /\ Go
    /\ LookupCall(launched')
    /\ UNCHANGED callVars

\* The first error cancels the context that the tasks' lookups share.
ReceiveResult ==
    /\ Receive
    /\ ctxDone' = IF cancelled' THEN ctxDone \cup Tasks ELSE ctxDone
    /\ UNCHANGED <<waitCh, lookup, attempts, got, version, cache, shown, redisFailed, callVars>>

\* GetProduct returns a product, and the callback puts it into the channel.
PutResult(t) ==
    /\ LookupUnlock(t)
    /\ got[t] \in Versions
    /\ ~ closed
    /\ Callback(t)
    /\ result'[t] = Nil
    /\ results' = results \cup {t}
    /\ UNCHANGED <<closed, collected, reply, victims>>

\* It returns an error, and the callback with it.
ReturnError(t) ==
    /\ LookupUnlock(t)
    /\ got[t] \notin Versions
    /\ Callback(t)
    /\ result'[t] = t
    /\ victims' = IF got[t] = Cancelled THEN victims \cup {t} ELSE victims
    /\ UNCHANGED <<results, closed, collected, reply>>

\* The channel has been closed by a caller that gave up: the process panics.
PutPanics(t) ==
    /\ lookup[t] = "unlocking"
    /\ got[t] \in Versions
    /\ closed
    /\ task[t] = "running"
    /\ caller' = "dead"
    /\ task' = [x \in Tasks |-> "dead"]
    /\ LookupsDie
    /\ UNCHANGED <<launched, result, errc, count, firstErr, cancelled, early, callVars>>

\* Mutant: the products that are there are all there is.
TakeWhatIsThere ==
    /\ caller = "returned"
    /\ firstErr = Nil
    /\ reply = "none"
    /\ collected' = results
    /\ results' = {}
    /\ reply' = "products"
    /\ UNCHANGED <<vars, lookupVars, closed, victims>>

\* Wait has returned nil: one result per product is taken, in any order.
TakeResult ==
    /\ caller = "returned"
    /\ firstErr = Nil
    /\ reply = "none"
    /\ \E t \in results :
           /\ results' = results \ {t}
           /\ collected' = collected \cup {t}
    /\ reply' = IF collected' = Tasks THEN "products" ELSE "none"
    /\ UNCHANGED <<vars, lookupVars, closed, victims>>

\* Wait has returned an error.
GiveUp ==
    /\ caller = "returned"
    /\ firstErr # Nil
    /\ reply = "none"
    /\ closed' = TRUE
    /\ reply' = "error"
    /\ UNCHANGED <<vars, lookupVars, results, collected, victims>>

\* The caller, and the tasks, of one GetCart.
RequestStep ==
    \/ Launch
    \/ EnterWait /\ UNCHANGED <<lookupVars, callVars>>
    \/ ReceiveResult
    \/ Return /\ UNCHANGED <<lookupVars, callVars>>
    \/ TakeResult
    \/ GiveUp

GoroutineStep(t) ==
    \/ PutResult(t) \/ ReturnError(t) \/ PutPanics(t)
    \/ /\ Send(t) \/ Decrement(t) \/ Load(t) \/ Close(t)
       /\ UNCHANGED <<lookupVars, callVars>>
    \/ Panic(t) /\ LookupsDie /\ UNCHANGED callVars

\* Other requests look products up, again and again.
OtherRequest(l) ==
    /\ Alive
    /\ l \notin Tasks
    /\ LookupCall(l)
    /\ UNCHANGED <<vars, callVars>>

Lock(l) == Alive /\ LookupLock(l) /\ UNCHANGED <<vars, callVars>>

\* Of a task the group's callback does the rest once GetProduct returns.
Step(l) ==
    /\ Alive
    /\ LookupStep(l) \/ (l \notin Tasks /\ LookupUnlock(l))
    /\ UNCHANGED <<vars, callVars>>

PricesNext ==
    \/ RequestStep
    \/ \E t \in Tasks : GoroutineStep(t)
    \/ \E l \in Lookups : OtherRequest(l) \/ Lock(l) \/ Step(l)
    \/ Alive /\ Elsewhere /\ UNCHANGED <<vars, callVars>>

PricesSpec == PricesInit /\ [][PricesNext]_pricesVars

\* A goroutine that can take its next step again and again does: the channels
\* serve their waiters in turn, a call of Redis ends, and so does the HTTP call
\* with its 5 second timeout.
FairPricesSpec ==
    /\ PricesSpec
    /\ WF_pricesVars(RequestStep)
    /\ \A t \in Tasks : SF_pricesVars(GoroutineStep(t) \/ Lock(t) \/ Step(t))
    /\ \A l \in Lookups \ Tasks : WF_pricesVars(Step(l))
-----------------------------------------------------------------------------
\* What the variables hold; the other invariants rest on it in the proofs.
PricesTypeOK ==
    /\ LookupTypeOK
    /\ results \subseteq Tasks
    /\ closed \in BOOLEAN
    /\ collected \subseteq Tasks
    /\ reply \in {"none", "products", "error"}
    /\ victims \subseteq Tasks

\* GetCart answers with products only when every product of the cart was
\* found, once each, though Wait may return before some are.
AnswerIsComplete ==
    reply = "products" =>
        /\ collected = Tasks
        /\ \A t \in Tasks : result[t] = Nil

\* The error GetCart returns is that of a lookup that failed by itself, not of
\* one that was cancelled because of it: handlers turn ErrProductNotFound and
\* other errors into different answers.
ErrorIsTheCause == firstErr # Nil => firstErr \notin victims

\* A request for a cart is answered, whatever the other requests' lookups do
\* with the one lock, the cache and the service, unless a panic of the error
\* group takes the process down.
RequestIsAnswered == <>(reply # "none" \/ ~ Alive)
=============================================================================
