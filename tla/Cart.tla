-------------------------------- MODULE Cart --------------------------------
(***************************************************************************)
(* The cart service: the in-memory storage behind its mutex, the addition  *)
(* of a product (both checks, then AddItem), and the checkout, which reads *)
(* the cart, asks for the prices, creates the order in LOMS and deletes    *)
(* the cart, one call after the other and without a lock around them.      *)
(* Operations of the storage are single steps: each holds the mutex.       *)
(* Names and prices are left out, and the process keeps nothing when it    *)
(* ends.                                                                   *)
(***************************************************************************)
EXTENDS Integers

CONSTANTS
    Handlers,   \* concurrent HTTP handlers
    Users,
    Skus,
    Counts,     \* counts of additions
    MaxCalls,   \* bound: calls of LOMS in all
    Timeouts,   \* TRUE: a call of LOMS may end without its answer
    Careful     \* users who have one request in flight at a time

\* The values of a uint16.
Uint16s == {n \in Nat : n < 65536}

\* A zero count is refused by the handler.
ASSUME CountsAssumption == Counts \subseteq Uint16s \ {0}
ASSUME MaxCallsAssumption == MaxCalls \in Nat
ASSUME TimeoutsAssumption == Timeouts \in BOOLEAN
ASSUME CarefulAssumption == Careful \subseteq Users

VARIABLES
    carts,   \* user -> sku -> count, for users and products that have one
    pc,      \* handler -> the next call of its request
    req,     \* handler -> the request's Go variables
    calls,   \* calls of LOMS so far
    placed,  \* orders LOMS has stored
    late,    \* calls that LOMS still works on when cart has given them up
    answer   \* user -> the last answer: [op, ok]

vars == <<carts, pc, req, calls, placed, late, answer>>

Ops == {"add", "remove", "delete", "checkout"}

PcValues == {"idle", "checks", "addItem", "getItems", "prices", "order", "deleteItems"}

NoItems == <<>>
Request(u, s, n) ==
    [user |-> u, sku |-> s, count |-> n, items |-> NoItems, call |-> 0]
NoRequest == Request("none", "none", 0)

NoAnswer == [op |-> "none", ok |-> TRUE]
Answer(op, u, ok) == answer' = [answer EXCEPT ![u] = [op |-> op, ok |-> ok]]

uint16(n) == n % 65536

Init ==
    /\ carts = <<>>
    /\ pc = [h \in Handlers |-> "idle"]
    /\ req = [h \in Handlers |-> NoRequest]
    /\ calls = 0
    /\ placed = {}
    /\ late = {}
    /\ answer = [u \in Users |-> NoAnswer]

\* The environment assumption: a careful user waits for the answer.
MayAsk(u) ==
    u \in Careful => \A h \in Handlers : pc[h] # "idle" => req[h].user # u

GoTo(h, label) == pc' = [pc EXCEPT ![h] = label]

\* The handler answers, with success or with an error.
Finish(h, op, ok) ==
    /\ GoTo(h, "idle")
    /\ Answer(op, req[h].user, ok)
    /\ req' = [req EXCEPT ![h] = NoRequest]

Begin(h, label, request) ==
    /\ pc[h] = "idle"
    /\ MayAsk(request.user)
    /\ GoTo(h, label)
    /\ req' = [req EXCEPT ![h] = request]
    /\ UNCHANGED <<carts, calls, placed, late, answer>>
-----------------------------------------------------------------------------
\* A product is added: SaveProductItem.
BeginSave(h) ==
    \E u \in Users, s \in Skus, n \in Counts :
        Begin(h, "checks", Request(u, s, n))

\* The group's Wait returns nil.
ChecksPass(h) ==
    /\ pc[h] = "checks"
    /\ GoTo(h, "addItem")
    /\ UNCHANGED <<carts, req, calls, placed, late, answer>>

\* It returns an error: no such product, too few of it, or no answer.
ChecksFail(h) ==
    /\ pc[h] = "checks"
    /\ Finish(h, "add", FALSE)
    /\ UNCHANGED <<carts, calls, placed, late>>

CartOf(u) == IF u \in DOMAIN carts THEN carts[u] ELSE NoItems

CountOf(cart, s) == IF s \in DOMAIN cart THEN cart[s] ELSE 0

\* Mutant: counts are added up without their width.
AddedWide(cart, s, n) ==
    [x \in DOMAIN cart \cup {s} |-> IF x = s THEN CountOf(cart, s) + n ELSE cart[x]]

\* The count of s goes up in 16 bits.
Added(cart, s, n) ==
    [x \in DOMAIN cart \cup {s} |->
        IF x = s THEN uint16(CountOf(cart, s) + n) ELSE cart[x]]

AddItem(h) ==
    LET u == req[h].user IN
    /\ pc[h] = "addItem"
    /\ carts' = [v \in DOMAIN carts \cup {u} |->
                   IF v = u THEN Added(CartOf(u), req[h].sku, req[h].count)
                   ELSE carts[v]]
    /\ Finish(h, "add", TRUE)
    /\ UNCHANGED <<calls, placed, late>>

Without(f, x) == [y \in DOMAIN f \ {x} |-> f[y]]

\* DELETE of a product: an error for users without a cart, and the emptied
\* cart stays.
RemoveItem(u, s) ==
    /\ MayAsk(u)
    /\ Answer("remove", u, u \in DOMAIN carts)
    /\ carts' = [v \in DOMAIN carts |-> IF v = u THEN Without(carts[v], s) ELSE carts[v]]
    /\ UNCHANGED <<pc, req, calls, placed, late>>

\* DELETE of the whole cart.
DeleteCart(u) ==
    /\ MayAsk(u)
    /\ Answer("delete", u, TRUE)
    /\ carts' = Without(carts, u)
    /\ UNCHANGED <<pc, req, calls, placed, late>>
-----------------------------------------------------------------------------
\* POST /cart/checkout.
BeginCheckout(h) ==
    \E u \in Users : Begin(h, "getItems", Request(u, "none", 0))

\* GetItemsByUserId: an error for a missing cart and for an empty one.
GetItems(h) ==
    LET items == CartOf(req[h].user) IN
    /\ pc[h] = "getItems"
    /\ IF items = NoItems
       THEN Finish(h, "checkout", FALSE)
       ELSE /\ GoTo(h, "prices")
            /\ req' = [req EXCEPT ![h].items = items]
            /\ UNCHANGED answer
    /\ UNCHANGED <<carts, calls, placed, late>>

\* calculateTotal has every price, and CreateOrder calls LOMS with the items.
CallLoms(h) ==
    /\ pc[h] = "prices"
    /\ calls < MaxCalls
    /\ calls' = calls + 1
    /\ req' = [req EXCEPT ![h].call = calls + 1]
    /\ GoTo(h, "order")
    /\ UNCHANGED <<carts, placed, late, answer>>

PricesFail(h) ==
    /\ pc[h] = "prices"
    /\ Finish(h, "checkout", FALSE)
    /\ UNCHANGED <<carts, calls, placed, late>>

OrderOf(h) == [call |-> req[h].call, user |-> req[h].user, items |-> req[h].items]

\* What the validation of LOMS lets through.
IsValid(order) == \A s \in DOMAIN order.items : order.items[s] > 0

\* LOMS stores the order; its answer is under way.
OrderPlaced(h) ==
    /\ pc[h] = "order"
    /\ IsValid(OrderOf(h))
    /\ placed' = placed \cup {OrderOf(h)}
    /\ GoTo(h, "deleteItems")
    /\ UNCHANGED <<carts, req, calls, late, answer>>

\* Mutant: the handler goes on after the error of CreateOrder.
OrderRefusedIgnored(h) ==
    /\ pc[h] = "order"
    /\ carts' = Without(carts, req[h].user)
    /\ Finish(h, "checkout", TRUE)
    /\ UNCHANGED <<calls, placed, late>>

OrderRefused(h) ==
    /\ pc[h] = "order"
    /\ Finish(h, "checkout", FALSE)
    /\ UNCHANGED <<carts, calls, placed, late>>

\* Five seconds pass, before LOMS has done its work or after.
OrderTimesOut(h) ==
    /\ Timeouts
    /\ \/ pc[h] = "order" /\ late' = late \cup {OrderOf(h)}
       \/ pc[h] = "deleteItems" /\ UNCHANGED late
    /\ Finish(h, "checkout", FALSE)
    /\ UNCHANGED <<carts, calls, placed>>

\* The answer arrives, and the handler deletes the user's cart.
DeleteItems(h) ==
    /\ pc[h] = "deleteItems"
    /\ carts' = Without(carts, req[h].user)
    /\ Finish(h, "checkout", TRUE)
    /\ UNCHANGED <<calls, placed, late>>

\* LOMS ends its work on a call that cart has given up.
LateEnds(order) ==
    /\ late' = late \ {order}
    /\ \/ IsValid(order) /\ placed' = placed \cup {order}
       \/ UNCHANGED placed
    /\ UNCHANGED <<carts, pc, req, calls, answer>>

SaveStep(h) == BeginSave(h) \/ ChecksPass(h) \/ ChecksFail(h) \/ AddItem(h)

CheckoutStep(h) ==
    \/ BeginCheckout(h) \/ GetItems(h) \/ CallLoms(h) \/ PricesFail(h)
    \/ OrderPlaced(h) \/ OrderRefused(h) \/ OrderTimesOut(h) \/ DeleteItems(h)

Next ==
    \/ \E h \in Handlers : SaveStep(h) \/ CheckoutStep(h)
    \/ \E u \in Users : DeleteCart(u) \/ \E s \in Skus : RemoveItem(u, s)
    \/ \E order \in late : LateEnds(order)

Spec == Init /\ [][Next]_vars
-----------------------------------------------------------------------------
\* Carts are partial functions of products.
IsCart(cart) ==
    /\ DOMAIN cart \subseteq Skus
    /\ cart \in [DOMAIN cart -> Uint16s]

IsOrder(order) ==
    /\ order = [call |-> order.call, user |-> order.user, items |-> order.items]
    /\ order.call \in 1 .. calls
    /\ order.user \in Users
    /\ IsCart(order.items)

\* The variables of h's request.
RequestOK(h) ==
    /\ req[h] = [user |-> req[h].user, sku |-> req[h].sku, count |-> req[h].count,
                 items |-> req[h].items, call |-> req[h].call]
    /\ IsCart(req[h].items)
    /\ req[h].call \in 0 .. calls
    /\ pc[h] # "idle" => req[h].user \in Users
    /\ pc[h] \in {"checks", "addItem"} => req[h].sku \in Skus /\ req[h].count \in Counts

\* Every variable keeps its type; a count never outgrows its 16 bits.
TypeOK ==
    /\ DOMAIN carts \subseteq Users
    /\ carts = [u \in DOMAIN carts |-> carts[u]]
    /\ \A u \in DOMAIN carts : IsCart(carts[u])
    /\ pc \in [Handlers -> PcValues]
    /\ req = [h \in Handlers |-> req[h]]
    /\ \A h \in Handlers : RequestOK(h)
    /\ calls \in 0 .. MaxCalls
    /\ \A order \in placed \cup late : IsOrder(order)
    /\ answer \in [Users -> [op : Ops \cup {"none"}, ok : BOOLEAN]]

\* The order of a handler that waits for the answer is not taken for placed
\* before the answer, or its loss, shows what the user sees.
Answered == placed \ {OrderOf(h) : h \in {g \in Handlers : pc[g] = "deleteItems"}}

\* What belongs to the careful users.
Kept(f) == [u \in DOMAIN f \cap Careful |-> f[u]]
Theirs(orders) == {order \in orders : order.user \in Careful}

Promise == INSTANCE Shop WITH
    Users <- Careful, basket <- Kept(carts), answer <- Kept(answer),
    placed <- Theirs(Answered), pending <- Theirs(late)

\* To a careful user a checkout takes effect at once, whatever the other users
\* do: although the cart is read, ordered and deleted in three calls
\* (checkoutHandler), the order is the whole cart as it stands when it is
\* deleted, a checkout told to have failed leaves it alone, and a call given up
\* is carried out once or never.
ImplementsShop == Promise!ShopSpec

PromiseToAll == INSTANCE Shop WITH basket <- carts, placed <- Answered, pending <- late

-----------------------------------------------------------------------------
(* The strengthening that makes the refinement provable.                   *)

\* What a careful user has in flight belongs to one handler.
UsersTakeTurns ==
    \A g, h \in Handlers :
        g # h /\ pc[g] # "idle" /\ pc[h] # "idle" /\ req[g].user \in Careful =>
            req[g].user # req[h].user

\* From the read to the deletion nobody changes a careful user's cart.
SnapshotIsFresh ==
    \A h \in Handlers :
        pc[h] \in {"prices", "order", "deleteItems"} /\ req[h].user \in Careful =>
            /\ req[h].user \in DOMAIN carts
            /\ carts[req[h].user] = req[h].items
            /\ req[h].items # NoItems

\* A call has one number, and an order that is under way is in one place.
CallsAreUnique ==
    /\ \A h \in Handlers : pc[h] \in {"order", "deleteItems"} => req[h].call # 0
    /\ \A g, h \in Handlers :
        g # h /\ {pc[g], pc[h]} \subseteq {"order", "deleteItems"} =>
            req[g].call # req[h].call
    /\ \A h \in Handlers : \A order \in placed \cup late :
        pc[h] = "order" => order.call # req[h].call
    /\ \A h \in Handlers : pc[h] = "deleteItems" =>
        /\ OrderOf(h) \in placed
        /\ \A order \in placed : order.call = req[h].call => order = OrderOf(h)
        /\ \A order \in late : order.call # req[h].call
    /\ \A o \in late, p \in placed : o.call # p.call
    /\ \A o, p \in late : o.call = p.call => o = p

Inv == TypeOK /\ UsersTakeTurns /\ SnapshotIsFresh /\ CallsAreUnique
=============================================================================
