----------------------------- MODULE CartProofs -----------------------------
(***************************************************************************)
(* Cart implements Shop for the careful users, any number of handlers,     *)
(* users, products and calls, and whatever the other users do.             *)
(***************************************************************************)
EXTENDS Cart, TLAPS

\* The empty cart, and a cart that gains units or loses a product, are carts.
LEMMA NoItemsIsCart == IsCart(NoItems) /\ DOMAIN NoItems = {}
  BY DEF IsCart, NoItems

LEMMA AddedIsCart ==
    ASSUME NEW cart, IsCart(cart), NEW s \in Skus, NEW n \in Counts
    PROVE  IsCart(Added(cart, s, n)) /\ Added(cart, s, n) # NoItems
<1>1. CountOf(cart, s) \in Uint16s
  BY DEF IsCart, CountOf, Uint16s
<1>2. n \in Nat
  BY CountsAssumption DEF Uint16s
<1>3. uint16(CountOf(cart, s) + n) \in Uint16s
  BY <1>1, <1>2, SMTT(60) DEF uint16, Uint16s
<1>4. DOMAIN Added(cart, s, n) = DOMAIN cart \cup {s}
  BY DEF Added
<1>5. \A x \in DOMAIN cart \cup {s} : Added(cart, s, n)[x] \in Uint16s
  BY <1>3 DEF Added, IsCart
<1>6. Added(cart, s, n) \in [DOMAIN Added(cart, s, n) -> Uint16s]
  BY <1>4, <1>5 DEF Added
<1> QED
  BY <1>4, <1>6, NoItemsIsCart DEF IsCart

LEMMA WithoutIsCart ==
    ASSUME NEW cart, IsCart(cart), NEW s
    PROVE  IsCart(Without(cart, s))
  BY DEF IsCart, Without

\* Nothing is in flight at the start.
LEMMA InitInv == Init => Inv
<1> SUFFICES ASSUME Init PROVE Inv
  OBVIOUS
<1>1. TypeOK
  <2>1. DOMAIN carts = {} /\ carts = [u \in DOMAIN carts |-> carts[u]]
    BY DEF Init
  <2>2. \A h \in Handlers : IsCart(req[h].items)
    BY NoItemsIsCart DEF Init, NoRequest, Request
  <2> QED
    BY <2>1, <2>2, MaxCallsAssumption
       DEF Init, TypeOK, RequestOK, NoRequest, Request, PcValues, NoAnswer
<1> QED
  BY <1>1 DEF Init, Inv, UsersTakeTurns, SnapshotIsFresh, CallsAreUnique

\* A handler that has answered is free.
LEMMA FinishRequest ==
    ASSUME TypeOK, NEW h \in Handlers, pc[h] # "idle",
           NEW op \in Ops, NEW ok \in BOOLEAN, Finish(h, op, ok), UNCHANGED calls
    PROVE  /\ answer' \in [Users -> [op : Ops \cup {"none"}, ok : BOOLEAN]]
           /\ pc' \in [Handlers -> PcValues]
           /\ req' = [g \in Handlers |-> req'[g]]
           /\ \A g \in Handlers : RequestOK(g)'
<1> USE DEF TypeOK, Finish, GoTo
<1>1. /\ pc' = [g \in Handlers |-> IF g = h THEN "idle" ELSE pc[g]]
      /\ req' = [g \in Handlers |-> IF g = h THEN NoRequest ELSE req[g]]
  OBVIOUS
<1>2. RequestOK(h)'
  BY <1>1, NoItemsIsCart DEF RequestOK, NoRequest, Request
<1>3. ASSUME NEW g \in Handlers \ {h} PROVE RequestOK(g)'
  BY <1>1 DEF RequestOK
<1>4. answer' \in [Users -> [op : Ops \cup {"none"}, ok : BOOLEAN]]
  BY DEF Answer, RequestOK
<1> QED
  BY <1>1, <1>2, <1>3, <1>4 DEF PcValues

\* What an order needs of its fields.
LEMMA OrderIsOrder ==
    ASSUME TypeOK, NEW h \in Handlers, pc[h] # "idle", req[h].call # 0
    PROVE  IsOrder(OrderOf(h))
  BY DEF TypeOK, RequestOK, IsOrder, OrderOf

-----------------------------------------------------------------------------
\* One lemma per action: it keeps the invariant.
LEMMA BeginInv ==
    ASSUME Inv, NEW h \in Handlers, NEW u \in Users,
           NEW label \in {"checks", "getItems"}, NEW r, Begin(h, label, r),
           r.user = u, r.items = NoItems, r.call = 0,
           r = [user |-> r.user, sku |-> r.sku, count |-> r.count,
                items |-> r.items, call |-> r.call],
           label = "checks" => r.sku \in Skus /\ r.count \in Counts
    PROVE  Inv'
<1> USE DEF Inv, Begin, GoTo
<1>1. TypeOK'
  <2>1. /\ pc' = [g \in Handlers |-> IF g = h THEN label ELSE pc[g]]
        /\ req' = [g \in Handlers |-> IF g = h THEN r ELSE req[g]]
    BY DEF TypeOK
  <2>2. RequestOK(h)'
    BY <2>1, NoItemsIsCart DEF TypeOK, RequestOK
  <2>3. ASSUME NEW g \in Handlers \ {h} PROVE RequestOK(g)'
    BY <2>1 DEF TypeOK, RequestOK
  <2> QED
    BY <2>1, <2>2, <2>3 DEF TypeOK, PcValues, IsOrder
<1>2. UsersTakeTurns'
  BY DEF UsersTakeTurns, MayAsk, TypeOK, RequestOK
<1>3. SnapshotIsFresh'
  BY DEF SnapshotIsFresh, TypeOK, RequestOK
<1>4. CallsAreUnique'
  BY DEF CallsAreUnique, TypeOK, RequestOK, OrderOf
<1> QED
  BY <1>1, <1>2, <1>3, <1>4

\* A handler that answers leaves the others as they are.
LEMMA FinishInv ==
    ASSUME Inv, NEW h \in Handlers, pc[h] # "idle", NEW op \in Ops, NEW ok \in BOOLEAN,
           Finish(h, op, ok), UNCHANGED <<carts, calls, placed, late>>
    PROVE  Inv'
<1> USE DEF Inv, Finish, GoTo
<1>1. TypeOK'
  BY FinishRequest DEF Ops, TypeOK, IsOrder
<1>2. UsersTakeTurns'
  BY DEF UsersTakeTurns, TypeOK, RequestOK
<1>3. SnapshotIsFresh'
  BY DEF SnapshotIsFresh, TypeOK, RequestOK
<1>4. CallsAreUnique'
  BY DEF CallsAreUnique, TypeOK, RequestOK, OrderOf
<1> QED
  BY <1>1, <1>2, <1>3, <1>4

LEMMA ChecksPassInv ==
    ASSUME Inv, NEW h \in Handlers, ChecksPass(h)
    PROVE  Inv'
<1> USE DEF Inv, ChecksPass, GoTo
<1>1. TypeOK'
  BY DEF TypeOK, RequestOK, PcValues, IsOrder
<1>2. UsersTakeTurns'
  BY DEF UsersTakeTurns, TypeOK, RequestOK
<1>3. SnapshotIsFresh'
  BY DEF SnapshotIsFresh, TypeOK, RequestOK
<1>4. CallsAreUnique'
  BY DEF CallsAreUnique, TypeOK, RequestOK, OrderOf
<1> QED
  BY <1>1, <1>2, <1>3, <1>4

LEMMA AddItemInv ==
    ASSUME Inv, NEW h \in Handlers, AddItem(h)
    PROVE  Inv'
<1> USE DEF Inv, AddItem, Finish, GoTo
<1> DEFINE u == req[h].user
<1>1. u \in Users /\ req[h].sku \in Skus /\ req[h].count \in Counts
  BY DEF TypeOK, RequestOK
<1>2. IsCart(CartOf(u))
  BY NoItemsIsCart DEF TypeOK, RequestOK, CartOf
<1>3. IsCart(Added(CartOf(u), req[h].sku, req[h].count))
  BY <1>1, <1>2, AddedIsCart
<1>4. \A v \in DOMAIN carts' : IsCart(carts'[v])
  BY <1>3 DEF TypeOK, RequestOK
<1>5. TypeOK'
  BY <1>1, <1>4, FinishRequest DEF Ops, TypeOK, IsOrder
<1>6. UsersTakeTurns'
  BY DEF UsersTakeTurns, TypeOK, RequestOK
<1>7. SnapshotIsFresh'
  BY DEF SnapshotIsFresh, UsersTakeTurns, TypeOK, RequestOK
<1>8. CallsAreUnique'
  BY DEF CallsAreUnique, TypeOK, RequestOK, OrderOf
<1> QED
  BY <1>5, <1>6, <1>7, <1>8

LEMMA RemoveItemInv ==
    ASSUME Inv, NEW u \in Users, NEW s \in Skus, RemoveItem(u, s)
    PROVE  Inv'
<1> USE DEF Inv, RemoveItem
<1>1. \A v \in DOMAIN carts : IsCart(carts'[v])
  BY WithoutIsCart DEF TypeOK
<1>2. TypeOK'
  BY <1>1 DEF TypeOK, RequestOK, IsOrder, Answer, Ops
<1>3. SnapshotIsFresh'
  BY DEF SnapshotIsFresh, MayAsk, TypeOK, RequestOK
<1>4. UsersTakeTurns' /\ CallsAreUnique'
  BY DEF UsersTakeTurns, CallsAreUnique, OrderOf
<1> QED
  BY <1>2, <1>3, <1>4

LEMMA DeleteCartInv ==
    ASSUME Inv, NEW u \in Users, DeleteCart(u)
    PROVE  Inv'
<1> USE DEF Inv, DeleteCart
<1>1. TypeOK'
  BY DEF TypeOK, RequestOK, IsOrder, Without, Answer, Ops
<1>2. SnapshotIsFresh'
  BY DEF SnapshotIsFresh, MayAsk, TypeOK, RequestOK, Without
<1>3. UsersTakeTurns' /\ CallsAreUnique'
  BY DEF UsersTakeTurns, CallsAreUnique, OrderOf
<1> QED
  BY <1>1, <1>2, <1>3

LEMMA GetItemsInv ==
    ASSUME Inv, NEW h \in Handlers, GetItems(h)
    PROVE  Inv'
<1>1. CASE CartOf(req[h].user) = NoItems
  BY <1>1, FinishInv DEF GetItems, Ops
<1>2. CASE CartOf(req[h].user) # NoItems
  <2> USE <1>2 DEF Inv, GetItems, GoTo
  <2>1. req[h].user \in DOMAIN carts /\ CartOf(req[h].user) = carts[req[h].user]
    BY DEF CartOf
  <2> DEFINE r == req[h]
             snapshot == [r EXCEPT !.items = CartOf(r.user)]
  <2>2. /\ pc' = [g \in Handlers |-> IF g = h THEN "prices" ELSE pc[g]]
        /\ req' = [g \in Handlers |-> IF g = h THEN snapshot ELSE req[g]]
    BY DEF TypeOK
  <2>3. r = [user |-> r.user, sku |-> r.sku, count |-> r.count,
             items |-> r.items, call |-> r.call]
    BY DEF TypeOK, RequestOK
  <2>4. snapshot = [user |-> r.user, sku |-> r.sku, count |-> r.count,
                    items |-> CartOf(r.user), call |-> r.call]
    BY <2>3
  <2> HIDE DEF snapshot
  <2>5. TypeOK'
    BY <2>1, <2>2, <2>4 DEF TypeOK, RequestOK, PcValues, IsOrder
  <2>6. UsersTakeTurns'
    BY <2>2, <2>4 DEF UsersTakeTurns
  <2>7. SnapshotIsFresh'
    BY <2>1, <2>2, <2>4 DEF SnapshotIsFresh
  <2>8. CallsAreUnique'
    BY <2>2, <2>4 DEF CallsAreUnique, OrderOf
  <2> QED
    BY <2>5, <2>6, <2>7, <2>8
<1> QED
  BY <1>1, <1>2

LEMMA CallLomsInv ==
    ASSUME Inv, NEW h \in Handlers, CallLoms(h)
    PROVE  Inv'
<1> USE MaxCallsAssumption DEF Inv, CallLoms, GoTo
<1>1. \A o \in placed \cup late : IsOrder(o)'
  BY DEF TypeOK, RequestOK, IsOrder
<1>2. TypeOK'
  BY <1>1 DEF TypeOK, RequestOK, PcValues
<1>3. UsersTakeTurns'
  BY DEF UsersTakeTurns, TypeOK, RequestOK
<1>4. SnapshotIsFresh'
  BY DEF SnapshotIsFresh, TypeOK, RequestOK
<1>5. /\ \A g \in Handlers : req[g].call # calls + 1
      /\ \A o \in placed \cup late : o.call # calls + 1
  BY DEF TypeOK, RequestOK, IsOrder
<1>6. CallsAreUnique'
  BY <1>5 DEF CallsAreUnique, TypeOK, RequestOK, OrderOf
<1> QED
  BY <1>2, <1>3, <1>4, <1>6

LEMMA OrderPlacedInv ==
    ASSUME Inv, NEW h \in Handlers, OrderPlaced(h)
    PROVE  Inv'
<1> USE DEF Inv, OrderPlaced, GoTo
<1>1. req[h].call # 0 /\ IsOrder(OrderOf(h))
  BY OrderIsOrder DEF CallsAreUnique
<1>2. TypeOK'
  BY <1>1 DEF TypeOK, RequestOK, PcValues, IsOrder
<1>3. UsersTakeTurns'
  BY DEF UsersTakeTurns, TypeOK, RequestOK
<1>4. SnapshotIsFresh'
  BY DEF SnapshotIsFresh, TypeOK, RequestOK
<1>5. CallsAreUnique'
  BY DEF CallsAreUnique, TypeOK, RequestOK, OrderOf
<1> QED
  BY <1>2, <1>3, <1>4, <1>5

LEMMA OrderTimesOutInv ==
    ASSUME Inv, NEW h \in Handlers, OrderTimesOut(h)
    PROVE  Inv'
<1>1. CASE pc[h] = "order" /\ late' = late \cup {OrderOf(h)}
  <2> USE <1>1 DEF Inv, OrderTimesOut, Finish, GoTo
  <2>1. req[h].call # 0 /\ IsOrder(OrderOf(h))
    BY OrderIsOrder DEF CallsAreUnique
  <2>2. TypeOK'
    BY <2>1, FinishRequest DEF Ops, TypeOK, IsOrder
  <2>3. UsersTakeTurns'
    BY DEF UsersTakeTurns, TypeOK, RequestOK
  <2>4. SnapshotIsFresh'
    BY DEF SnapshotIsFresh, TypeOK, RequestOK
  <2>5. CallsAreUnique'
    BY DEF CallsAreUnique, TypeOK, RequestOK, OrderOf
  <2> QED
    BY <2>2, <2>3, <2>4, <2>5
<1>2. CASE pc[h] = "deleteItems" /\ UNCHANGED late
  BY <1>2, FinishInv DEF OrderTimesOut, Ops
<1> QED
  BY <1>1, <1>2 DEF OrderTimesOut

LEMMA DeleteItemsInv ==
    ASSUME Inv, NEW h \in Handlers, DeleteItems(h)
    PROVE  Inv'
<1> USE DEF Inv, DeleteItems, Finish, GoTo
<1>1. TypeOK'
  BY FinishRequest DEF Ops, TypeOK, IsOrder, Without
<1>2. UsersTakeTurns'
  BY DEF UsersTakeTurns, TypeOK, RequestOK
<1>3. SnapshotIsFresh'
  BY DEF SnapshotIsFresh, UsersTakeTurns, TypeOK, RequestOK, Without
<1>4. CallsAreUnique'
  BY DEF CallsAreUnique, TypeOK, RequestOK, OrderOf
<1> QED
  BY <1>1, <1>2, <1>3, <1>4

LEMMA LateEndsInv ==
    ASSUME Inv, NEW order \in late, LateEnds(order)
    PROVE  Inv'
<1> USE DEF Inv, LateEnds
<1>1. TypeOK'
  BY DEF TypeOK, RequestOK, IsOrder
<1>2. UsersTakeTurns' /\ SnapshotIsFresh'
  BY DEF UsersTakeTurns, SnapshotIsFresh
<1>3. CallsAreUnique'
  BY DEF CallsAreUnique, TypeOK, RequestOK, OrderOf
<1> QED
  BY <1>1, <1>2, <1>3

LEMMA NextInv == Inv /\ [Next]_vars => Inv'
<1> SUFFICES ASSUME Inv, [Next]_vars PROVE Inv'
  OBVIOUS
<1>1. ASSUME NEW h \in Handlers, SaveStep(h) PROVE Inv'
  <2>1. CASE BeginSave(h)
    <3>1. PICK u \in Users, s \in Skus, n \in Counts : Begin(h, "checks", Request(u, s, n))
      BY <2>1 DEF BeginSave
    <3> QED
      BY <3>1, BeginInv DEF Request
  <2>2. CASE ChecksFail(h)
    BY <2>2, FinishInv DEF ChecksFail, Ops
  <2> QED
    BY <1>1, <2>1, <2>2, ChecksPassInv, AddItemInv DEF SaveStep
<1>2. ASSUME NEW h \in Handlers, CheckoutStep(h) PROVE Inv'
  <2>1. CASE BeginCheckout(h)
    <3>1. PICK u \in Users : Begin(h, "getItems", Request(u, "none", 0))
      BY <2>1 DEF BeginCheckout
    <3> QED
      BY <3>1, BeginInv DEF Request
  <2>2. CASE PricesFail(h) \/ OrderRefused(h)
    BY <2>2, FinishInv DEF PricesFail, OrderRefused, Ops
  <2> QED
    BY <1>2, <2>1, <2>2, GetItemsInv, CallLomsInv, OrderPlacedInv, OrderTimesOutInv,
       DeleteItemsInv DEF CheckoutStep
<1>3. CASE UNCHANGED vars
  BY <1>3 DEF vars, Inv, TypeOK, RequestOK, IsOrder, UsersTakeTurns, SnapshotIsFresh,
              CallsAreUnique, OrderOf
<1> QED
  BY <1>1, <1>2, <1>3, DeleteCartInv, RemoveItemInv, LateEndsInv DEF Next

\* Carts, requests and orders keep their types, whoever shares a cart with
\* himself in several tabs.
THEOREM CartTypeCorrect == Spec => []TypeOK
<1>1. Inv /\ [Next]_vars => Inv'
  BY NextInv
<1>2. Inv => TypeOK
  BY DEF Inv
<1> QED
  BY <1>1, <1>2, InitInv, PTL DEF Spec
-----------------------------------------------------------------------------
\* Steps that leave alone what LOMS has stored, and the handlers whose order
\* it has stored, change nothing of what is answered.
LEMMA AnsweredStays ==
    ASSUME UNCHANGED placed,
           \A h \in Handlers :
              /\ pc[h] = "deleteItems" <=> pc'[h] = "deleteItems"
              /\ pc[h] = "deleteItems" => req'[h] = req[h]
    PROVE  Answered' = Answered
  BY DEF Answered, OrderOf

\* When h leaves deleteItems, its order is answered, and no other order is.
LEMMA AnswerOf ==
    ASSUME Inv, NEW h \in Handlers, pc[h] = "deleteItems", NEW op, NEW ok,
           Finish(h, op, ok), UNCHANGED placed
    PROVE  /\ Answered' = Answered \cup {OrderOf(h)}
           /\ Answer(op, req[h].user, ok)
           /\ \A o \in Answered \cup late : o.call # req[h].call
<1> USE DEF Inv, CallsAreUnique
<1>1. \A g \in Handlers : pc'[g] = (IF g = h THEN "idle" ELSE pc[g])
  BY DEF Finish, GoTo, TypeOK
<1>2. \A g \in Handlers \ {h} : req'[g] = req[g]
  BY DEF Finish, TypeOK
<1>3. \A g \in Handlers \ {h} : pc[g] = "deleteItems" => OrderOf(g) # OrderOf(h)
  BY DEF OrderOf
<1>4. Answered' = Answered \cup {OrderOf(h)}
  BY <1>1, <1>2, <1>3 DEF Answered, OrderOf
<1>5. \A o \in Answered : o.call # req[h].call
  BY DEF Answered
<1> QED
  BY <1>4, <1>5 DEF Finish

\* What one of the other users does is not seen: a step that changes only u's
\* cart, u's answer and u's orders is none of the shop's.
LEMMA OthersUnseen ==
    ASSUME TypeOK, NEW u \in Users \ Careful,
           DOMAIN carts' \ {u} = DOMAIN carts \ {u},
           \A v \in DOMAIN carts \ {u} : carts'[v] = carts[v],
           DOMAIN answer' = DOMAIN answer,
           \A v \in Users \ {u} : answer'[v] = answer[v],
           Theirs(Answered)' = Theirs(Answered), Theirs(late)' = Theirs(late)
    PROVE  UNCHANGED Promise!shopVars
<1>1. DOMAIN answer = Users
  BY DEF TypeOK
<1>2. Kept(answer)' = Kept(answer)
  <2>1. \A v \in DOMAIN answer \cap Careful : answer'[v] = answer[v]
    BY <1>1
  <2> QED
    BY <2>1 DEF Kept
<1>3. Kept(carts)' = Kept(carts)
  <2>1. DOMAIN carts' \cap Careful = DOMAIN carts \cap Careful
    OBVIOUS
  <2>2. \A v \in DOMAIN carts \cap Careful : carts'[v] = carts[v]
    OBVIOUS
  <2> QED
    BY <2>1, <2>2 DEF Kept
<1> QED
  BY <1>2, <1>3 DEF Promise!shopVars

\* A step between two calls is not seen either.
LEMMA NothingSeen ==
    ASSUME UNCHANGED <<carts, late, answer>>, Answered' = Answered
    PROVE  UNCHANGED Promise!shopVars
  BY DEF Promise!shopVars, Kept, Theirs

\* The answer to a careful user is seen by the shop.
LEMMA AnswerSeen ==
    ASSUME TypeOK, NEW u \in Careful, NEW op, NEW ok, Answer(op, u, ok)
    PROVE  Promise!Answer(op, u, ok)
<1>1. DOMAIN answer = Users /\ DOMAIN answer' = Users /\ u \in Users
  BY CarefulAssumption DEF TypeOK, Answer
<1>2. \A v \in Users : answer'[v] = IF v = u THEN [op |-> op, ok |-> ok] ELSE answer[v]
  BY <1>1 DEF Answer
<1> QED
  BY <1>1, <1>2 DEF Promise!Answer, Kept

\* The answer to another user changes nothing but that user's answer.
LEMMA AnswerUnseen ==
    ASSUME TypeOK, NEW u, NEW op, NEW ok, Answer(op, u, ok)
    PROVE  DOMAIN answer' = DOMAIN answer /\ \A v \in Users \ {u} : answer'[v] = answer[v]
  BY DEF TypeOK, Answer

\* The order of a checkout is the careful user's basket, under a number of its
\* own.
LEMMA OrderIsBasket ==
    ASSUME Inv, NEW h \in Handlers, pc[h] \in {"order", "deleteItems"},
           req[h].user \in Careful,
           \A o \in Answered \cup late : o.call # req[h].call
    PROVE  Promise!IsBasketOf(OrderOf(h), req[h].user)
<1>1. req[h].user \in DOMAIN carts /\ carts[req[h].user] = req[h].items
      /\ req[h].items # NoItems
  BY DEF Inv, SnapshotIsFresh
<1> QED
  BY <1>1 DEF Promise!IsBasketOf, OrderOf, NoItems, Kept, Theirs

\* A set of orders that gains one of a careful user, or of another one.
LEMMA OrderSeen ==
    ASSUME NEW orders, NEW o
    PROVE  /\ o.user \in Careful => Theirs(orders \cup {o}) = Theirs(orders) \cup {o}
           /\ o.user \notin Careful => Theirs(orders \cup {o}) = Theirs(orders)
           /\ Theirs(orders \ {o}) = Theirs(orders) \ {o}
  BY DEF Theirs

\* The cart of a careful user that is deleted.
LEMMA CartGone ==
    ASSUME NEW u, carts' = Without(carts, u)
    PROVE  Kept(carts)' = [v \in DOMAIN Kept(carts) \ {u} |-> Kept(carts)[v]]
  BY DEF Without, Kept

\* An error that is answered at once refuses the request.
LEMMA RefuseRefines ==
    ASSUME Inv, NEW h \in Handlers, pc[h] \notin {"idle", "deleteItems"},
           NEW op \in {"add", "checkout"},
           Finish(h, op, FALSE), UNCHANGED <<carts, placed, late>>
    PROVE  [Promise!ShopNext]_(Promise!shopVars)
<1> DEFINE u == req[h].user
<1>1. Answered' = Answered
  BY AnsweredStays DEF Finish, GoTo, Inv, TypeOK
<1>2. u \in Users /\ TypeOK /\ Answer(op, u, FALSE)
  BY DEF Inv, TypeOK, RequestOK, Finish
<1>3. CASE u \in Careful
  <2>1. Promise!Refuse(op, u)
    BY <1>1, <1>2, <1>3, AnswerSeen DEF Promise!Refuse, Kept, Theirs
  <2> QED
    BY <1>3, <2>1 DEF Promise!ShopNext, Promise!Ops
<1>4. CASE u \notin Careful
  BY <1>1, <1>2, <1>4, AnswerUnseen, OthersUnseen DEF Theirs
<1> QED
  BY <1>3, <1>4

\* A product is put into the cart.
LEMMA AddItemRefines ==
    ASSUME Inv, NEW h \in Handlers, AddItem(h)
    PROVE  [Promise!ShopNext]_(Promise!shopVars)
<1> DEFINE u == req[h].user
           cart == Added(CartOf(u), req[h].sku, req[h].count)
<1>1. Answered' = Answered /\ UNCHANGED late
  BY AnsweredStays DEF AddItem, Finish, GoTo, Inv, TypeOK
<1>2. /\ u \in Users /\ req[h].sku \in Skus /\ req[h].count \in Counts
      /\ TypeOK /\ Answer("add", u, TRUE)
  BY DEF AddItem, Finish, Inv, TypeOK, RequestOK
<1>3. carts' = [v \in DOMAIN carts \cup {u} |-> IF v = u THEN cart ELSE carts[v]]
  BY DEF AddItem
<1>4. CASE u \in Careful
  <2>1. DOMAIN Kept(carts) = DOMAIN carts \cap Careful
    BY DEF Kept
  <2>2. Kept(carts)' = [v \in DOMAIN Kept(carts) \cup {u} |->
                          IF v # u THEN Kept(carts)[v] ELSE cart]
    BY <1>3, <1>4 DEF Kept
  <2>3. cart = Promise!With(Promise!BasketOf(u), req[h].sku, req[h].count)
    <3>1. CartOf(u) = Promise!BasketOf(u)
      BY <1>4, <2>1 DEF CartOf, Kept, NoItems, Promise!BasketOf
    <3> QED
      BY <3>1 DEF Added, CountOf, uint16, Promise!With
  <2>4. Promise!Answer("add", u, TRUE) /\ UNCHANGED <<Theirs(Answered), Theirs(late)>>
    BY <1>1, <1>2, <1>4, AnswerSeen DEF Theirs
  <2> HIDE DEF cart
  <2>5. Promise!Put(u, req[h].sku, req[h].count)
    BY <2>2, <2>3, <2>4 DEF Promise!Put
  <2> QED
    BY <1>2, <1>4, <2>5 DEF Promise!ShopNext
<1>5. CASE u \notin Careful
  <2>1. DOMAIN carts' \ {u} = DOMAIN carts \ {u}
        /\ \A v \in DOMAIN carts \ {u} : carts'[v] = carts[v]
    BY <1>3
  <2> QED
    BY <1>1, <1>2, <1>5, <2>1, AnswerUnseen, OthersUnseen DEF Theirs
<1> QED
  BY <1>4, <1>5

\* The call of LOMS is given up, before the order is stored or after.
LEMMA OrderTimesOutRefines ==
    ASSUME Inv, NEW h \in Handlers, OrderTimesOut(h)
    PROVE  [Promise!ShopNext]_(Promise!shopVars)
<1> DEFINE u == req[h].user
<1>1. /\ u \in Users /\ TypeOK /\ UNCHANGED <<carts, placed>>
      /\ Finish(h, "checkout", FALSE) /\ Answer("checkout", u, FALSE)
      /\ OrderOf(h).user = u
  BY DEF OrderTimesOut, Finish, Inv, TypeOK, RequestOK, OrderOf
<1>2. CASE pc[h] = "order" /\ late' = late \cup {OrderOf(h)}
  <2>1. Answered' = Answered
    BY <1>1, <1>2, AnsweredStays DEF Finish, GoTo, Inv, TypeOK
  <2>2. \A o \in Answered \cup late : o.call # req[h].call
    BY <1>2 DEF Inv, CallsAreUnique, Answered
  <2>3. CASE u \in Careful
    <3>1. Theirs(late)' = Theirs(late) \cup {OrderOf(h)}
      BY <1>1, <1>2, <2>3, OrderSeen DEF Theirs
    <3>2. Promise!IsBasketOf(OrderOf(h), u) /\ Promise!Answer("checkout", u, FALSE)
      BY <1>1, <1>2, <2>2, <2>3, OrderIsBasket, AnswerSeen
    <3>3. UNCHANGED <<Kept(carts), Theirs(Answered)>>
      BY <1>1, <2>1 DEF Kept, Theirs
    <3>4. Promise!BuyUnnoticed(u)
      BY <3>1, <3>2, <3>3 DEF Promise!BuyUnnoticed
    <3> QED
      BY <2>3, <3>4 DEF Promise!ShopNext
  <2>4. CASE u \notin Careful
    <3>1. Theirs(late)' = Theirs(late)
      BY <1>1, <1>2, <2>4, OrderSeen DEF Theirs
    <3> QED
      BY <1>1, <2>1, <2>4, <3>1, AnswerUnseen, OthersUnseen DEF Theirs
  <2> QED
    BY <2>3, <2>4
<1>3. CASE pc[h] = "deleteItems" /\ UNCHANGED late
  <2>1. /\ Answered' = Answered \cup {OrderOf(h)}
        /\ \A o \in Answered \cup late : o.call # req[h].call
    BY <1>1, <1>3, AnswerOf
  <2>2. CASE u \in Careful
    <3>1. Theirs(Answered)' = Theirs(Answered) \cup {OrderOf(h)}
      BY <1>1, <2>1, <2>2, OrderSeen DEF Theirs
    <3>2. Promise!IsBasketOf(OrderOf(h), u) /\ Promise!Answer("checkout", u, FALSE)
      BY <1>1, <1>3, <2>1, <2>2, OrderIsBasket, AnswerSeen
    <3>3. UNCHANGED <<Kept(carts), Theirs(late)>>
      BY <1>1, <1>3 DEF Kept, Theirs
    <3>4. Promise!BuyUnnoticed(u)
      BY <3>1, <3>2, <3>3 DEF Promise!BuyUnnoticed
    <3> QED
      BY <2>2, <3>4 DEF Promise!ShopNext
  <2>3. CASE u \notin Careful
    <3>1. Theirs(Answered)' = Theirs(Answered)
      BY <1>1, <2>1, <2>3, OrderSeen DEF Theirs
    <3> QED
      BY <1>1, <1>3, <2>3, <3>1, AnswerUnseen, OthersUnseen DEF Theirs
  <2> QED
    BY <2>2, <2>3
<1> QED
  BY <1>2, <1>3 DEF OrderTimesOut

\* The answer arrives and the cart is deleted: the order appears.
LEMMA DeleteItemsRefines ==
    ASSUME Inv, NEW h \in Handlers, DeleteItems(h)
    PROVE  [Promise!ShopNext]_(Promise!shopVars)
<1> DEFINE u == req[h].user
<1>1. /\ u \in Users /\ TypeOK /\ UNCHANGED <<placed, late>> /\ pc[h] = "deleteItems"
      /\ Finish(h, "checkout", TRUE) /\ Answer("checkout", u, TRUE)
      /\ OrderOf(h).user = u /\ carts' = Without(carts, u)
  BY DEF DeleteItems, Finish, Inv, TypeOK, RequestOK, OrderOf
<1>2. /\ Answered' = Answered \cup {OrderOf(h)}
      /\ \A o \in Answered \cup late : o.call # req[h].call
  BY <1>1, AnswerOf
<1>3. CASE u \in Careful
  <2>1. Theirs(Answered)' = Theirs(Answered) \cup {OrderOf(h)}
    BY <1>1, <1>2, <1>3, OrderSeen DEF Theirs
  <2>2. Promise!IsBasketOf(OrderOf(h), u) /\ Promise!Answer("checkout", u, TRUE)
    BY <1>1, <1>2, <1>3, OrderIsBasket, AnswerSeen
  <2>3. Kept(carts)' = [v \in DOMAIN Kept(carts) \ {u} |-> Kept(carts)[v]]
    BY <1>1, CartGone
  <2>4. UNCHANGED Theirs(late)
    BY <1>1 DEF Theirs
  <2>5. Promise!Buy(u)
    BY <2>1, <2>2, <2>3, <2>4 DEF Promise!Buy
  <2> QED
    BY <1>3, <2>5 DEF Promise!ShopNext
<1>4. CASE u \notin Careful
  <2>1. Theirs(Answered)' = Theirs(Answered)
    BY <1>1, <1>2, <1>4, OrderSeen DEF Theirs
  <2>2. DOMAIN carts' \ {u} = DOMAIN carts \ {u}
        /\ \A v \in DOMAIN carts \ {u} : carts'[v] = carts[v]
    BY <1>1 DEF Without
  <2> QED
    BY <1>1, <1>4, <2>1, <2>2, AnswerUnseen, OthersUnseen DEF Theirs
<1> QED
  BY <1>3, <1>4

\* A product is taken out, or the whole cart is deleted.
LEMMA RemoveItemRefines ==
    ASSUME Inv, NEW u \in Users, NEW s \in Skus, RemoveItem(u, s)
    PROVE  [Promise!ShopNext]_(Promise!shopVars)
<1>1. Answered' = Answered /\ UNCHANGED late /\ TypeOK
  BY AnsweredStays DEF RemoveItem, Inv
<1>2. carts' = [v \in DOMAIN carts |-> IF v = u THEN Without(carts[v], s) ELSE carts[v]]
  BY DEF RemoveItem
<1>3. UNCHANGED <<Theirs(Answered), Theirs(late)>>
  BY <1>1 DEF Theirs
<1>4. CASE u \in Careful /\ u \in DOMAIN carts
  <2>1. answer' = [answer EXCEPT ![u] = [op |-> "remove", ok |-> TRUE]]
    <3>1. (u \in DOMAIN carts) = TRUE
      BY <1>4
    <3> QED
      BY <3>1, Zenon DEF RemoveItem, Answer
  <2>2. Promise!Answer("remove", u, TRUE)
    BY <1>1, <1>4, <2>1, AnswerSeen DEF Answer
  <2>3. Kept(carts)' = [Kept(carts) EXCEPT ![u] = [x \in DOMAIN @ \ {s} |-> @[x]]]
    BY <1>2, <1>4 DEF Kept, Without
  <2>4. Promise!TakeOut(u, s)
    BY <1>3, <1>4, <2>2, <2>3 DEF Promise!TakeOut, Kept
  <2> QED
    BY <1>4, <2>4 DEF Promise!ShopNext
<1>5. CASE u \in Careful /\ u \notin DOMAIN carts
  <2>1. answer' = [answer EXCEPT ![u] = [op |-> "remove", ok |-> FALSE]]
    <3>1. (u \in DOMAIN carts) = FALSE
      BY <1>5
    <3> QED
      BY <3>1, Zenon DEF RemoveItem, Answer
  <2>2. Promise!Answer("remove", u, FALSE)
    BY <1>1, <1>5, <2>1, AnswerSeen DEF Answer
  <2>3. UNCHANGED Kept(carts) /\ u \notin DOMAIN Kept(carts)
    BY <1>2, <1>5 DEF Kept
  <2>4. Promise!Refuse("remove", u)
    BY <1>3, <2>2, <2>3 DEF Promise!Refuse
  <2> QED
    BY <1>5, <2>4 DEF Promise!ShopNext, Promise!Ops
<1>6. CASE u \notin Careful
  <2>1. DOMAIN carts' \ {u} = DOMAIN carts \ {u}
        /\ \A v \in DOMAIN carts \ {u} : carts'[v] = carts[v]
    BY <1>2
  <2>2. DOMAIN answer' = DOMAIN answer /\ \A v \in Users \ {u} : answer'[v] = answer[v]
    BY <1>1 DEF RemoveItem, Answer, TypeOK
  <2> QED
    BY <1>1, <1>3, <1>6, <2>1, <2>2, OthersUnseen
<1> QED
  BY <1>4, <1>5, <1>6

LEMMA DeleteCartRefines ==
    ASSUME Inv, NEW u \in Users, DeleteCart(u)
    PROVE  [Promise!ShopNext]_(Promise!shopVars)
<1>1. /\ Answered' = Answered /\ UNCHANGED late /\ TypeOK
      /\ Answer("delete", u, TRUE) /\ carts' = Without(carts, u)
  BY AnsweredStays DEF DeleteCart, Inv
<1>2. UNCHANGED <<Theirs(Answered), Theirs(late)>>
  BY <1>1 DEF Theirs
<1>3. CASE u \in Careful
  <2>1. Promise!Discard(u)
    BY <1>1, <1>2, <1>3, CartGone, AnswerSeen DEF Promise!Discard
  <2> QED
    BY <1>3, <2>1 DEF Promise!ShopNext
<1>4. CASE u \notin Careful
  <2>1. DOMAIN carts' \ {u} = DOMAIN carts \ {u}
        /\ \A v \in DOMAIN carts \ {u} : carts'[v] = carts[v]
    BY <1>1 DEF Without
  <2> QED
    BY <1>1, <1>2, <1>4, <2>1, AnswerUnseen, OthersUnseen
<1> QED
  BY <1>3, <1>4

\* LOMS ends its work on a call that was given up.
LEMMA LateEndsRefines ==
    ASSUME Inv, NEW order \in late, LateEnds(order)
    PROVE  [Promise!ShopNext]_(Promise!shopVars)
<1>1. late' = late \ {order} /\ UNCHANGED <<carts, answer>>
  BY DEF LateEnds
<1>2. Theirs(late)' = Theirs(late) \ {order} /\ UNCHANGED <<Kept(carts), Kept(answer)>>
  BY <1>1, OrderSeen DEF Theirs, Kept
<1>3. CASE placed' = placed \cup {order}
  <2>1. \A h \in Handlers : pc[h] = "deleteItems" => OrderOf(h) # order
    BY DEF Inv, CallsAreUnique, OrderOf
  <2>2. Answered' = Answered \cup {order}
    BY <1>3, <2>1 DEF LateEnds, Answered, OrderOf
  <2>3. CASE order.user \in Careful
    <3>1. Theirs(Answered)' = Theirs(Answered) \cup {order} /\ order \in Theirs(late)
      BY <2>2, <2>3, OrderSeen DEF Theirs
    <3>2. Promise!ComeThrough(order)
      BY <1>2, <3>1 DEF Promise!ComeThrough
    <3> QED
      BY <3>1, <3>2 DEF Promise!ShopNext
  <2>4. CASE order.user \notin Careful
    <3>1. Theirs(Answered)' = Theirs(Answered) /\ Theirs(late)' = Theirs(late)
      BY <1>2, <2>2, <2>4, OrderSeen DEF Theirs
    <3> QED
      BY <1>2, <3>1 DEF Promise!shopVars
  <2> QED
    BY <2>3, <2>4
<1>4. CASE UNCHANGED placed
  <2>1. Answered' = Answered
    BY <1>4, AnsweredStays DEF LateEnds
  <2>2. CASE order.user \in Careful
    <3>1. order \in Theirs(late) /\ Theirs(Answered)' = Theirs(Answered)
      BY <2>1, <2>2 DEF Theirs
    <3>2. Promise!ComeToNothing(order)
      BY <1>2, <3>1 DEF Promise!ComeToNothing
    <3> QED
      BY <3>1, <3>2 DEF Promise!ShopNext
  <2>3. CASE order.user \notin Careful
    <3>1. Theirs(Answered)' = Theirs(Answered) /\ Theirs(late)' = Theirs(late)
      BY <1>2, <2>1, <2>3 DEF Theirs
    <3> QED
      BY <1>2, <3>1 DEF Promise!shopVars
  <2> QED
    BY <2>2, <2>3
<1> QED
  BY <1>3, <1>4 DEF LateEnds

\* Every step of cart is a step of the shop, or none.
LEMMA NextRefines == Inv /\ [Next]_vars => [Promise!ShopNext]_(Promise!shopVars)
<1> SUFFICES ASSUME Inv, [Next]_vars
             PROVE  [Promise!ShopNext]_(Promise!shopVars)
  OBVIOUS
<1>1. ASSUME NEW h \in Handlers, SaveStep(h)
      PROVE  [Promise!ShopNext]_(Promise!shopVars)
  <2>1. CASE BeginSave(h) \/ ChecksPass(h)
    <3>1. UNCHANGED <<carts, late, answer>> /\ Answered' = Answered
      BY <2>1, AnsweredStays DEF BeginSave, Begin, ChecksPass, GoTo, Inv, TypeOK
    <3> QED
      BY <3>1, NothingSeen
  <2>2. CASE ChecksFail(h)
    BY <2>2, RefuseRefines DEF ChecksFail
  <2> QED
    BY <1>1, <2>1, <2>2, AddItemRefines DEF SaveStep
<1>2. ASSUME NEW h \in Handlers, CheckoutStep(h)
      PROVE  [Promise!ShopNext]_(Promise!shopVars)
  <2>1. CASE BeginCheckout(h) \/ CallLoms(h)
    <3>1. UNCHANGED <<carts, late, answer>> /\ Answered' = Answered
      BY <2>1, AnsweredStays DEF BeginCheckout, Begin, CallLoms, GoTo, Inv, TypeOK
    <3> QED
      BY <3>1, NothingSeen
  <2>2. CASE PricesFail(h) \/ OrderRefused(h)
    BY <2>2, RefuseRefines DEF PricesFail, OrderRefused
  <2>3. CASE GetItems(h)
    <3>1. CASE CartOf(req[h].user) = NoItems
      BY <2>3, <3>1, RefuseRefines DEF GetItems
    <3>2. CASE CartOf(req[h].user) # NoItems
      <4>1. UNCHANGED <<carts, late, answer>> /\ Answered' = Answered
        BY <2>3, <3>2, AnsweredStays DEF GetItems, GoTo, Inv, TypeOK
      <4> QED
        BY <4>1, NothingSeen
    <3> QED
      BY <3>1, <3>2
  <2>4. CASE OrderPlaced(h)
    <3>1. \A g \in Handlers : pc'[g] = (IF g = h THEN "deleteItems" ELSE pc[g])
      BY <2>4 DEF OrderPlaced, GoTo, Inv, TypeOK
    <3>2. OrderOf(h) \notin placed
      BY <2>4 DEF OrderPlaced, Inv, CallsAreUnique, OrderOf
    <3>3. Answered' = Answered
      BY <2>4, <3>1, <3>2 DEF OrderPlaced, Answered, OrderOf
    <3> QED
      BY <2>4, <3>3, NothingSeen DEF OrderPlaced
  <2> QED
    BY <1>2, <2>1, <2>2, <2>3, <2>4, OrderTimesOutRefines, DeleteItemsRefines
       DEF CheckoutStep
<1>3. CASE UNCHANGED vars
  <2>1. UNCHANGED <<carts, late, answer>> /\ Answered' = Answered
    BY <1>3, AnsweredStays DEF vars
  <2> QED
    BY <2>1, NothingSeen
<1> QED
  BY <1>1, <1>2, <1>3, RemoveItemRefines, DeleteCartRefines, LateEndsRefines DEF Next

\* However long a checkout takes between its three calls, a user who waits for
\* each answer sees it happen at once, whatever the other users do: for the
\* careful users cart implements Shop.
THEOREM CheckoutIsAtomic == Spec => ImplementsShop
<1>1. Init => Promise!ShopInit
  <2> SUFFICES ASSUME Init PROVE Promise!ShopInit
    OBVIOUS
  <2>1. Kept(carts) = <<>> /\ Theirs(Answered) = {} /\ Theirs(late) = {}
    BY DEF Init, Kept, Theirs, Answered
  <2>2. Kept(answer) = [u \in Careful |-> NoAnswer]
    BY CarefulAssumption DEF Init, Kept
  <2> QED
    BY <2>1, <2>2 DEF Promise!ShopInit, NoAnswer
<1>2. Inv /\ [Next]_vars => Inv'
  BY NextInv
<1>3. Inv /\ [Next]_vars => [Promise!ShopNext]_(Promise!shopVars)
  BY NextRefines
<1> QED
  BY <1>1, <1>2, <1>3, InitInv, PTL DEF Spec, ImplementsShop, Promise!ShopSpec
=============================================================================
