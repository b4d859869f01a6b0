-------------------------------- MODULE Shop --------------------------------
(***************************************************************************)
(* What cart promises its users: every user has a basket, which changes    *)
(* when the user is told so and not otherwise.  A checkout answered with   *)
(* success has turned all of the basket into one order, in one step.  One  *)
(* reported as failed leaves the basket as it is; when cart did not learn  *)
(* what became of it, its order may still come through, once and unchanged.*)
(* Only users without a basket are refused a removal.                      *)
(***************************************************************************)
EXTENDS Integers

CONSTANTS Users, Skus, Counts

VARIABLES
    basket,   \* user -> sku -> count, for users and products that have one
    placed,   \* orders that exist: [call, user, items]
    pending,  \* orders that may still come to exist
    answer    \* user -> the last answer: [op, ok]

shopVars == <<basket, placed, pending, answer>>

Ops == {"add", "remove", "delete", "checkout"}

Answer(op, u, ok) == answer' = [answer EXCEPT ![u] = [op |-> op, ok |-> ok]]

ShopInit ==
    /\ basket = <<>>
    /\ placed = {}
    /\ pending = {}
    /\ answer = [u \in Users |-> [op |-> "none", ok |-> TRUE]]

\* The user is told of a failure, and nothing has happened.
Refuse(op, u) ==
    /\ op = "remove" => u \notin DOMAIN basket
    /\ Answer(op, u, FALSE)
    /\ UNCHANGED <<basket, placed, pending>>

BasketOf(u) == IF u \in DOMAIN basket THEN basket[u] ELSE <<>>

\* Counts are added up in 16 bits.
With(items, s, n) ==
    LET had == IF s \in DOMAIN items THEN items[s] ELSE 0 IN
    [x \in DOMAIN items \cup {s} |->
        IF x = s THEN (had + n) % 65536 ELSE items[x]]

Put(u, s, n) ==
    /\ basket' = [v \in DOMAIN basket \cup {u} |->
                    IF v # u THEN basket[v] ELSE With(BasketOf(u), s, n)]
    /\ Answer("add", u, TRUE)
    /\ UNCHANGED <<placed, pending>>

TakeOut(u, s) ==
    /\ u \in DOMAIN basket
    /\ basket' = [basket EXCEPT ![u] = [x \in DOMAIN @ \ {s} |-> @[x]]]
    /\ Answer("remove", u, TRUE)
    /\ UNCHANGED <<placed, pending>>

Discard(u) ==
    /\ basket' = [v \in DOMAIN basket \ {u} |-> basket[v]]
    /\ Answer("delete", u, TRUE)
    /\ UNCHANGED <<placed, pending>>

\* o is an order of everything u has, and of nobody else's number.
IsBasketOf(o, u) ==
    /\ u \in DOMAIN basket
    /\ basket[u] # <<>>
    /\ o = [call |-> o.call, user |-> u, items |-> basket[u]]
    /\ \A p \in placed \cup pending : p.call # o.call

Buy(u) ==
    /\ \E o \in placed' : IsBasketOf(o, u) /\ placed' = placed \cup {o}
    /\ basket' = [v \in DOMAIN basket \ {u} |-> basket[v]]
    /\ Answer("checkout", u, TRUE)
    /\ UNCHANGED pending

\* The checkout is reported as failed though its order exists, or may.
BuyUnnoticed(u) ==
    /\ \/ /\ \E o \in placed' : IsBasketOf(o, u) /\ placed' = placed \cup {o}
          /\ UNCHANGED pending
       \/ /\ \E o \in pending' : IsBasketOf(o, u) /\ pending' = pending \cup {o}
          /\ UNCHANGED placed
    /\ Answer("checkout", u, FALSE)
    /\ UNCHANGED basket

ComeThrough(o) ==
    /\ placed' = placed \cup {o}
    /\ pending' = pending \ {o}
    /\ UNCHANGED <<basket, answer>>

ComeToNothing(o) ==
    /\ pending' = pending \ {o}
    /\ UNCHANGED <<basket, placed, answer>>

ShopNext ==
    \/ \E u \in Users :
        \/ \E s \in Skus : TakeOut(u, s) \/ \E n \in Counts : Put(u, s, n)
        \/ \E op \in Ops \ {"delete"} : Refuse(op, u)
        \/ Discard(u) \/ Buy(u) \/ BuyUnnoticed(u)
    \/ \E o \in pending : ComeThrough(o) \/ ComeToNothing(o)

ShopSpec == ShopInit /\ [][ShopNext]_shopVars
=============================================================================
