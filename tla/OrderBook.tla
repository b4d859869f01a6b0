----------------------------- MODULE OrderBook ------------------------------
(***************************************************************************)
(* What LOMS promises its clients: one book of orders and one table of     *)
(* stocks, and every request takes effect on both of them at once.  An     *)
(* order appears only with its goods reserved, it is paid or cancelled at  *)
(* most once, paying consumes the reserved goods and cancelling gives them *)
(* back.  LomsService is checked to implement this specification under the *)
(* conditions its runs name.                                               *)
(***************************************************************************)
EXTENDS Integers, Sequences, Functions, StocksRepo

CONSTANTS Skus, InitStock

VARIABLES book, stock

bookVars == <<book, stock>>

Awaiting == "awaiting"
Paid == "paid"
Canceled == "canceled"

\* Units of sku in an order's items.
Demand(items, sku) ==
    SumFunction([i \in DOMAIN items |->
                   IF items[i].sku = sku THEN items[i].count ELSE 0])

BookedIn(statuses, sku) ==
    SumFunction([k \in DOMAIN book |->
                   IF book[k].status \in statuses THEN Demand(book[k].items, sku) ELSE 0])

BookInit ==
    /\ book = <<>>
    /\ stock = InitStock

\* stock' for the rows named in items, each moved by f(row, units).
Move(items, f(_, _)) ==
    stock' = [s \in Skus |-> f(stock[s], Demand(items, s))]

PlaceOrder(k, order) ==
    /\ k \notin DOMAIN book
    /\ order.status = Awaiting
    /\ \A s \in Skus : available(stock[s], Demand(order.items, s))
    /\ book' = [x \in DOMAIN book \cup {k} |-> IF x = k THEN order ELSE book[x]]
    /\ Move(order.items, LAMBDA r, n :
            [available |-> r.available - n, reserved |-> r.reserved + n])

PayForOrder(k) ==
    /\ k \in DOMAIN book /\ book[k].status = Awaiting
    /\ book' = [book EXCEPT ![k].status = Paid]
    /\ Move(book[k].items, LAMBDA r, n : [r EXCEPT !.reserved = @ - n])

WithdrawOrder(k) ==
    /\ k \in DOMAIN book /\ book[k].status = Awaiting
    /\ book' = [book EXCEPT ![k].status = Canceled]
    /\ Move(book[k].items, LAMBDA r, n :
            [available |-> r.available + n, reserved |-> r.reserved - n])

\* The keys and orders are whatever the step adds: the set of possible ones
\* is infinite, so they are read off the next state.
BookNext ==
    \/ \E k \in DOMAIN book' \ DOMAIN book : PlaceOrder(k, book'[k])
    \/ \E k \in DOMAIN book : PayForOrder(k) \/ WithdrawOrder(k)

BookSpec == BookInit /\ [][BookNext]_bookVars

\* Conservation of goods: what is reserved is what awaits payment, and what
\* can be bought is the initial stock less everything awaiting or paid.
StockMatchesBook ==
    \A s \in Skus :
        /\ stock[s].reserved = InitStock[s].reserved + BookedIn({Awaiting}, s)
        /\ stock[s].available =
               InitStock[s].available - BookedIn({Awaiting, Paid}, s)
=============================================================================
