----------------------------- MODULE StocksRepo -----------------------------
(***************************************************************************)
(* One row of the stocks table, [available, reserved], and what the three  *)
(* writers of stocksrepo do to it.  Each writer first checks every item,   *)
(* then reads the row again (snap) and updates it with absolute values     *)
(* computed in Go from that read; cur is the row the UPDATE finds.         *)
(* op is the LOMS operation the statement belongs to.                      *)
(***************************************************************************)
EXTENDS Integers

StockRow == [available : Int, reserved : Int]
NoRow == [available |-> 0, reserved |-> 0]

available(row, count) == row.available >= count
canBeReserved(row, count) == row.reserved >= count

\* The check in front of Reserve, Remove and Cancel.
CanProceed(op, row, count) ==
    IF op = "pay" THEN canBeReserved(row, count) ELSE available(row, count)

ReserveItem(snap, cur, count) ==
    [reserved |-> snap.reserved + count, available |-> snap.available - count]

\* RemoveStock sets the reserved column only.
RemoveItem(snap, cur, count) ==
    [cur EXCEPT !.reserved = snap.reserved - count]

\* Mutant: a cancel releases the reserve and forgets to offer the goods again.
CancelItemReleaseOnly(snap, cur, count) ==
    [cur EXCEPT !.reserved = snap.reserved - count]

CancelItem(snap, cur, count) ==
    [reserved |-> snap.reserved - count, available |-> snap.available + count]

\* The row version an operation's UPDATE writes.
Written(op, snap, cur, count) ==
    CASE op = "create" -> ReserveItem(snap, cur, count)
      [] op = "pay"    -> RemoveItem(snap, cur, count)
      [] op = "cancel" -> CancelItem(snap, cur, count)
=============================================================================
