----------------------------- MODULE OrderBook -----------------------------
(***************************************************************************)
(* What the order service promises, one atomic step per request: an order  *)
(* takes exactly its lines from stock or does not exist, a transition      *)
(* follows the lifecycle and leaves one audit row, a cancellation gives    *)
(* every unit back, and each commit announces what it did in commit order. *)
(* No locks, no transactions, no snapshots: OrderService implements this.  *)
(***************************************************************************)
EXTENDS OrderData

CONSTANT
  InitLevel,          \* [Key -> Nat]: quantity on hand at the start
  InitPresent,        \* SUBSET Key: keys that have a Stock row at the start
  StockRowsDeletable  \* BOOLEAN: whether Stock rows may be removed

VARIABLES
  present,  \* keys that have a Stock row
  level,    \* quantity on hand, 0 without a row
  status,   \* Order.status, NoStatus while the order does not exist
  items,    \* OrderItem quantities
  audit,    \* OrderStatusEvent rows, oldest first
  channel   \* committed NOTIFY payloads, in commit order

vars == <<present, level, status, items, audit, channel>>

Init ==
  /\ present = InitPresent
  /\ level = InitLevel
  /\ status = [o \in Orders |-> NoStatus]
  /\ items = [o \in Orders |-> NoLines]
  /\ audit = [o \in Orders |-> <<>>]
  /\ channel = <<>>

\* The keys an order has a line for.
Keys(l) == {k \in Key : l[k] > 0}

\* One legal change of an order's status with its audit row.
Record(o, from, to) ==
  /\ status' = [status EXCEPT ![o] = to]
  /\ audit' = [audit EXCEPT ![o] = Append(@, <<from, to>>)]

\* Announce an order change, and the stock it moved.
Announce(o, from, to) ==
  channel' = Append(Append(channel, OrderEvent(o, from, to)), StockEvent(Keys(items'[o]), level'))

Place(o, l) ==
  /\ status[o] = NoStatus
  /\ Keys(l) \subseteq present
  /\ \A k \in Key : l[k] <= level[k]
  /\ level' = [k \in Key |-> level[k] - l[k]]
  /\ items' = [items EXCEPT ![o] = l]
  /\ Record(o, NoStatus, "PENDING")
  /\ Announce(o, NoStatus, "PENDING")
  /\ UNCHANGED present

Advance(o, to) ==
  /\ status[o] \in Statuses
  /\ to \in Flow[status[o]] \ {"CANCELLED"}
  /\ Record(o, status[o], to)
  /\ channel' = Append(channel, OrderEvent(o, status[o], to))
  /\ UNCHANGED <<present, level, items>>

Cancel(o) ==
  /\ status[o] \in Statuses
  /\ "CANCELLED" \in Flow[status[o]]
  /\ level' = [k \in Key |-> level[k] + items[o][k]]
  /\ present' = present \cup Keys(items[o])
  /\ Record(o, status[o], "CANCELLED")
  /\ Announce(o, status[o], "CANCELLED")
  /\ UNCHANGED items

\* A Stock row is removed with the units it holds.
Delist(k) ==
  /\ StockRowsDeletable
  /\ k \in present
  /\ present' = present \ {k}
  /\ level' = [level EXCEPT ![k] = 0]
  /\ UNCHANGED <<status, items, audit, channel>>

Next ==
  \/ \E o \in Orders, l \in OrderLines : Place(o, l)
  \/ \E o \in Orders, to \in Statuses : Advance(o, to)
  \/ \E o \in Orders : Cancel(o)
  \/ \E k \in Key : Delist(k)

Spec == Init /\ [][Next]_vars
=============================================================================
