----------------------------- MODULE OrderData -----------------------------
(***************************************************************************)
(* The vocabulary shared by every model of the order plane: stock keys,    *)
(* order lines, the order lifecycle and the NOTIFY payloads.               *)
(*                                                                         *)
(* A stock key is a (warehouse, variant) pair, the unique key of           *)
(* inventory.models.Stock.  Orders are opaque identities (public_id).      *)
(***************************************************************************)
EXTENDS Integers, Sequences, FiniteSets

CONSTANTS
  Warehouses,  \* inventory.models.Warehouse rows
  Variants,    \* catalog.models.ProductVariant rows
  Orders,      \* identities available to orders.models.Order
  NoOrder,     \* the order of a worker that serves no request
  MaxLine      \* BOUND: largest quantity of one order line

ASSUME MaxLineAssumption == MaxLine \in Nat \ {0}
ASSUME NoOrderAssumption == NoOrder \notin Orders
\* A public_id is a uuid: there are many, not infinitely many.
ASSUME OrdersAssumption == IsFiniteSet(Orders)

Key == Warehouses \X Variants

Statuses == {"PENDING", "CONFIRMED", "PICKING", "PACKED", "SHIPPED", "DELIVERED", "CANCELLED"}

\* The status of an order that does not exist, and the `None` of a creation event.
NoStatus == "NONE"

\* ORDER_STATUS_FLOW
Flow ==
  [s \in Statuses |->
     CASE s = "PENDING"   -> {"CONFIRMED", "CANCELLED"}
       [] s = "CONFIRMED" -> {"PICKING", "CANCELLED"}
       [] s = "PICKING"   -> {"PACKED"}
       [] s = "PACKED"    -> {"SHIPPED"}
       [] s = "SHIPPED"   -> {"DELIVERED"}
       [] OTHER           -> {}]

NoLines == [k \in Key |-> 0]

\* The line quantities place_order accepts: at least one line, one warehouse,
\* no variant twice (a function cannot say it twice), every quantity >= 1.
OrderLines ==
  {l \in [Key -> 0..MaxLine] :
     /\ \E k \in Key : l[k] > 0
     /\ \A k1, k2 \in Key : l[k1] > 0 /\ l[k2] > 0 => k1[1] = k2[1]}

\* One audit row: <<from_status, to_status>>.
Transitions == (Statuses \cup {NoStatus}) \X Statuses

\* Payloads of the two NOTIFY channels.  A stock payload lists the changed keys
\* with their quantities; other keys carry the filler 0.
OrderEvent(o, from, to) == [type |-> "order", order |-> o, previous |-> from, status |-> to]
StockEvent(keys, qty) ==
  [type |-> "stock", keys |-> keys, levels |-> [k \in Key |-> IF k \in keys THEN qty[k] ELSE 0]]

Events ==
  [type : {"order"}, order : Orders, previous : Statuses \cup {NoStatus}, status : Statuses]
    \cup [type : {"stock"}, keys : SUBSET Key, levels : [Key -> Int]]
=============================================================================
