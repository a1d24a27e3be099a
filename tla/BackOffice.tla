----------------------------- MODULE BackOffice -----------------------------
(***************************************************************************)
(* The Django admin beside the order service (inventory/admin.py,          *)
(* orders/admin.py).  A change form shows a row, and saving it writes back *)
(* every column as the form has it.  The UPDATE or DELETE waits for row    *)
(* locks like any other, but nothing is locked while the form is open; and *)
(* the admin neither looks at ORDER_STATUS_FLOW, nor writes audit rows,    *)
(* nor restocks, nor notifies.                                             *)
(***************************************************************************)
EXTENDS OrderService

CONSTANTS
  Pages,   \* which pages staff use: a subset of {"stock", "order"}
  Counts,  \* quantities that staff type into a stock form
  Edits,   \* statuses that an order form is saved with
  MaxWrites  \* BOUND: what staff save, add and delete

ASSUME BackOfficeAssumption ==
  /\ Pages \subseteq {"stock", "order"}
  /\ Counts \subseteq Nat /\ Edits \subseteq Statuses /\ MaxWrites \in Nat

VARIABLES
  stockForm,  \* [Key -> Row]: the row as an open form shows it, or NoRow
  deleted,    \* history: the orders deleted so far
  writes      \* history: how often staff have saved, added or deleted

officeVars == <<vars, stockForm, deleted, writes>>

Write == writes < MaxWrites /\ writes' = writes + 1

OfficeInit ==
  /\ Init
  /\ stockForm = [k \in Key |-> NoRow]
  /\ deleted = {} /\ writes = 0

StockFree(k) == \A t \in Workers : k \notin Locked(t)
OrderFree(o) == \A t \in Workers : ~HoldsOrder(t, o)

OpenStock(k) ==
  /\ "stock" \in Pages /\ stock[k] # NoRow
  /\ stockForm' = [stockForm EXCEPT ![k] = stock[k]]
  /\ UNCHANGED <<vars, deleted, writes>>

\* Mutant: the UPDATE does not wait for the row lock.
SaveStockNow(k) ==
  /\ Write
  /\ stockForm[k] # NoRow /\ stockForm[k].pk = stock[k].pk
  /\ \E q \in {stockForm[k].qty} \cup Counts :
       stock' = [stock EXCEPT ![k].qty = q]
  /\ stockForm' = [stockForm EXCEPT ![k] = NoRow]
  /\ UNCHANGED <<nextPk, status, items, audit, channel, lost, txn, deleted>>

\* The form is saved with the quantity it shows, or with one typed in.
SaveStock(k) ==
  /\ Write
  /\ stockForm[k] # NoRow /\ stockForm[k].pk = stock[k].pk
  /\ StockFree(k)
  /\ \E q \in {stockForm[k].qty} \cup Counts :
       stock' = [stock EXCEPT ![k].qty = q]
  /\ stockForm' = [stockForm EXCEPT ![k] = NoRow]
  /\ UNCHANGED <<nextPk, status, items, audit, channel, lost, txn, deleted>>

\* A new row; the unique constraint waits for, and then refuses, a second one.
AddStock(k) ==
  /\ Write
  /\ "stock" \in Pages /\ nextPk <= MaxPk
  /\ stock[k] = NoRow
  /\ \A t \in Workers : k \notin made[t]
  /\ \E q \in Counts : stock' = [stock EXCEPT ![k] = [pk |-> nextPk, qty |-> q]]
  /\ nextPk' = nextPk + 1
  /\ UNCHANGED <<status, items, audit, channel, lost, txn, stockForm, deleted>>

\* The status is whatever the form says: one that was there when it was opened, or
\* one that staff select.
SaveOrder(o) ==
  /\ Write
  /\ "order" \in Pages /\ status[o] # NoStatus
  /\ OrderFree(o)
  /\ \E s \in Edits : status' = [status EXCEPT ![o] = s]
  /\ UNCHANGED <<stock, nextPk, items, audit, channel, lost, txn, stockForm, deleted>>

\* The order goes, and its items and audit rows by CASCADE.
DeleteOrder(o) ==
  /\ Write
  /\ "order" \in Pages /\ status[o] # NoStatus
  /\ OrderFree(o)
  /\ status' = [status EXCEPT ![o] = NoStatus]
  /\ items' = [items EXCEPT ![o] = NoLines]
  /\ audit' = [audit EXCEPT ![o] = <<>>]
  /\ deleted' = deleted \cup {o}
  /\ UNCHANGED <<stock, nextPk, channel, lost, txn, stockForm>>

\* advance_order finds the order gone when its turn for the lock comes.
Gone(t) == pc[t] = "order" /\ status[job[t].order] = NoStatus

OrderGone(t) == Gone(t) /\ Rollback(t) /\ UNCHANGED <<stockForm, deleted, writes>>

\* The service's own steps; a public_id is never drawn twice.
Service ==
  /\ \E t \in Workers : \/ Place(t) \/ (~Gone(t) /\ Advance(t))
                        \/ \E k \in Key : LockStockRow(t, k)
                        \/ Abort(t)
  /\ \A t \in Workers : pc[t] = "idle" => job'[t].order \notin deleted
  /\ UNCHANGED <<stockForm, deleted, writes>>

Office ==
  \/ \E k \in Key : \/ OpenStock(k) \/ SaveStock(k) \/ AddStock(k)
                    \/ DeleteStockRow(k) /\ Write /\ UNCHANGED <<stockForm, deleted>>
  \/ \E o \in Orders : SaveOrder(o) \/ DeleteOrder(o)

OfficeNext == Service \/ Office \/ \E t \in Workers : OrderGone(t)

OfficeSpec == OfficeInit /\ [][OfficeNext]_officeVars

-----------------------------------------------------------------------------
(* Properties.  LockedRowsFresh is OrderService's.                         *)

\* The units on the books: on hand, or held by an order.
OnBooks(k) ==
  stock[k].qty
    + SumFunctionOnSet([o \in Orders |-> IF Active(o) THEN items[o][k] ELSE 0], Orders)

\* Whatever the back office has done to the rows in between, no step of the service
\* creates or loses a unit: it adds and takes on what it holds locked, and the
\* status it acts on is the one that is there.
ServiceConserves == [][Service => \A k \in Key : OnBooks(k)' = OnBooks(k)]_officeVars

\* services.py: every code path that mutates stock goes through that module and
\* follows its locking protocol, so that no update of a quantity is lost, here that
\* of an order placed while a form was open (with no quantity typed in).
NoLostUpdate == UnitsConserved
=============================================================================
