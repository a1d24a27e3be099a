-------------------------- MODULE BackOfficeProofs --------------------------
(***************************************************************************)
(* What staff cannot break, for any number of workers, orders and rows and *)
(* whatever they save, add and delete: a row in a worker's hand is the     *)
(* committed one, no committed quantity is negative, and no step of the    *)
(* service creates or loses a unit.                                        *)
(*                                                                         *)
(* Argument.  The service's own invariant RowInv survives every write of   *)
(* staff, because each waits for the row locks it says something about.    *)
(* Only OrdersFound does not: staff may delete an order that a worker      *)
(* waits for, and that worker then gives up.                               *)
(***************************************************************************)
EXTENDS BackOffice, OrderServiceProofs

\* An open form shows a row as it was once.
FormsOK ==
  /\ stockForm \in [Key -> Row]
  /\ \A k \in Key : stockForm[k].qty >= 0 /\ (stockForm[k].pk = 0 => stockForm[k] = NoRow)

OfficeInv == RowInv /\ FormsOK

\* With every form closed and the service at rest, the office invariant holds.
THEOREM InitOffice == OfficeInit => OfficeInv
BY InitRow DEF OfficeInit, OfficeInv, FormsOK, Row, NoRow

-----------------------------------------------------------------------------
(* The service's steps beside staff.                                       *)

\* What the workers do beside the back office is a step of OrderService: the
\* service does not know that staff are there.
LEMMA ServiceIsNext == Service => Next
BY DEF Service, Next

\* A step of one worker leaves the control state of the others alone.
LEMMA OthersStay ==
  ASSUME TypeOK, NEW t \in Workers, NEW u \in Workers, u # t,
         Place(t) \/ Advance(t) \/ Abort(t) \/ \E k \in Key : LockStockRow(t, k)
  PROVE  pc'[u] = pc[u]
BY DEF TypeOK, Place, Advance, PlaceOrder, InsufficientStock, CommitPlacement, AdvanceOrder,
       LockOrder, InvalidTransition, CommitTransition, BeginRestock, RecreateStockRow,
       DuplicateStockRow, CommitCancellation, LockStockRow, Abort, Rollback, EndTransaction

\* An order that is gone is not locked: the worker that waited for it gives up.
LEMMA ServiceLocksExisting ==
  ASSUME TypeOK, Service
  PROVE  LocksExisting
<1> SUFFICES ASSUME NEW u \in Workers, LockOrder(u), status[job[u].order] = NoStatus
             PROVE  FALSE
  BY DEF LocksExisting
<1>1. pc[u] = "order" /\ pc'[u] = "locked" /\ Gone(u)
  BY DEF LockOrder, Gone, TypeOK
<1>2. PICK t \in Workers : \/ Place(t) \/ (~Gone(t) /\ Advance(t))
                           \/ \E k \in Key : LockStockRow(t, k)
                           \/ Abort(t)
  BY DEF Service
<1>3. t = u
  BY <1>1, <1>2, OthersStay
<1>4. Place(u) \/ Abort(u) \/ \E k \in Key : LockStockRow(u, k)
  BY <1>1, <1>2, <1>3
<1> QED
  BY <1>1, <1>4 DEF Place, PlaceOrder, InsufficientStock, CommitPlacement, LockStockRow,
     Abort, Rollback, EndTransaction, TypeOK

-----------------------------------------------------------------------------
(* Staff's steps.                                                          *)

\* The workers' orders stay as they are.
LEMMA JobStays ==
  ASSUME JobInv, TypeOK', UNCHANGED <<status, items, txn>>
  PROVE  JobInv'
BY DEF JobInv, TypeInv, JobOK, txn, IdleClean, PlacingFresh, OrderLockSound, HoldsOrder,
       TransitionAllowed

\* A row that no worker holds is written in place or, under a new pk, where no row is.
LEMMA StockWriteKeeps ==
  ASSUME RowInv, NEW k \in Key, StockFree(k),
         NEW row \in Row, row.qty >= 0, row.pk # 0,
         stock' = [stock EXCEPT ![k] = row],
         \/ row.pk = stock[k].pk /\ nextPk' = nextPk
         \/ row.pk = nextPk /\ nextPk' = nextPk + 1 /\ \A t \in Workers : k \notin made[t],
         UNCHANGED <<status, items, audit, channel, lost, txn>>
  PROVE  RowInv'
<1> USE DEF txn
<1>0. /\ TypeOK /\ stock \in [Key -> Row] /\ nextPk \in Nat \ {0}
      /\ got \in [Workers -> [Key -> Row]] /\ made \in [Workers -> SUBSET Key]
      /\ want \in [Workers -> [Key -> Nat]]
  BY DEF RowInv, JobInv, TypeInv, TypeOK
<1>1. /\ stock'[k] = row /\ \A j \in Key : j # k => stock'[j] = stock[j]
      /\ stock' \in [Key -> Row] /\ nextPk' \in Nat \ {0} /\ nextPk <= nextPk'
      /\ row.pk \in Nat /\ row.pk < nextPk'
  BY <1>0 DEF Row, RowInv, RowsSound
<1>2. JobInv'
  <2>1. TypeOK'
    BY <1>0, <1>1 DEF TypeOK
  <2> QED BY <2>1, JobStays DEF RowInv
<1>3. RowsSound'
  <2>1. \A j \in Key : /\ stock'[j].qty >= 0 /\ stock'[j].pk < nextPk'
                       /\ stock'[j].pk = 0 => stock'[j] = NoRow
    BY <1>0, <1>1 DEF RowInv, RowsSound, Row
  <2>2. \A j \in Key : j # k /\ stock[j].pk # 0 => stock[j].pk # row.pk
    BY <1>0 DEF RowInv, RowsSound, Row
  <2>3. \A i, j \in Key : stock'[i].pk = stock'[j].pk /\ stock'[i].pk # 0 => i = j
    BY <1>0, <1>1, <2>2 DEF RowInv, RowsSound
  <2> QED BY <2>1, <2>3 DEF RowsSound
<1>4. HandsSound'
  <2> SUFFICES ASSUME NEW t \in Workers, NEW j \in Key PROVE HandOK(t, j)'
    BY DEF HandsSound
  <2>1. HandOK(t, j)
    BY DEF RowInv, HandsSound
  <2>2. j \in Locked(t) => stock'[j] = stock[j]
    BY <1>1 DEF StockFree
  <2>3. got[t][j].pk < nextPk => got[t][j].pk < nextPk'
    BY <1>0, <1>1 DEF Row
  <2> QED BY <2>1, <2>2, <2>3 DEF HandOK, Locked
<1>5. MadeSound'
  <2> SUFFICES ASSUME NEW t \in Workers, NEW j \in made[t] PROVE MadeOK(t, j)'
    BY DEF MadeSound
  <2>1. MadeOK(t, j) /\ j \in Key /\ HandOK(t, j)
    BY <1>0 DEF RowInv, MadeSound, HandsSound
  <2>2. stock'[j].pk = 0
    BY <1>1, <2>1 DEF MadeOK
  <2>3. row.pk # got[t][j].pk
    BY <1>0, <2>1 DEF MadeOK, HandOK, Row
  <2>4. \A i \in Key : stock'[i].pk # got[t][j].pk
    BY <1>1, <2>1, <2>3 DEF MadeOK
  <2> QED BY <2>1, <2>2, <2>4 DEF MadeOK
<1>6. WantsSound'
  <2> SUFFICES ASSUME NEW t \in Workers, NEW j \in Key, want[t][j] # 0 PROVE WantOK(t, j)'
    BY DEF WantsSound
  <2>1. WantOK(t, j)
    BY DEF RowInv, WantsSound
  <2>2. want[t][j] < nextPk'
    BY <1>0, <1>1, <2>1 DEF WantOK
  <2> QED BY <2>1, <2>2 DEF WantOK
<1> QED BY <1>2, <1>3, <1>4, <1>5, <1>6 DEF RowInv

\* Saving a stock form (inventory/admin.py) keeps the invariant: the UPDATE waits
\* for the row lock, so no locked row changes under its holder, and it keeps the pk.
LEMMA SaveStockKeeps ==
  ASSUME OfficeInv, NEW k \in Key, SaveStock(k)
  PROVE  OfficeInv'
<1>0. /\ stock \in [Key -> Row] /\ stockForm \in [Key -> Row]
      /\ stockForm[k].qty >= 0 /\ stockForm[k].pk = stock[k].pk /\ stockForm[k].pk # 0
  BY DEF SaveStock, OfficeInv, FormsOK, RowInv, JobInv, TypeInv, TypeOK
<1>1. PICK q \in {stockForm[k].qty} \cup Counts : stock' = [stock EXCEPT ![k].qty = q]
  BY DEF SaveStock
<1> DEFINE row == [stock[k] EXCEPT !.qty = q]
<1>2. q \in Int /\ q >= 0
  BY <1>0, BackOfficeAssumption DEF Row
<1>3. row \in Row /\ row.qty >= 0 /\ row.pk = stock[k].pk /\ row.pk # 0
  BY <1>0, <1>2 DEF Row
<1>4. stock' = [stock EXCEPT ![k] = row]
  BY <1>0, <1>1
<1>5. /\ UNCHANGED <<nextPk, status, items, audit, channel, lost, txn>> /\ StockFree(k)
      /\ stockForm' = [stockForm EXCEPT ![k] = NoRow]
  BY DEF SaveStock
<1> HIDE DEF row
<1>6. RowInv'
  BY <1>3, <1>4, <1>5, StockWriteKeeps DEF OfficeInv
<1>7. FormsOK'
  BY <1>5 DEF OfficeInv, FormsOK, Row, NoRow
<1> QED BY <1>6, <1>7 DEF OfficeInv

\* Adding a stock row by hand keeps the invariant: the unique key is free, also of
\* the uncommitted insert of a restock, and the pk is new.
LEMMA AddStockKeeps ==
  ASSUME OfficeInv, NEW k \in Key, AddStock(k)
  PROVE  OfficeInv'
<1>1. PICK q \in Counts : stock' = [stock EXCEPT ![k] = [pk |-> nextPk, qty |-> q]]
  BY DEF AddStock
<1> DEFINE row == [pk |-> nextPk, qty |-> q]
<1>2. row \in Row /\ row.qty >= 0 /\ row.pk = nextPk /\ row.pk # 0
  BY BackOfficeAssumption DEF OfficeInv, RowInv, JobInv, TypeInv, TypeOK, Row
<1>3. StockFree(k)
  BY DEF AddStock, StockFree, OfficeInv, RowInv, HandsSound, HandOK, Locked, NoRow
<1>4. /\ stock' = [stock EXCEPT ![k] = row] /\ nextPk' = nextPk + 1
      /\ \A t \in Workers : k \notin made[t]
      /\ UNCHANGED <<status, items, audit, channel, lost, txn, stockForm>>
  BY <1>1 DEF AddStock
<1> HIDE DEF row
<1>5. RowInv'
  BY <1>2, <1>3, <1>4, StockWriteKeeps DEF OfficeInv
<1> QED BY <1>4, <1>5 DEF OfficeInv, FormsOK

\* An order that no worker holds is rewritten or removed.
LEMMA OrderWriteKeeps ==
  ASSUME OfficeInv, NEW o \in Orders, OrderFree(o), status[o] # NoStatus,
         TypeOK', \A p \in Orders \ {o} : status'[p] = status[p] /\ items'[p] = items[p],
         UNCHANGED <<stock, nextPk, txn, stockForm>>
  PROVE  OfficeInv'
<1> USE DEF txn
<1>0. RowInv /\ JobInv
  BY DEF OfficeInv, RowInv
<1>1. TypeInv' /\ IdleClean'
  BY <1>0 DEF JobInv, TypeInv, JobOK, IdleClean
<1>2. PlacingFresh'
  BY <1>0 DEF JobInv, TypeInv, JobOK, PlacingFresh
<1>3. OrderLockSound'
  <2> SUFFICES ASSUME NEW t \in Workers, pc[t] \in {"locked", "restock"}
               PROVE  status'[job[t].order] = status[job[t].order] /\ items'[job[t].order] = items[job[t].order]
    BY <1>0 DEF JobInv, OrderLockSound, HoldsOrder, TransitionAllowed
  <2> QED BY <1>0 DEF OrderFree, HoldsOrder, JobInv, TypeInv, JobOK
<1>4. JobInv'
  BY <1>1, <1>2, <1>3 DEF JobInv
<1>5. RowInv'
  BY <1>0, <1>4 DEF RowInv, RowsSound, HandsSound, HandOK, MadeSound, MadeOK, WantsSound, WantOK, Locked
<1> QED BY <1>5 DEF OfficeInv, FormsOK

\* Every step, of the service or of staff, keeps the office invariant.
THEOREM StepOffice == OfficeInv /\ [OfficeNext]_officeVars => OfficeInv'
<1> SUFFICES ASSUME OfficeInv, [OfficeNext]_officeVars PROVE OfficeInv'
  OBVIOUS
<1>0. RowInv /\ JobInv /\ TypeOK
  BY DEF OfficeInv, RowInv, JobInv, TypeInv
<1>1. CASE UNCHANGED officeVars
  <2>1. [Next]_vars /\ LocksExisting /\ UNCHANGED stockForm
    BY <1>1, <1>0 DEF officeVars, vars, txn, LocksExisting, LockOrder, TypeOK
  <2> QED BY <1>0, <2>1, StepRow DEF OfficeInv, FormsOK
<1>2. CASE Service
  <2>1. RowInv'
    BY <1>0, <1>2, StepRow, ServiceIsNext, ServiceLocksExisting
  <2> QED BY <1>2, <2>1 DEF Service, OfficeInv, FormsOK
<1>3. ASSUME NEW t \in Workers, OrderGone(t) PROVE OfficeInv'
  BY <1>0, <1>3, RollbackRow DEF OrderGone, OfficeInv, FormsOK
<1>4. ASSUME NEW k \in Key, OpenStock(k) PROVE OfficeInv'
  <2>1. UNCHANGED vars /\ stockForm' = [stockForm EXCEPT ![k] = stock[k]]
    BY <1>4 DEF OpenStock
  <2>2. RowInv'
    <3>1. LocksExisting
      BY <1>0, <2>1 DEF vars, txn, LocksExisting, LockOrder, TypeOK
    <3> QED BY <1>0, <2>1, <3>1, StepRow
  <2>3. FormsOK'
    BY <1>0, <2>1 DEF OfficeInv, FormsOK, TypeOK, RowInv, RowsSound
  <2> QED BY <2>2, <2>3 DEF OfficeInv
<1>5. ASSUME NEW k \in Key, SaveStock(k) PROVE OfficeInv'
  BY <1>5, SaveStockKeeps
<1>6. ASSUME NEW k \in Key, AddStock(k) PROVE OfficeInv'
  BY <1>6, AddStockKeeps
<1>7. ASSUME NEW k \in Key, DeleteStockRow(k), UNCHANGED stockForm PROVE OfficeInv'
  <2>1. Next /\ LocksExisting
    BY <1>0, <1>7 DEF Next, DeleteStockRow, txn, LocksExisting, LockOrder, TypeOK
  <2> QED BY <1>0, <1>7, <2>1, StepRow DEF OfficeInv, FormsOK
<1>8. ASSUME NEW o \in Orders, SaveOrder(o) PROVE OfficeInv'
  <2>1. PICK s \in Edits : status' = [status EXCEPT ![o] = s]
    BY <1>8 DEF SaveOrder
  <2>2. /\ OrderFree(o) /\ status[o] # NoStatus
        /\ UNCHANGED <<stock, nextPk, items, audit, channel, lost, txn, stockForm>>
    BY <1>8 DEF SaveOrder
  <2>3. TypeOK'
    BY <1>0, <2>1, <2>2, BackOfficeAssumption DEF TypeOK, txn
  <2> QED BY <1>0, <2>1, <2>2, <2>3, OrderWriteKeeps DEF TypeOK
<1>9. ASSUME NEW o \in Orders, DeleteOrder(o) PROVE OfficeInv'
  <2>1. /\ OrderFree(o) /\ status[o] # NoStatus
        /\ status' = [status EXCEPT ![o] = NoStatus] /\ items' = [items EXCEPT ![o] = NoLines]
        /\ audit' = [audit EXCEPT ![o] = <<>>]
        /\ UNCHANGED <<stock, nextPk, channel, lost, txn, stockForm>>
    BY <1>9 DEF DeleteOrder
  <2>2. TypeOK'
    BY <1>0, <2>1, NothingTypes DEF TypeOK, txn
  <2> QED BY <1>0, <2>1, <2>2, OrderWriteKeeps DEF TypeOK
<1> QED BY <1>1, <1>2, <1>3, <1>4, <1>5, <1>6, <1>7, <1>8, <1>9 DEF OfficeNext, Office

\* The office invariant holds always: the service's locks and reads stay sound
\* whatever staff do in the admin.
THEOREM OfficeInvariant == OfficeSpec => []OfficeInv
BY InitOffice, StepOffice, PTL DEF OfficeSpec

-----------------------------------------------------------------------------
(* What follows.                                                           *)

\* Whatever staff save, add and delete, what a worker read under a lock is what is
\* committed until it lets go.
THEOREM LocksHoldAgainstStaff == OfficeSpec => []LockedRowsFresh
<1>1. OfficeInv => LockedRowsFresh
  BY RowsAreFresh DEF OfficeInv
<1> QED BY <1>1, OfficeInvariant, PTL

\* No committed quantity is negative, whatever staff do.
THEOREM OfficeNeverOversells == OfficeSpec => []NoOversell
<1>1. OfficeInv => NoOversell
  BY DEF OfficeInv, RowInv, RowsSound, NoOversell
<1> QED BY <1>1, OfficeInvariant, PTL

\* Whatever staff have done to the rows in between, no step of the service creates or
\* loses a unit.
THEOREM ServiceConservesUnits == OfficeSpec => ServiceConserves
<1>1. ASSUME OfficeInv, OfficeInv', Service, NEW k \in Key PROVE OnBooks(k)' = OnBooks(k)
  <2>1. OnBooks(k) = stock[k].qty + Held(k) /\ OnBooks(k)' = stock'[k].qty + Held(k)'
    BY DEF OnBooks, Held, HeldBy
  <2>2. RowInv /\ TypeOK'
    BY <1>1 DEF OfficeInv, RowInv, JobInv, TypeInv
  <2> QED BY <1>1, <2>1, <2>2, WorkerConserves DEF Service
<1>2. OfficeInv /\ OfficeInv' /\ [OfficeNext]_officeVars =>
        [Service => \A k \in Key : OnBooks(k)' = OnBooks(k)]_officeVars
  BY <1>1
<1> QED BY <1>2, OfficeInvariant, PTL DEF OfficeSpec, ServiceConserves
=============================================================================
